---------------------------- MODULE IpcMailbox ----------------------------
(***************************************************************************)
(* What the message queue of src/kernel/ipc.c promises its callers: a      *)
(* bounded, unordered mailbox.  Every call takes effect in one step.  A    *)
(* send is refused only when the message is too long or no cell is free; a *)
(* receive fails only when no stored message is addressed to the receiver, *)
(* and otherwise takes exactly one such message out of the mailbox.        *)
(* Module Ipc implements this specification with a lock, a ring and scans. *)
(***************************************************************************)
EXTENDS IpcCalls

VARIABLES
    box,           \* box[c]: the message in cell c, or NoMessage
    call           \* call[t]: what caller t asked for, or the answer it got

vars == <<box, call>>

Cells == 0 .. Capacity - 1

NoMessage == [length |-> 0]

Free(c) == box[c] = NoMessage

Init ==
    /\ box = [c \in Cells |-> NoMessage]
    /\ call = [t \in Callers |-> NoCall]

Request(t) ==
    /\ call[t] = NoCall
    /\ \E r \in Sends \union Receives : call' = [call EXCEPT ![t] = r]
    /\ UNCHANGED box

Store(t) ==
    /\ call[t] \in Sends
    /\ call[t].message.length <= MessageSize
    /\ \E c \in Cells :
          /\ Free(c)
          /\ box' = [box EXCEPT ![c] = call[t].message]
    /\ call' = [call EXCEPT ![t] = Sent]

Refuse(t) ==
    /\ call[t] \in Sends
    /\ \/ call[t].message.length > MessageSize
       \/ \A c \in Cells : ~Free(c)
    /\ call' = [call EXCEPT ![t] = Refused]
    /\ UNCHANGED box

Deliver(t) ==
    /\ call[t] \in Receives
    /\ \E c \in Cells :
          /\ ~Free(c)
          /\ box[c].receiver = call[t].pid
          /\ call' = [call EXCEPT ![t] = Received(box[c])]
          /\ box' = [box EXCEPT ![c] = NoMessage]

FindNothing(t) ==
    /\ call[t] \in Receives
    /\ \A c \in Cells : Free(c) \/ box[c].receiver # call[t].pid
    /\ call' = [call EXCEPT ![t] = Nothing]
    /\ UNCHANGED box

Return(t) ==
    /\ call[t] \in Answers
    /\ call' = [call EXCEPT ![t] = NoCall]
    /\ UNCHANGED box

Next ==
    \E t \in Callers :
        \/ Request(t) \/ Store(t) \/ Refuse(t)
        \/ Deliver(t) \/ FindNothing(t) \/ Return(t)

Spec == Init /\ [][Next]_vars
=============================================================================
