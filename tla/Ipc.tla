-------------------------------- MODULE Ipc --------------------------------
(***************************************************************************)
(* The kernel message queue, src/kernel/ipc.c.  One ring of Capacity slots *)
(* is shared by all receivers; a slot is freed out of order when a         *)
(* receiver takes a message that is not at the head, so the ring can have  *)
(* holes.  ipc_send fills the first unused slot at or after queue_tail,    *)
(* ipc_receive takes the first slot at or after queue_head that is         *)
(* addressed to the caller.  Both run under a test-and-set spin lock.      *)
(*                                                                         *)
(* Every iteration of a loop is a step, so that a loop that never ends is  *)
(* visible, and a slot is marked used in one step and filled in the next,  *)
(* as in the code, so that what the lock protects is visible too.  The     *)
(* unlock is part of the last step that needs the lock.                    *)
(***************************************************************************)
EXTENDS IpcCalls, Integers, FiniteSets

VARIABLES
    queue,           \* queue[s]: the ASAS_IPC_MESSAGE in slot s
    queue_used,      \* queue_used[s]
    queue_head,
    queue_tail,
    queue_count,
    ipc_lock_value,  \* 1 while some caller holds the lock
    pc,              \* where each caller is in its call
    ipc_index,       \* the loop index of ipc_receive, the slot of ipc_send
    call             \* the caller's arguments, then what the call gives back

ring == <<queue, queue_used, queue_head, queue_tail, queue_count>>
ipcVars == <<ring, ipc_lock_value, pc, ipc_index, call>>

Slots == 0 .. Capacity - 1

(* A slot's data array has MessageSize bytes whatever the message's length *)
(* is; the bytes after the length are left over from an earlier message.   *)
SlotMessages ==
    [sender : Senders \union {0}, receiver : Pids \union {0},
     length : 0 .. MessageSize, data : [1 .. MessageSize -> Bytes \union {0}]]

Critical == {"probe", "fill", "scan", "advance"}

(* The state ipc_initialize leaves, with the static array still zeroed.    *)
IpcInit ==
    /\ queue = [s \in Slots |->
                  [sender |-> 0, receiver |-> 0, length |-> 0,
                   data |-> [i \in 1 .. MessageSize |-> 0]]]
    /\ queue_used = [s \in Slots |-> FALSE]
    /\ queue_head = 0
    /\ queue_tail = 0
    /\ queue_count = 0
    /\ ipc_lock_value = 0
    /\ pc = [t \in Callers |-> "idle"]
    /\ ipc_index = [t \in Callers |-> 0]
    /\ call = [t \in Callers |-> NoCall]

(* Faulty variant: the index runs off the end of the ring.                 *)
FollowingUnwrapped(s) == s + 1

Following(s) == (s + 1) % Capacity

(* Faulty variant: the scan always starts at slot 0.                       *)
ScanSlotFromZero(i) == i % Capacity

ScanSlot(i) == (queue_head + i) % Capacity

Contents(s) ==
    [queue[s] EXCEPT !.data = [i \in 1 .. queue[s].length |-> queue[s].data[i]]]

Finish(t, answer) ==
    /\ ipc_lock_value' = 0
    /\ pc' = [pc EXCEPT ![t] = "done"]
    /\ ipc_index' = [ipc_index EXCEPT ![t] = 0]
    /\ call' = [call EXCEPT ![t] = answer]

-----------------------------------------------------------------------------
(* Entry, the test-and-set that finds the lock free, and the return.       *)

Request(t) ==
    /\ pc[t] = "idle"
    /\ \E r \in Sends \union Receives : call' = [call EXCEPT ![t] = r]
    /\ pc' = [pc EXCEPT ![t] = "enter"]
    /\ UNCHANGED <<ring, ipc_lock_value, ipc_index>>

RefuseLong(t) ==
    /\ pc[t] = "enter"
    /\ call[t] \in Sends
    /\ call[t].message.length > MessageSize
    /\ pc' = [pc EXCEPT ![t] = "done"]
    /\ call' = [call EXCEPT ![t] = Refused]
    /\ UNCHANGED <<ring, ipc_lock_value, ipc_index>>

LockSend(t) ==
    /\ pc[t] = "enter"
    /\ call[t] \in Sends
    /\ call[t].message.length <= MessageSize
    /\ ipc_lock_value = 0
    /\ ipc_lock_value' = 1
    /\ pc' = [pc EXCEPT ![t] = "probe"]
    /\ UNCHANGED <<ring, ipc_index, call>>

LockReceive(t) ==
    /\ pc[t] = "enter"
    /\ call[t] \in Receives
    /\ ipc_lock_value = 0
    /\ ipc_lock_value' = 1
    /\ pc' = [pc EXCEPT ![t] = "scan"]
    /\ ipc_index' = [ipc_index EXCEPT ![t] = 0]
    /\ UNCHANGED <<ring, call>>

ReturnFromCall(t) ==
    /\ pc[t] = "done"
    /\ pc' = [pc EXCEPT ![t] = "idle"]
    /\ call' = [call EXCEPT ![t] = NoCall]
    /\ UNCHANGED <<ring, ipc_lock_value, ipc_index>>

-----------------------------------------------------------------------------
(* ipc_send                                                                *)

(* Faulty variant: the early return forgets to unlock.                     *)
RefuseFullLocked(t) ==
    /\ pc[t] = "probe"
    /\ queue_count >= Capacity
    /\ pc' = [pc EXCEPT ![t] = "done"]
    /\ call' = [call EXCEPT ![t] = Refused]
    /\ UNCHANGED <<ring, ipc_lock_value, ipc_index>>

RefuseFull(t) ==
    /\ pc[t] = "probe"
    /\ queue_count >= Capacity
    /\ Finish(t, Refused)
    /\ UNCHANGED ring

ProbeTail(t) ==
    /\ pc[t] = "probe"
    /\ queue_count < Capacity
    /\ queue_used[queue_tail]
    /\ queue_tail' = Following(queue_tail)
    /\ UNCHANGED <<queue, queue_used, queue_head, queue_count,
                   ipc_lock_value, pc, ipc_index, call>>

Reserve(t) ==
    /\ pc[t] = "probe"
    /\ queue_count < Capacity
    /\ ~queue_used[queue_tail]
    /\ queue_used' = [queue_used EXCEPT ![queue_tail] = TRUE]
    /\ ipc_index' = [ipc_index EXCEPT ![t] = queue_tail]
    /\ queue_tail' = Following(queue_tail)
    /\ queue_count' = queue_count + 1
    /\ pc' = [pc EXCEPT ![t] = "fill"]
    /\ UNCHANGED <<queue, queue_head, ipc_lock_value, call>>

Fill(t) ==
    LET m == call[t].message
        s == ipc_index[t] IN
    /\ pc[t] = "fill"
    /\ queue' = [queue EXCEPT ![s] =
                   [sender |-> m.sender, receiver |-> m.receiver,
                    length |-> m.length,
                    data |-> [i \in 1 .. MessageSize |->
                                IF i <= m.length THEN m.data[i]
                                                 ELSE queue[s].data[i]]]]
    /\ Finish(t, Sent)
    /\ UNCHANGED <<queue_used, queue_head, queue_tail, queue_count>>

-----------------------------------------------------------------------------
(* ipc_receive                                                             *)

(* Faulty variant: any message will do, whoever it is for.                 *)
MatchesAnyone(s, t) == queue_used[s]

Matches(s, t) == queue_used[s] /\ queue[s].receiver = call[t].pid

Skip(t) ==
    /\ pc[t] = "scan"
    /\ ipc_index[t] < Capacity
    /\ ~Matches(ScanSlot(ipc_index[t]), t)
    /\ ipc_index' = [ipc_index EXCEPT ![t] = @ + 1]
    /\ UNCHANGED <<ring, ipc_lock_value, pc, call>>

(* Faulty variant: the reset of the ring forgets the slot itself.          *)
TakeLastStillUsed(t) ==
    LET s == ScanSlot(ipc_index[t]) IN
    /\ pc[t] = "scan"
    /\ ipc_index[t] < Capacity
    /\ Matches(s, t)
    /\ queue_count = 1
    /\ queue_count' = 0
    /\ queue_head' = 0
    /\ queue_tail' = 0
    /\ Finish(t, Received(Contents(s)))
    /\ UNCHANGED <<queue, queue_used>>

(* The queue is empty afterwards: the ring is reset and the call is over.  *)
TakeLast(t) ==
    LET s == ScanSlot(ipc_index[t]) IN
    /\ pc[t] = "scan"
    /\ ipc_index[t] < Capacity
    /\ Matches(s, t)
    /\ queue_count = 1
    /\ queue_used' = [queue_used EXCEPT ![s] = FALSE]
    /\ queue_count' = 0
    /\ queue_head' = 0
    /\ queue_tail' = 0
    /\ Finish(t, Received(Contents(s)))
    /\ UNCHANGED queue

(* Messages remain: the message is copied out, the head still has to move. *)
Take(t) ==
    LET s == ScanSlot(ipc_index[t]) IN
    /\ pc[t] = "scan"
    /\ ipc_index[t] < Capacity
    /\ Matches(s, t)
    /\ queue_count # 1
    /\ queue_used' = [queue_used EXCEPT ![s] = FALSE]
    /\ queue_count' = queue_count - 1
    /\ call' = [call EXCEPT ![t] = Received(Contents(s))]
    /\ pc' = [pc EXCEPT ![t] = "advance"]
    /\ UNCHANGED <<queue, queue_head, queue_tail, ipc_lock_value, ipc_index>>

AdvanceHead(t) ==
    /\ pc[t] = "advance"
    /\ ~queue_used[queue_head]
    /\ queue_head' = Following(queue_head)
    /\ UNCHANGED <<queue, queue_used, queue_tail, queue_count,
                   ipc_lock_value, pc, ipc_index, call>>

(* Faulty variant: the head may stop at a hole.                            *)
HeadFoundAnywhere(t) ==
    /\ pc[t] = "advance"
    /\ Finish(t, call[t])
    /\ UNCHANGED ring

HeadFound(t) ==
    /\ pc[t] = "advance"
    /\ queue_used[queue_head]
    /\ Finish(t, call[t])
    /\ UNCHANGED ring

FindNothing(t) ==
    /\ pc[t] = "scan"
    /\ ipc_index[t] = Capacity
    /\ Finish(t, Nothing)
    /\ UNCHANGED ring

-----------------------------------------------------------------------------
Running(t) ==
    \/ RefuseLong(t) \/ LockSend(t) \/ LockReceive(t) \/ ReturnFromCall(t)
    \/ RefuseFull(t) \/ ProbeTail(t) \/ Reserve(t) \/ Fill(t)
    \/ Skip(t) \/ TakeLast(t) \/ Take(t) \/ AdvanceHead(t) \/ HeadFound(t)
    \/ FindNothing(t)

IpcNext == \E t \in Callers : Request(t) \/ Running(t)

IpcSpec == IpcInit /\ [][IpcNext]_ipcVars

(* A caller inside a call keeps running (the kernel's threads are never    *)
(* stopped for good); whether it calls again is up to it.                  *)
FairIpc == IpcSpec /\ \A t \in Callers : WF_ipcVars(Running(t))

-----------------------------------------------------------------------------
(* Properties.                                                             *)

(* Type correctness of the ring and of the callers' local state.           *)
IpcTypeOK ==
    /\ queue \in [Slots -> SlotMessages]
    /\ queue_used \in [Slots -> BOOLEAN]
    /\ queue_head \in Slots
    /\ queue_tail \in Slots
    /\ queue_count \in 0 .. Capacity
    /\ ipc_lock_value \in {0, 1}
    /\ pc \in [Callers -> {"idle", "enter", "done"} \union Critical]
    /\ ipc_index \in [Callers -> 0 .. Capacity]
    /\ call \in [Callers -> {NoCall} \union Sends \union Receives \union Answers]

UsedSlots == {s \in Slots : queue_used[s]}

(* queue_count always agrees with the number of slots marked used: the two *)
(* are updated apart from each other, and both loops that move the head    *)
(* and the tail rely on it to end.                                         *)
CountMatchesUsed == queue_count = Cardinality(UsedSlots)

(* Whenever the lock is free and the queue is not empty, queue_head is at  *)
(* a used slot: the head never rests on a hole left by a receive.          *)
HeadAtMessage ==
    ipc_lock_value = 0 /\ queue_count > 0 => queue_used[queue_head]

(* A slot that ipc_send has reserved but not yet filled holds no message.  *)
BeingFilled(s) == \E t \in Callers : pc[t] = "fill" /\ ipc_index[t] = s

StoredMessages ==
    [s \in Slots |->
        IF queue_used[s] /\ ~BeingFilled(s) THEN Contents(s)
                                            ELSE [length |-> 0]]

Mailbox == INSTANCE IpcMailbox WITH box <- StoredMessages

(* The ring, its scans and its lock implement the atomic mailbox: no       *)
(* message is lost, duplicated, delivered to the wrong process or seen     *)
(* half written, and a call fails only when the mailbox would let it fail. *)
ImplementsMailbox == Mailbox!Spec

(* The lock is never held for ever: the probe for a free slot in ipc_send  *)
(* and the search for the next used slot in ipc_receive both end.          *)
LockReleased == []<>(ipc_lock_value = 0)

(* How far ipc_receive's scan goes before it looks at slot s.              *)
Distance(s) == (s - queue_head + Capacity) % Capacity

(* Delivery follows the scan order: a message leaves the ring only when no *)
(* earlier one in the scan is for the same receiver, and neither taking a  *)
(* message, nor moving the head over the holes, nor filling a hole changes *)
(* the order of the others.  (A new message may go into a hole and be      *)
(* delivered before older messages: the ring is not first-in first-out.)   *)
ScanOrderKept ==
    [][ /\ \A r, s \in UsedSlots \intersect UsedSlots' :
              Distance(r) < Distance(s) => Distance(r)' < Distance(s)'
        /\ \A s \in UsedSlots \ UsedSlots' : \A r \in UsedSlots :
              Distance(r) < Distance(s) => queue[r].receiver # queue[s].receiver
      ]_ipcVars

-----------------------------------------------------------------------------
(* The inductive invariant behind the properties; IpcProofs uses it.       *)

(* The lock is held exactly while one caller is between its lock and its   *)
(* unlock.                                                                 *)
MutualExclusion ==
    /\ \A t \in Callers : pc[t] \in Critical => ipc_lock_value = 1
    /\ \A t, u \in Callers : pc[t] \in Critical /\ pc[u] \in Critical => t = u

CallFits(t) ==
    /\ pc[t] = "idle" => call[t] = NoCall
    /\ pc[t] = "enter" => call[t] \in Sends \union Receives
    /\ pc[t] \in {"probe", "fill"} =>
          call[t] \in Sends /\ call[t].message.length <= MessageSize
    /\ pc[t] = "fill" => ipc_index[t] \in Slots /\ queue_used[ipc_index[t]]
    /\ pc[t] = "scan" => call[t] \in Receives
    /\ pc[t] \in {"advance", "done"} => call[t] \in Answers

(* An empty queue has been reset, or has never been used.                  *)
EmptyIsReset == queue_count = 0 => queue_head = queue_tail

(* The head is at a hole only while ipc_receive is looking for the next    *)
(* used slot, which exists.                                                *)
HeadOrAdvancing ==
    queue_count > 0 => queue_used[queue_head] \/ \E t \in Callers : pc[t] = "advance"

AdvanceEnds == \A t \in Callers : pc[t] = "advance" => queue_count > 0

(* A slot that is used and not being filled holds a message as sent.       *)
StoredAreMessages ==
    \A s \in Slots : queue_used[s] /\ ~BeingFilled(s) => Contents(s) \in Messages

(* What the scan has passed is not for this receiver.                      *)
Scanned ==
    \A t \in Callers : pc[t] = "scan" =>
        \A i \in 0 .. Capacity - 1 : i < ipc_index[t] => ~Matches(ScanSlot(i), t)

IpcInv ==
    /\ IpcTypeOK
    /\ MutualExclusion
    /\ \A t \in Callers : CallFits(t)
    /\ CountMatchesUsed
    /\ EmptyIsReset
    /\ HeadOrAdvancing
    /\ AdvanceEnds
    /\ StoredAreMessages
    /\ Scanned
=============================================================================
