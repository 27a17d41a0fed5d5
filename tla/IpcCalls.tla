------------------------------ MODULE IpcCalls ------------------------------
(***************************************************************************)
(* The interface of the kernel message queue (src/include/ipc.h): the      *)
(* messages, the arguments of ipc_send and ipc_receive, and what the calls *)
(* give back.                                                              *)
(***************************************************************************)
EXTENDS Naturals

CONSTANTS
    Capacity,      \* IPC_QUEUE_CAPACITY
    MessageSize,   \* ASAS_IPC_MESSAGE_SIZE
    Senders,       \* values of sender_pid
    Pids,          \* values of receiver_pid
    Lengths,       \* payload lengths callers ask for, too long ones too
    Bytes,         \* values of a payload byte
    Callers        \* threads of control inside ipc_send or ipc_receive

ASSUME IpcAssumption ==
    /\ Capacity \in Nat \ {0}
    /\ MessageSize \in Nat
    /\ Senders \subseteq Nat
    /\ Pids \subseteq Nat
    /\ Lengths \subseteq Nat

(* A message as its sender hands it over: exactly n payload bytes.         *)
MessagesOf(n) ==
    [sender : Senders, receiver : Pids, length : {n}, data : [1 .. n -> Bytes]]

Messages == UNION {MessagesOf(n) : n \in Lengths}

NoCall == [op |-> "none"]
SendCall(m) == [op |-> "send", message |-> m]
ReceiveCall(p) == [op |-> "receive", pid |-> p]

Sent == [op |-> "sent"]                             \* ipc_send returns 1
Refused == [op |-> "refused"]                       \* ipc_send returns 0
Received(m) == [op |-> "received", message |-> m]   \* ipc_receive returns 1
Nothing == [op |-> "nothing"]                       \* ipc_receive returns 0

Sends == {SendCall(m) : m \in Messages}
Receives == {ReceiveCall(p) : p \in Pids}
Answers == {Sent, Refused, Nothing} \union {Received(m) : m \in Messages}
=============================================================================
