----------------------------- MODULE IpcProofs -----------------------------
(***************************************************************************)
(* Proofs about the kernel message queue of module Ipc, for every capacity,*)
(* message size, set of callers and payloads.                              *)
(***************************************************************************)
EXTENDS Ipc, FiniteSetTheorems, TLAPS

-----------------------------------------------------------------------------
(* Facts about the operators the model is built from.                      *)

(* Stepping to the following slot, as both loops do, stays in the ring.    *)
LEMMA FollowingInRing ==
    ASSUME NEW s \in Slots
    PROVE  Following(s) \in Slots
BY IpcAssumption DEF Slots, Following

(* So does the slot ipc_receive looks at.                                  *)
LEMMA ScanSlotInRing ==
    ASSUME queue_head \in Slots, NEW i \in 0 .. Capacity
    PROVE  ScanSlot(i) \in Slots
BY IpcAssumption DEF Slots, ScanSlot

(* A full scan of ipc_receive looks at every slot of the ring.             *)
LEMMA ScanCoversRing ==
    ASSUME queue_head \in Slots, NEW s \in Slots
    PROVE  \E i \in 0 .. Capacity - 1 : ScanSlot(i) = s
<1>1. CASE s >= queue_head
  <2>1. s - queue_head \in 0 .. Capacity - 1
    BY <1>1, IpcAssumption DEF Slots
  <2>2. ScanSlot(s - queue_head) = s
    BY <1>1, IpcAssumption, SMT DEF Slots, ScanSlot
  <2> QED
    BY <2>1, <2>2
<1>2. CASE s < queue_head
  <2>1. s + Capacity - queue_head \in 0 .. Capacity - 1
    BY <1>2, IpcAssumption DEF Slots
  <2>2. ScanSlot(s + Capacity - queue_head) = s
    BY <1>2, IpcAssumption, SMT DEF Slots, ScanSlot
  <2> QED
    BY <2>1, <2>2
<1> QED
  BY <1>1, <1>2 DEF Slots

(* The parts of a message as ipc_send is given it.                         *)
LEMMA MessageParts ==
    ASSUME NEW m \in Messages
    PROVE  /\ m.length \in Nat
           /\ m.sender \in Senders
           /\ m.receiver \in Pids
           /\ m.data \in [1 .. m.length -> Bytes]
           /\ m = [sender |-> m.sender, receiver |-> m.receiver,
                   length |-> m.length, data |-> m.data]
<1>1. PICK n \in Lengths : m \in MessagesOf(n)
  BY DEF Messages
<1>2. n \in Nat
  BY IpcAssumption
<1> QED
  BY <1>1, <1>2 DEF MessagesOf

(* What a call of ipc_send carries is a message.                           *)
LEMMA SendCarriesMessage ==
    ASSUME NEW c \in Sends
    PROVE  c.message \in Messages
BY DEF Sends, SendCall

(* The used slots are a finite set, so that they can be counted.           *)
LEMMA UsedSlotsFinite ==
    /\ IsFiniteSet(Slots)
    /\ Cardinality(Slots) = Capacity
    /\ IsFiniteSet(UsedSlots)
<1>1. IsFiniteSet(Slots) /\ Cardinality(Slots) = Capacity
  <2>1. 0 \in Int /\ Capacity - 1 \in Int
    BY IpcAssumption
  <2>2. 0 > Capacity - 1 <=> FALSE
    BY IpcAssumption
  <2> QED
    BY <2>1, <2>2, IpcAssumption, FS_Interval DEF Slots
<1>2. UsedSlots \subseteq Slots
  BY DEF UsedSlots
<1> QED
  BY <1>1, <1>2, FS_Subset

-----------------------------------------------------------------------------
(* Every action keeps the invariant.                                       *)

(* Entering ipc_send or ipc_receive keeps the invariant.                   *)
LEMMA RequestKeepsInv ==
    ASSUME IpcInv, NEW t \in Callers, Request(t)
    PROVE  IpcInv'
<1> USE DEF IpcInv
<1>1. IpcTypeOK'
  BY IpcAssumption DEF IpcTypeOK, Request, ring, Critical
<1>2. MutualExclusion'
  BY DEF IpcTypeOK, MutualExclusion, Request, Critical
<1>3. (\A u \in Callers : CallFits(u))'
  BY DEF IpcTypeOK, CallFits, Request, ring
<1>4. CountMatchesUsed' /\ EmptyIsReset'
  BY DEF CountMatchesUsed, EmptyIsReset, UsedSlots, Request, ring
<1>5. HeadOrAdvancing' /\ AdvanceEnds'
  BY DEF IpcTypeOK, HeadOrAdvancing, AdvanceEnds, Request, ring
<1>6. StoredAreMessages'
  BY DEF IpcTypeOK, StoredAreMessages, BeingFilled, Contents, Request, ring
<1>7. Scanned'
  BY DEF IpcTypeOK, Scanned, Matches, ScanSlot, Request, ring
<1> QED
  BY <1>1, <1>2, <1>3, <1>4, <1>5, <1>6, <1>7

(* So does refusing a message that is too long, without the lock.          *)
LEMMA RefuseLongKeepsInv ==
    ASSUME IpcInv, NEW t \in Callers, RefuseLong(t)
    PROVE  IpcInv'
<1> USE DEF IpcInv
<1>1. IpcTypeOK'
  BY IpcAssumption DEF IpcTypeOK, RefuseLong, ring, Critical, Answers
<1>2. MutualExclusion'
  BY DEF IpcTypeOK, MutualExclusion, RefuseLong, Critical
<1>3. (\A u \in Callers : CallFits(u))'
  BY DEF IpcTypeOK, CallFits, RefuseLong, ring, Answers
<1>4. CountMatchesUsed' /\ EmptyIsReset'
  BY DEF CountMatchesUsed, EmptyIsReset, UsedSlots, RefuseLong, ring
<1>5. HeadOrAdvancing' /\ AdvanceEnds'
  BY DEF IpcTypeOK, HeadOrAdvancing, AdvanceEnds, RefuseLong, ring
<1>6. StoredAreMessages'
  BY DEF IpcTypeOK, StoredAreMessages, BeingFilled, Contents, RefuseLong, ring
<1>7. Scanned'
  BY DEF IpcTypeOK, Scanned, Matches, ScanSlot, RefuseLong, ring
<1> QED
  BY <1>1, <1>2, <1>3, <1>4, <1>5, <1>6, <1>7

(* Taking the lock in ipc_send: nobody else was inside.                    *)
LEMMA LockSendKeepsInv ==
    ASSUME IpcInv, NEW t \in Callers, LockSend(t)
    PROVE  IpcInv'
<1> USE DEF IpcInv
<1>1. IpcTypeOK'
  BY IpcAssumption DEF IpcTypeOK, LockSend, ring, Critical
<1>2. MutualExclusion'
  BY DEF IpcTypeOK, MutualExclusion, LockSend, Critical
<1>3. (\A u \in Callers : CallFits(u))'
  BY DEF IpcTypeOK, CallFits, LockSend, ring
<1>4. CountMatchesUsed' /\ EmptyIsReset'
  BY DEF CountMatchesUsed, EmptyIsReset, UsedSlots, LockSend, ring
<1>5. HeadOrAdvancing' /\ AdvanceEnds'
  BY DEF IpcTypeOK, HeadOrAdvancing, AdvanceEnds, LockSend, ring
<1>6. StoredAreMessages'
  BY DEF IpcTypeOK, StoredAreMessages, BeingFilled, Contents, LockSend, ring
<1>7. Scanned'
  BY DEF IpcTypeOK, Scanned, Matches, ScanSlot, LockSend, ring
<1> QED
  BY <1>1, <1>2, <1>3, <1>4, <1>5, <1>6, <1>7

(* Taking the lock in ipc_receive, where the scan has passed nothing yet.  *)
LEMMA LockReceiveKeepsInv ==
    ASSUME IpcInv, NEW t \in Callers, LockReceive(t)
    PROVE  IpcInv'
<1> USE DEF IpcInv
<1>1. IpcTypeOK'
  BY IpcAssumption DEF IpcTypeOK, LockReceive, ring, Critical
<1>2. MutualExclusion'
  BY DEF IpcTypeOK, MutualExclusion, LockReceive, Critical
<1>3. (\A u \in Callers : CallFits(u))'
  BY DEF IpcTypeOK, CallFits, LockReceive, ring
<1>4. CountMatchesUsed' /\ EmptyIsReset'
  BY DEF CountMatchesUsed, EmptyIsReset, UsedSlots, LockReceive, ring
<1>5. HeadOrAdvancing' /\ AdvanceEnds'
  BY DEF IpcTypeOK, HeadOrAdvancing, AdvanceEnds, LockReceive, ring
<1>6. StoredAreMessages'
  BY DEF IpcTypeOK, StoredAreMessages, BeingFilled, Contents, LockReceive, ring
<1>7. Scanned'
  BY DEF IpcTypeOK, Scanned, Matches, ScanSlot, LockReceive, ring
<1> QED
  BY <1>1, <1>2, <1>3, <1>4, <1>5, <1>6, <1>7

(* Returning to the caller.                                                *)
LEMMA ReturnKeepsInv ==
    ASSUME IpcInv, NEW t \in Callers, ReturnFromCall(t)
    PROVE  IpcInv'
<1> USE DEF IpcInv
<1>1. IpcTypeOK'
  BY IpcAssumption DEF IpcTypeOK, ReturnFromCall, ring, Critical
<1>2. MutualExclusion'
  BY DEF IpcTypeOK, MutualExclusion, ReturnFromCall, Critical
<1>3. (\A u \in Callers : CallFits(u))'
  BY DEF IpcTypeOK, CallFits, ReturnFromCall, ring
<1>4. CountMatchesUsed' /\ EmptyIsReset'
  BY DEF CountMatchesUsed, EmptyIsReset, UsedSlots, ReturnFromCall, ring
<1>5. HeadOrAdvancing' /\ AdvanceEnds'
  BY DEF IpcTypeOK, HeadOrAdvancing, AdvanceEnds, ReturnFromCall, ring
<1>6. StoredAreMessages'
  BY DEF IpcTypeOK, StoredAreMessages, BeingFilled, Contents, ReturnFromCall, ring
<1>7. Scanned'
  BY DEF IpcTypeOK, Scanned, Matches, ScanSlot, ReturnFromCall, ring
<1> QED
  BY <1>1, <1>2, <1>3, <1>4, <1>5, <1>6, <1>7

(* Refusing a message because the queue is full, and unlocking.            *)
LEMMA RefuseFullKeepsInv ==
    ASSUME IpcInv, NEW t \in Callers, RefuseFull(t)
    PROVE  IpcInv'
<1> USE DEF IpcInv
<1>1. IpcTypeOK'
  BY IpcAssumption DEF IpcTypeOK, RefuseFull, ring, Critical, Answers, Finish
<1>2. MutualExclusion'
  BY DEF IpcTypeOK, MutualExclusion, RefuseFull, Critical, Finish
<1>3. (\A u \in Callers : CallFits(u))'
  BY DEF IpcTypeOK, CallFits, RefuseFull, ring, Answers, Finish
<1>4. CountMatchesUsed' /\ EmptyIsReset'
  BY DEF CountMatchesUsed, EmptyIsReset, UsedSlots, RefuseFull, ring
<1>5. HeadOrAdvancing' /\ AdvanceEnds'
  BY DEF IpcTypeOK, HeadOrAdvancing, AdvanceEnds, RefuseFull, ring, Finish
<1>6. StoredAreMessages'
  BY DEF IpcTypeOK, StoredAreMessages, BeingFilled, Contents, RefuseFull, ring, Finish
<1>7. Scanned'
  BY DEF IpcTypeOK, Scanned, Matches, ScanSlot, RefuseFull, ring, Finish
<1> QED
  BY <1>1, <1>2, <1>3, <1>4, <1>5, <1>6, <1>7

(* Passing a slot that does not match.                                     *)
LEMMA SkipKeepsInv ==
    ASSUME IpcInv, NEW t \in Callers, Skip(t)
    PROVE  IpcInv'
<1> USE DEF IpcInv
<1>1. IpcTypeOK'
  BY IpcAssumption DEF IpcTypeOK, Skip, ring, Critical
<1>2. MutualExclusion'
  BY DEF IpcTypeOK, MutualExclusion, Skip, Critical
<1>3. (\A u \in Callers : CallFits(u))'
  BY DEF IpcTypeOK, CallFits, Skip, ring
<1>4. CountMatchesUsed' /\ EmptyIsReset'
  BY DEF CountMatchesUsed, EmptyIsReset, UsedSlots, Skip, ring
<1>5. HeadOrAdvancing' /\ AdvanceEnds'
  BY DEF IpcTypeOK, HeadOrAdvancing, AdvanceEnds, Skip, ring
<1>6. StoredAreMessages'
  BY DEF IpcTypeOK, StoredAreMessages, BeingFilled, Contents, Skip, ring
<1>7. Scanned'
  BY DEF IpcTypeOK, Scanned, Matches, ScanSlot, Skip, ring
<1> QED
  BY <1>1, <1>2, <1>3, <1>4, <1>5, <1>6, <1>7

(* Ending the search for the next used slot, and unlocking.                *)
LEMMA HeadFoundKeepsInv ==
    ASSUME IpcInv, NEW t \in Callers, HeadFound(t)
    PROVE  IpcInv'
<1> USE DEF IpcInv
<1>1. IpcTypeOK'
  BY IpcAssumption DEF IpcTypeOK, HeadFound, ring, Critical, Finish
<1>2. MutualExclusion'
  BY DEF IpcTypeOK, MutualExclusion, HeadFound, Critical, Finish
<1>3. (\A u \in Callers : CallFits(u))'
  BY DEF IpcTypeOK, CallFits, HeadFound, ring, Finish
<1>4. CountMatchesUsed' /\ EmptyIsReset'
  BY DEF CountMatchesUsed, EmptyIsReset, UsedSlots, HeadFound, ring
<1>5. HeadOrAdvancing' /\ AdvanceEnds'
  BY DEF IpcTypeOK, HeadOrAdvancing, AdvanceEnds, HeadFound, ring, Finish
<1>6. StoredAreMessages'
  BY DEF IpcTypeOK, StoredAreMessages, BeingFilled, Contents, HeadFound, ring, Finish
<1>7. Scanned'
  BY DEF IpcTypeOK, Scanned, Matches, ScanSlot, HeadFound, ring, Finish
<1> QED
  BY <1>1, <1>2, <1>3, <1>4, <1>5, <1>6, <1>7

(* Giving up after a full scan, and unlocking.                             *)
LEMMA FindNothingKeepsInv ==
    ASSUME IpcInv, NEW t \in Callers, FindNothing(t)
    PROVE  IpcInv'
<1> USE DEF IpcInv
<1>1. IpcTypeOK'
  BY IpcAssumption DEF IpcTypeOK, FindNothing, ring, Critical, Answers, Finish
<1>2. MutualExclusion'
  BY DEF IpcTypeOK, MutualExclusion, FindNothing, Critical, Finish
<1>3. (\A u \in Callers : CallFits(u))'
  BY DEF IpcTypeOK, CallFits, FindNothing, ring, Answers, Finish
<1>4. CountMatchesUsed' /\ EmptyIsReset'
  BY DEF CountMatchesUsed, EmptyIsReset, UsedSlots, FindNothing, ring
<1>5. HeadOrAdvancing' /\ AdvanceEnds'
  BY DEF IpcTypeOK, HeadOrAdvancing, AdvanceEnds, FindNothing, ring, Finish
<1>6. StoredAreMessages'
  BY DEF IpcTypeOK, StoredAreMessages, BeingFilled, Contents, FindNothing, ring, Finish
<1>7. Scanned'
  BY DEF IpcTypeOK, Scanned, Matches, ScanSlot, FindNothing, ring, Finish
<1> QED
  BY <1>1, <1>2, <1>3, <1>4, <1>5, <1>6, <1>7

(* A used slot shows in queue_count.                                       *)
LEMMA UsedSlotIsCounted ==
    ASSUME CountMatchesUsed, NEW s \in Slots, queue_used[s]
    PROVE  queue_count \in Nat /\ queue_count > 0
<1>1. s \in UsedSlots
  BY DEF UsedSlots
<1>2. Cardinality(UsedSlots) \in Nat /\ Cardinality(UsedSlots) # 0
  BY <1>1, UsedSlotsFinite, FS_CardinalityType, FS_EmptySet
<1> QED
  BY <1>2 DEF CountMatchesUsed

(* Moving the tail past a used slot: the queue is not empty then.          *)
LEMMA ProbeTailKeepsInv ==
    ASSUME IpcInv, NEW t \in Callers, ProbeTail(t)
    PROVE  IpcInv'
<1> USE DEF IpcInv
<1>1. IpcTypeOK'
  BY FollowingInRing DEF IpcTypeOK, ProbeTail
<1>2. MutualExclusion' /\ (\A u \in Callers : CallFits(u))'
  BY DEF MutualExclusion, CallFits, ProbeTail
<1>3. CountMatchesUsed' /\ HeadOrAdvancing' /\ AdvanceEnds'
  BY DEF CountMatchesUsed, UsedSlots, HeadOrAdvancing, AdvanceEnds, ProbeTail
<1>4. EmptyIsReset'
  BY UsedSlotIsCounted DEF IpcTypeOK, EmptyIsReset, ProbeTail
<1>5. StoredAreMessages' /\ Scanned'
  BY DEF StoredAreMessages, BeingFilled, Contents, Scanned, Matches, ScanSlot, ProbeTail
<1> QED
  BY <1>1, <1>2, <1>3, <1>4, <1>5

(* Reserving the slot at the tail: one used slot more.                     *)
LEMMA ReserveKeepsInv ==
    ASSUME IpcInv, NEW t \in Callers, Reserve(t)
    PROVE  IpcInv'
<1> USE DEF IpcInv
<1>1. IpcTypeOK'
  BY IpcAssumption, FollowingInRing, SMTT(30) DEF IpcTypeOK, Reserve, Slots, Critical
<1>2. MutualExclusion'
  BY DEF IpcTypeOK, MutualExclusion, Reserve, Critical
<1>3. (\A u \in Callers : CallFits(u))'
  BY DEF IpcTypeOK, CallFits, Reserve
<1>4. CountMatchesUsed'
  <2>1. UsedSlots' = UsedSlots \union {queue_tail}
    BY DEF IpcTypeOK, Reserve, UsedSlots
  <2>2. queue_tail \notin UsedSlots
    BY DEF Reserve, UsedSlots
  <2> QED
    BY <2>1, <2>2, UsedSlotsFinite, FS_AddElement DEF CountMatchesUsed, Reserve
<1>5. EmptyIsReset'
  BY DEF IpcTypeOK, EmptyIsReset, Reserve
<1>6. HeadOrAdvancing'
  BY DEF IpcTypeOK, EmptyIsReset, HeadOrAdvancing, Reserve
<1>7. AdvanceEnds'
  BY DEF IpcTypeOK, AdvanceEnds, Reserve
<1>8. StoredAreMessages'
  BY DEF IpcTypeOK, StoredAreMessages, BeingFilled, Contents, Reserve
<1>9. Scanned'
  BY DEF IpcTypeOK, MutualExclusion, Critical, Scanned, Reserve
<1> QED
  BY <1>1, <1>2, <1>3, <1>4, <1>5, <1>6, <1>7, <1>8, <1>9

(* ipc_send copies the message into its slot unchanged, whatever the slot  *)
(* held before.                                                            *)
LEMMA FillStoresMessage ==
    ASSUME IpcInv, NEW t \in Callers, Fill(t), NEW s, s = ipc_index[t]
    PROVE  /\ s \in Slots
           /\ call[t].message \in Messages
           /\ queue' \in [Slots -> SlotMessages]
           /\ Contents(s)' = call[t].message
           /\ \A r \in Slots : r # s => queue'[r] = queue[r]
<1> DEFINE m == call[t].message
<1>1. s \in Slots /\ call[t] \in Sends /\ m.length <= MessageSize
  BY DEF IpcInv, CallFits, Fill
<1>2. m \in Messages
  BY <1>1, SendCarriesMessage
<1>3. /\ m.length \in Nat /\ m.sender \in Senders /\ m.receiver \in Pids
      /\ m.data \in [1 .. m.length -> Bytes]
      /\ m = [sender |-> m.sender, receiver |-> m.receiver,
              length |-> m.length, data |-> m.data]
  BY <1>2, MessageParts
<1>4. queue[s].data \in [1 .. MessageSize -> Bytes \union {0}]
  BY <1>1 DEF IpcInv, IpcTypeOK, SlotMessages
<1> DEFINE stored == [i \in 1 .. MessageSize |-> IF i <= m.length THEN m.data[i]
                                                 ELSE queue[s].data[i]]
<1>5. stored \in [1 .. MessageSize -> Bytes \union {0}]
  BY <1>1, <1>3, <1>4, IpcAssumption
<1>6. [i \in 1 .. m.length |-> stored[i]] = m.data
  <2>1. \A i \in 1 .. m.length : stored[i] = m.data[i]
    BY <1>1, <1>3, IpcAssumption
  <2> HIDE DEF stored, m
  <2> QED
    BY <1>3, <2>1
<1> DEFINE cell == [sender |-> m.sender, receiver |-> m.receiver,
                    length |-> m.length, data |-> stored]
<1>7. queue' = [queue EXCEPT ![s] = cell]
  BY DEF Fill
<1>8. cell \in SlotMessages
  BY <1>1, <1>3, <1>5, IpcAssumption DEF SlotMessages
<1>9. queue \in [Slots -> SlotMessages]
  BY DEF IpcInv, IpcTypeOK
<1>10. Contents(s)' = [cell EXCEPT !.data = [i \in 1 .. cell.length |-> cell.data[i]]]
  <2>1. queue'[s] = cell
    BY <1>1, <1>7, <1>9
  <2> HIDE DEF cell
  <2> QED
    BY <2>1 DEF Contents
<1>11. Contents(s)' = m
  <2>1. cell.length = m.length /\ cell.data = stored
    OBVIOUS
  <2>2. [i \in 1 .. cell.length |-> cell.data[i]] = m.data
    <3> HIDE DEF cell, stored, m
    <3> QED
      BY <1>6, <2>1
  <2>3. [cell EXCEPT !.data = m.data] =
           [sender |-> m.sender, receiver |-> m.receiver,
            length |-> m.length, data |-> m.data]
    <3> HIDE DEF stored, m
    <3> QED
      OBVIOUS
  <2> QED
    <3> HIDE DEF cell, stored, m
    <3> QED
      BY <1>3, <1>10, <2>2, <2>3
<1> HIDE DEF cell
<1> QED
  BY <1>1, <1>2, <1>7, <1>8, <1>9, <1>11


(* Filling the reserved slot, and unlocking.                               *)
LEMMA FillKeepsInv ==
    ASSUME IpcInv, NEW t \in Callers, Fill(t)
    PROVE  IpcInv'
<1> USE DEF IpcInv
<1>1. IpcTypeOK'
  <2>1. queue' \in [Slots -> SlotMessages]
    BY FillStoresMessage
  <2> QED
    BY <2>1, IpcAssumption DEF IpcTypeOK, Fill, Finish, Critical, Answers
<1>2. MutualExclusion'
  BY DEF IpcTypeOK, MutualExclusion, Fill, Finish, Critical
<1>3. (\A u \in Callers : CallFits(u))'
  BY DEF IpcTypeOK, CallFits, Fill, Finish, Answers
<1>4. CountMatchesUsed' /\ EmptyIsReset'
  BY DEF CountMatchesUsed, EmptyIsReset, UsedSlots, Fill
<1>5. HeadOrAdvancing' /\ AdvanceEnds'
  BY DEF IpcTypeOK, HeadOrAdvancing, AdvanceEnds, Fill, Finish
<1>6. StoredAreMessages'
  <2> SUFFICES ASSUME NEW r \in Slots, queue_used[r]
               PROVE  Contents(r)' \in Messages
    BY DEF StoredAreMessages, Fill
  <2>1. CASE r = ipc_index[t]
    BY <2>1, FillStoresMessage
  <2>2. CASE r # ipc_index[t]
    <3>1. ~BeingFilled(r)
      BY <2>2 DEF BeingFilled, MutualExclusion, Critical, Fill
    <3>2. Contents(r) \in Messages
      BY <3>1 DEF StoredAreMessages
    <3>3. queue'[r] = queue[r]
      BY <2>2, FillStoresMessage
    <3> QED
      BY <3>2, <3>3 DEF Contents
  <2> QED
    BY <2>1, <2>2
<1>7. Scanned'
  BY DEF IpcTypeOK, MutualExclusion, Critical, Scanned, Fill, Finish
<1> QED
  BY <1>1, <1>2, <1>3, <1>4, <1>5, <1>6, <1>7

(* While ipc_receive holds the lock no slot is half written, so what it    *)
(* finds is a message; taking it leaves one used slot less.                *)
LEMMA TakenSlot ==
    ASSUME IpcInv, NEW t \in Callers, pc[t] = "scan", ipc_index[t] < Capacity,
           NEW s, s = ScanSlot(ipc_index[t]), Matches(s, t)
    PROVE  /\ s \in Slots
           /\ \A r \in Slots : ~BeingFilled(r)
           /\ Contents(s) \in Messages
           /\ Cardinality(UsedSlots \ {s}) = queue_count - 1
           /\ queue_count \in Nat /\ queue_count > 0
<1> USE DEF IpcInv
<1>1. s \in Slots
  BY ScanSlotInRing, IpcAssumption DEF IpcTypeOK
<1>2. \A r \in Slots : ~BeingFilled(r)
  BY DEF BeingFilled, MutualExclusion, Critical
<1>3. Contents(s) \in Messages
  BY <1>1, <1>2 DEF StoredAreMessages, Matches
<1>4. Cardinality(UsedSlots \ {s}) = queue_count - 1
  BY <1>1, UsedSlotsFinite, FS_RemoveElement DEF Matches, UsedSlots, CountMatchesUsed
<1> QED
  BY <1>1, <1>2, <1>3, <1>4, UsedSlotIsCounted DEF Matches

(* Taking the only message resets the ring, and unlocks.                   *)
LEMMA TakeLastKeepsInv ==
    ASSUME IpcInv, NEW t \in Callers, TakeLast(t)
    PROVE  IpcInv'
<1> USE DEF IpcInv
<1> DEFINE s == ScanSlot(ipc_index[t])
<1>0. /\ s \in Slots
      /\ \A r \in Slots : ~BeingFilled(r)
      /\ Contents(s) \in Messages
      /\ Cardinality(UsedSlots \ {s}) = 0
  BY TakenSlot DEF TakeLast
<1> HIDE DEF s
<1>a. /\ pc[t] = "scan" /\ queue_used' = [queue_used EXCEPT ![s] = FALSE]
      /\ queue_count' = 0 /\ queue_head' = 0 /\ queue_tail' = 0
      /\ ipc_lock_value' = 0
      /\ pc' = [pc EXCEPT ![t] = "done"]
      /\ ipc_index' = [ipc_index EXCEPT ![t] = 0]
      /\ call' = [call EXCEPT ![t] = Received(Contents(s))]
      /\ queue' = queue
  BY DEF TakeLast, Finish, s
<1>1. IpcTypeOK'
  BY <1>0, <1>a, IpcAssumption DEF IpcTypeOK, Slots, Critical, Answers
<1>2. MutualExclusion'
  BY <1>a DEF IpcTypeOK, MutualExclusion, Critical
<1>3. (\A u \in Callers : CallFits(u))'
  BY <1>0, <1>a DEF IpcTypeOK, MutualExclusion, Critical, CallFits, Answers
<1>4. CountMatchesUsed'
  <2>1. UsedSlots' = UsedSlots \ {s}
    BY <1>0, <1>a DEF IpcTypeOK, UsedSlots
  <2> QED
    BY <1>0, <1>a, <2>1 DEF CountMatchesUsed
<1>5. EmptyIsReset' /\ HeadOrAdvancing'
  BY <1>a DEF EmptyIsReset, HeadOrAdvancing
<1>6. AdvanceEnds'
  BY <1>a DEF IpcTypeOK, MutualExclusion, Critical, AdvanceEnds
<1>7. StoredAreMessages'
  BY <1>0, <1>a DEF IpcTypeOK, StoredAreMessages, Contents
<1>8. Scanned'
  BY <1>a DEF IpcTypeOK, MutualExclusion, Critical, Scanned
<1> QED
  BY <1>1, <1>2, <1>3, <1>4, <1>5, <1>6, <1>7, <1>8

(* Taking one of several messages leaves used slots for the head to find.  *)
LEMMA TakeKeepsInv ==
    ASSUME IpcInv, NEW t \in Callers, Take(t)
    PROVE  IpcInv'
<1> USE DEF IpcInv
<1> DEFINE s == ScanSlot(ipc_index[t])
<1>0. /\ s \in Slots
      /\ \A r \in Slots : ~BeingFilled(r)
      /\ Contents(s) \in Messages
      /\ Cardinality(UsedSlots \ {s}) = queue_count - 1
      /\ queue_count - 1 \in Nat /\ queue_count - 1 > 0
  <2>1. /\ pc[t] = "scan" /\ ipc_index[t] < Capacity /\ Matches(s, t)
        /\ queue_count # 1
    BY DEF Take
  <2> HIDE DEF s
  <2>2. /\ s \in Slots /\ \A r \in Slots : ~BeingFilled(r)
        /\ Contents(s) \in Messages
        /\ Cardinality(UsedSlots \ {s}) = queue_count - 1
        /\ queue_count \in Nat /\ queue_count > 0
    BY <2>1, TakenSlot DEF s
  <2> QED
    BY <2>1, <2>2
<1> HIDE DEF s
<1>a. /\ pc[t] = "scan" /\ queue_used' = [queue_used EXCEPT ![s] = FALSE]
      /\ queue_count' = queue_count - 1
      /\ pc' = [pc EXCEPT ![t] = "advance"]
      /\ call' = [call EXCEPT ![t] = Received(Contents(s))]
      /\ UNCHANGED <<queue, queue_head, queue_tail, ipc_lock_value, ipc_index>>
  BY DEF Take, s
<1>1. IpcTypeOK'
  BY <1>0, <1>a, IpcAssumption DEF IpcTypeOK, Critical, Answers
<1>2. MutualExclusion'
  BY <1>a DEF IpcTypeOK, MutualExclusion, Critical
<1>3. (\A u \in Callers : CallFits(u))'
  BY <1>0, <1>a DEF IpcTypeOK, MutualExclusion, Critical, CallFits, Answers
<1>4. CountMatchesUsed'
  <2>1. UsedSlots' = UsedSlots \ {s}
    BY <1>0, <1>a DEF IpcTypeOK, UsedSlots
  <2> QED
    BY <1>0, <1>a, <2>1 DEF CountMatchesUsed
<1>5. EmptyIsReset' /\ HeadOrAdvancing' /\ AdvanceEnds'
  BY <1>0, <1>a DEF IpcTypeOK, EmptyIsReset, HeadOrAdvancing, AdvanceEnds
<1>6. StoredAreMessages'
  BY <1>0, <1>a DEF IpcTypeOK, StoredAreMessages, Contents
<1>7. Scanned'
  BY <1>a DEF IpcTypeOK, MutualExclusion, Critical, Scanned
<1> QED
  BY <1>1, <1>2, <1>3, <1>4, <1>5, <1>6, <1>7

(* Moving the head past a hole.                                            *)
LEMMA AdvanceHeadKeepsInv ==
    ASSUME IpcInv, NEW t \in Callers, AdvanceHead(t)
    PROVE  IpcInv'
<1> USE DEF IpcInv
<1>1. IpcTypeOK'
  BY FollowingInRing DEF IpcTypeOK, AdvanceHead
<1>2. MutualExclusion' /\ (\A u \in Callers : CallFits(u))'
  BY DEF MutualExclusion, CallFits, AdvanceHead
<1>3. CountMatchesUsed' /\ HeadOrAdvancing' /\ AdvanceEnds'
  BY DEF CountMatchesUsed, UsedSlots, HeadOrAdvancing, AdvanceEnds, AdvanceHead
<1>4. EmptyIsReset'
  BY DEF IpcTypeOK, AdvanceEnds, EmptyIsReset, AdvanceHead
<1>5. StoredAreMessages'
  BY DEF StoredAreMessages, BeingFilled, Contents, AdvanceHead
<1>6. Scanned'
  BY DEF MutualExclusion, Critical, Scanned, AdvanceHead
<1> QED
  BY <1>1, <1>2, <1>3, <1>4, <1>5, <1>6

-----------------------------------------------------------------------------
(* The invariant.                                                          *)

(* The queue ipc_initialize leaves satisfies the invariant.                *)
LEMMA InitEstablishesInv == IpcInit => IpcInv
<1> SUFFICES ASSUME IpcInit PROVE IpcInv
  OBVIOUS
<1>1. IpcTypeOK
  BY IpcAssumption DEF IpcInit, IpcTypeOK, Slots, SlotMessages
<1>2. MutualExclusion /\ (\A t \in Callers : CallFits(t))
  BY DEF IpcInit, MutualExclusion, Critical, CallFits
<1>3. CountMatchesUsed
  <2>1. UsedSlots = {}
    BY DEF IpcInit, UsedSlots
  <2> QED
    BY <2>1, FS_EmptySet DEF IpcInit, CountMatchesUsed
<1>4. EmptyIsReset /\ HeadOrAdvancing /\ AdvanceEnds /\ StoredAreMessages /\ Scanned
  BY DEF IpcInit, EmptyIsReset, HeadOrAdvancing, AdvanceEnds, StoredAreMessages, Scanned
<1> QED
  BY <1>1, <1>2, <1>3, <1>4 DEF IpcInv

(* Every step of ipc_send and ipc_receive keeps it.                        *)
LEMMA NextKeepsInv == IpcInv /\ [IpcNext]_ipcVars => IpcInv'
<1> SUFFICES ASSUME IpcInv, [IpcNext]_ipcVars PROVE IpcInv'
  OBVIOUS
<1>1. ASSUME NEW t \in Callers, Request(t) \/ Running(t)
      PROVE  IpcInv'
  BY <1>1, RequestKeepsInv, RefuseLongKeepsInv, LockSendKeepsInv,
     LockReceiveKeepsInv, ReturnKeepsInv, RefuseFullKeepsInv, ProbeTailKeepsInv,
     ReserveKeepsInv, FillKeepsInv, SkipKeepsInv, TakeLastKeepsInv, TakeKeepsInv,
     AdvanceHeadKeepsInv, HeadFoundKeepsInv, FindNothingKeepsInv DEF Running
<1>2. CASE UNCHANGED ipcVars
  BY <1>2, SMTT(30) DEF ipcVars, ring, IpcInv, IpcTypeOK, MutualExclusion, CallFits,
     CountMatchesUsed, UsedSlots, EmptyIsReset, HeadOrAdvancing, AdvanceEnds,
     StoredAreMessages, BeingFilled, Contents, Scanned, Matches, ScanSlot
<1> QED
  BY <1>1, <1>2 DEF IpcNext

(* The invariant holds in every reachable state.                           *)
THEOREM InvHolds == IpcSpec => []IpcInv
BY InitEstablishesInv, NextKeepsInv, PTL DEF IpcSpec

(* Type correctness of the ring and of the callers, for every capacity and *)
(* every number of callers: no index of ipc_send or ipc_receive ever       *)
(* leaves the ring, and every answer is a message as it was sent.          *)
THEOREM TypeCorrect == IpcSpec => []IpcTypeOK
<1>1. IpcInv => IpcTypeOK
  BY DEF IpcInv
<1> QED
  BY <1>1, InvHolds, PTL

(* queue_count always is the number of used slots.                         *)
THEOREM CountCorrect == IpcSpec => []CountMatchesUsed
<1>1. IpcInv => CountMatchesUsed
  BY DEF IpcInv
<1> QED
  BY <1>1, InvHolds, PTL

(* The head never rests on a hole while messages are queued.               *)
THEOREM HeadCorrect == IpcSpec => []HeadAtMessage
<1>1. IpcInv => HeadAtMessage
  BY DEF IpcInv, HeadOrAdvancing, MutualExclusion, Critical, HeadAtMessage
<1> QED
  BY <1>1, InvHolds, PTL

-----------------------------------------------------------------------------
(* The ring implements the atomic mailbox.                                 *)

(* The mailbox speaks of the same calls.                                   *)
LEMMA SameInterface ==
    /\ Mailbox!Sends = Sends
    /\ Mailbox!Receives = Receives
    /\ Mailbox!Answers = Answers
    /\ Mailbox!NoCall = NoCall
    /\ Mailbox!Sent = Sent
    /\ Mailbox!Refused = Refused
    /\ Mailbox!Nothing = Nothing
    /\ \A m : Mailbox!Received(m) = Received(m)
    /\ Mailbox!Cells = Slots
    /\ Mailbox!NoMessage = [length |-> 0]
BY DEF Mailbox!Sends, Sends, Mailbox!Receives, Receives, Mailbox!Answers, Answers,
       Mailbox!NoCall, NoCall, Mailbox!Sent, Sent, Mailbox!Refused, Refused,
       Mailbox!Nothing, Nothing, Mailbox!Received, Received, Mailbox!Cells, Slots,
       Mailbox!NoMessage, Mailbox!SendCall, SendCall, Mailbox!ReceiveCall,
       ReceiveCall, Mailbox!Messages, Messages, Mailbox!MessagesOf, MessagesOf

(* A message is never mistaken for an empty cell.                          *)
LEMMA MessageIsNotEmpty ==
    ASSUME NEW m \in Messages
    PROVE  m # [length |-> 0]
<1>1. m = [sender |-> m.sender, receiver |-> m.receiver,
           length |-> m.length, data |-> m.data]
  BY MessageParts
<1>2. "sender" \in DOMAIN m
  BY <1>1
<1>3. "sender" \notin DOMAIN [length |-> 0]
  OBVIOUS
<1> QED
  BY <1>2, <1>3

(* A step that touches neither the slots nor a caller that is filling one  *)
(* leaves the mailbox as it is.                                            *)
LEMMA QuietStep ==
    ASSUME queue' = queue, queue_used' = queue_used,
           \A u \in Callers : pc'[u] = "fill" <=> pc[u] = "fill",
           \A u \in Callers : pc[u] = "fill" => ipc_index'[u] = ipc_index[u]
    PROVE  StoredMessages' = StoredMessages
BY DEF StoredMessages, BeingFilled, Contents

(* Entering a call is the mailbox's request.                               *)
LEMMA RequestImplements ==
    ASSUME IpcInv, NEW t \in Callers, Request(t)
    PROVE  Mailbox!Request(t)
<1>1. StoredMessages' = StoredMessages
  BY QuietStep DEF Request, ring, IpcInv, IpcTypeOK
<1> QED
  BY <1>1, SameInterface DEF Request, Mailbox!Request, IpcInv, CallFits

(* A message that is too long is refused there too.                        *)
LEMMA RefuseLongImplements ==
    ASSUME IpcInv, NEW t \in Callers, RefuseLong(t)
    PROVE  Mailbox!Refuse(t)
<1>1. StoredMessages' = StoredMessages
  BY QuietStep DEF RefuseLong, ring, IpcInv, IpcTypeOK
<1> QED
  BY <1>1, SameInterface DEF RefuseLong, Mailbox!Refuse

(* The return is the mailbox's return.                                     *)
LEMMA ReturnImplements ==
    ASSUME IpcInv, NEW t \in Callers, ReturnFromCall(t)
    PROVE  Mailbox!Return(t)
<1>1. StoredMessages' = StoredMessages
  BY QuietStep DEF ReturnFromCall, ring, IpcInv, IpcTypeOK
<1> QED
  BY <1>1, SameInterface DEF ReturnFromCall, Mailbox!Return, IpcInv, CallFits

(* A send is refused for want of room only when every cell has a message.  *)
LEMMA RefuseFullImplements ==
    ASSUME IpcInv, NEW t \in Callers, RefuseFull(t)
    PROVE  Mailbox!Refuse(t)
<1> USE DEF IpcInv
<1>1. StoredMessages' = StoredMessages
  BY QuietStep DEF RefuseFull, Finish, ring, IpcTypeOK
<1>2. UsedSlots = Slots
  <2>1. Cardinality(UsedSlots) = Capacity
    BY IpcAssumption DEF IpcTypeOK, RefuseFull, CountMatchesUsed
  <2>2. UsedSlots \in SUBSET Slots
    BY DEF UsedSlots
  <2> QED
    BY <2>1, <2>2, UsedSlotsFinite, FS_Subset
<1>3. ASSUME NEW s \in Slots
      PROVE  StoredMessages[s] # [length |-> 0]
  <2>1. queue_used[s]
    BY <1>2 DEF UsedSlots
  <2>2. ~BeingFilled(s)
    BY DEF BeingFilled, MutualExclusion, Critical, RefuseFull
  <2>3. StoredMessages[s] = Contents(s)
    BY <2>1, <2>2 DEF StoredMessages
  <2> QED
    BY <2>1, <2>2, <2>3, MessageIsNotEmpty DEF StoredAreMessages
<1> QED
  BY <1>1, <1>3, SameInterface
     DEF RefuseFull, Finish, CallFits, Mailbox!Refuse, Mailbox!Free

(* Taking the lock, moving the tail or the head, looking at a slot that    *)
(* does not match and unlocking are invisible to callers.                  *)
LEMMA SilentStep ==
    ASSUME IpcInv, NEW t \in Callers,
           \/ LockSend(t) \/ LockReceive(t) \/ ProbeTail(t) \/ Skip(t)
           \/ AdvanceHead(t) \/ HeadFound(t)
    PROVE  UNCHANGED <<StoredMessages, call>>
<1> USE DEF IpcInv, IpcTypeOK
<1>1. CASE LockSend(t)
  BY <1>1, QuietStep DEF LockSend, ring
<1>2. CASE LockReceive(t)
  BY <1>2, QuietStep DEF LockReceive, ring
<1>3. CASE ProbeTail(t)
  BY <1>3, QuietStep DEF ProbeTail
<1>4. CASE Skip(t)
  BY <1>4, QuietStep DEF Skip, ring
<1>5. CASE AdvanceHead(t)
  BY <1>5, QuietStep DEF AdvanceHead
<1>6. CASE HeadFound(t)
  BY <1>6, QuietStep DEF HeadFound, Finish, ring
<1> QED
  BY <1>1, <1>2, <1>3, <1>4, <1>5, <1>6

(* So is reserving a slot: nobody sees it before it is filled.             *)
LEMMA ReserveIsSilent ==
    ASSUME IpcInv, NEW t \in Callers, Reserve(t)
    PROVE  UNCHANGED <<StoredMessages, call>>
<1> USE DEF IpcInv, IpcTypeOK
<1>1. ASSUME NEW s \in Slots
      PROVE  StoredMessages'[s] = StoredMessages[s]
  <2>1. CASE s = queue_tail
    <3>1. StoredMessages[s] = [length |-> 0]
      BY <2>1 DEF Reserve, StoredMessages
    <3>2. BeingFilled(s)'
      BY <2>1 DEF Reserve, BeingFilled
    <3> QED
      BY <3>1, <3>2 DEF StoredMessages
  <2>2. CASE s # queue_tail
    <3>1. queue_used'[s] = queue_used[s] /\ queue'[s] = queue[s]
      BY <2>2 DEF Reserve
    <3>2. BeingFilled(s)' <=> BeingFilled(s)
      BY <2>2 DEF Reserve, BeingFilled
    <3> QED
      BY <3>1, <3>2 DEF StoredMessages, Contents
  <2> QED
    BY <2>1, <2>2
<1>2. StoredMessages' = StoredMessages
  BY <1>1 DEF StoredMessages
<1> QED
  BY <1>2 DEF Reserve

(* Filling the reserved slot stores the message, in one visible step.      *)
LEMMA FillImplements ==
    ASSUME IpcInv, NEW t \in Callers, Fill(t)
    PROVE  Mailbox!Store(t)
<1> USE DEF IpcInv, IpcTypeOK
<1>1. PICK s \in Slots : s = ipc_index[t]
  BY FillStoresMessage
<1>2. /\ call[t] \in Sends
      /\ call[t].message.length <= MessageSize
      /\ queue_used[s]
  BY <1>1 DEF CallFits, Fill
<1>3. StoredMessages[s] = [length |-> 0]
  BY <1>1 DEF StoredMessages, BeingFilled, Fill
<1>4. \A r \in Slots : ~BeingFilled(r)'
  BY DEF BeingFilled, MutualExclusion, Critical, Fill, Finish
<1>5. StoredMessages'[s] = call[t].message
  <2>1. Contents(s)' = call[t].message
    BY <1>1, FillStoresMessage
  <2>2. queue_used'[s]
    BY <1>2 DEF Fill
  <2> QED
    BY <1>4, <2>1, <2>2 DEF StoredMessages
<1>6. ASSUME NEW r \in Slots, r # s
      PROVE  StoredMessages'[r] = StoredMessages[r]
  <2>1. queue'[r] = queue[r] /\ queue_used'[r] = queue_used[r]
    BY <1>1, <1>6, FillStoresMessage DEF Fill
  <2>2. ~BeingFilled(r)
    BY <1>1, <1>6 DEF BeingFilled, MutualExclusion, Critical, Fill
  <2> QED
    BY <1>4, <2>1, <2>2 DEF StoredMessages, Contents
<1>7. StoredMessages' = [StoredMessages EXCEPT ![s] = call[t].message]
  BY <1>5, <1>6 DEF StoredMessages
<1>8. call' = [call EXCEPT ![t] = Sent]
  BY DEF Fill, Finish
<1> QED
  BY <1>2, <1>3, <1>7, <1>8, SameInterface DEF Mailbox!Store, Mailbox!Free

(* A receive takes one message for its caller out of the mailbox.          *)
LEMMA TakingImplements ==
    ASSUME IpcInv, NEW t \in Callers, TakeLast(t) \/ Take(t)
    PROVE  Mailbox!Deliver(t)
<1> USE DEF IpcInv, IpcTypeOK
<1> DEFINE x == ScanSlot(ipc_index[t])
<1>1. /\ pc[t] = "scan" /\ ipc_index[t] < Capacity /\ Matches(x, t)
      /\ queue' = queue
      /\ queue_used' = [queue_used EXCEPT ![x] = FALSE]
      /\ call' = [call EXCEPT ![t] = Received(Contents(x))]
      /\ pc'[t] # "fill" /\ \A u \in Callers : u # t => pc'[u] = pc[u]
  BY DEF TakeLast, Take, Finish
<1> HIDE DEF x
<1>2. PICK s : s = x
  OBVIOUS
<1>3. /\ s \in Slots
      /\ \A r \in Slots : ~BeingFilled(r)
      /\ Contents(s) \in Messages
  BY <1>1, <1>2, TakenSlot DEF x
<1>4. \A r \in Slots : ~BeingFilled(r)'
  BY <1>1 DEF BeingFilled, MutualExclusion, Critical
<1>5. StoredMessages[s] = Contents(s)
  BY <1>1, <1>2, <1>3 DEF StoredMessages, Matches
<1>6. StoredMessages[s].receiver = call[t].pid
  <2>1. queue[s] \in SlotMessages
    BY <1>3
  <2>2. Contents(s).receiver = queue[s].receiver
    BY <2>1 DEF Contents, SlotMessages
  <2> QED
    BY <1>1, <1>2, <1>5, <2>2 DEF Matches
<1>7. StoredMessages' = [StoredMessages EXCEPT ![s] = [length |-> 0]]
  <2>1. StoredMessages'[s] = [length |-> 0]
    BY <1>1, <1>2, <1>3 DEF StoredMessages
  <2>2. \A r \in Slots : r # s => StoredMessages'[r] = StoredMessages[r]
    BY <1>1, <1>2, <1>3, <1>4 DEF StoredMessages, Contents
  <2> QED
    BY <2>1, <2>2 DEF StoredMessages
<1>8. StoredMessages[s] # [length |-> 0]
  BY <1>3, <1>5, MessageIsNotEmpty
<1>9. call[t] \in Receives
  BY <1>1 DEF CallFits
<1>10. call' = [call EXCEPT ![t] = Received(StoredMessages[s])]
  BY <1>1, <1>2, <1>5
<1> QED
  BY <1>3, <1>6, <1>7, <1>8, <1>9, <1>10, SameInterface
     DEF Mailbox!Deliver, Mailbox!Free

(* A receive finds nothing only when no message is there for its caller:   *)
(* the scan has looked at the whole ring while the lock was held.          *)
LEMMA FindNothingImplements ==
    ASSUME IpcInv, NEW t \in Callers, FindNothing(t)
    PROVE  Mailbox!FindNothing(t)
<1> USE DEF IpcInv, IpcTypeOK
<1>1. StoredMessages' = StoredMessages
  BY QuietStep DEF FindNothing, Finish, ring
<1>2. ASSUME NEW s \in Slots
      PROVE  \/ StoredMessages[s] = [length |-> 0]
             \/ StoredMessages[s].receiver # call[t].pid
  <2>1. PICK i \in 0 .. Capacity - 1 : ScanSlot(i) = s
    BY ScanCoversRing
  <2>2. ~Matches(s, t)
    BY <2>1, IpcAssumption DEF Scanned, FindNothing
  <2>3. queue[s] \in SlotMessages
    OBVIOUS
  <2>4. Contents(s).receiver = queue[s].receiver
    BY <2>3 DEF Contents, SlotMessages
  <2> QED
    BY <2>2, <2>4 DEF StoredMessages, Matches
<1>3. call[t] \in Receives /\ call' = [call EXCEPT ![t] = Nothing]
  BY DEF CallFits, FindNothing, Finish
<1> QED
  BY <1>1, <1>2, <1>3, SameInterface DEF Mailbox!FindNothing, Mailbox!Free

(* The empty ring is the empty mailbox.                                    *)
LEMMA InitImplements == IpcInit => Mailbox!Init
BY SameInterface DEF IpcInit, Mailbox!Init, StoredMessages

(* Every step of the ring is a step of the mailbox or invisible in it.     *)
LEMMA NextImplements == IpcInv /\ [IpcNext]_ipcVars => [Mailbox!Next]_(Mailbox!vars)
<1> SUFFICES ASSUME IpcInv, [IpcNext]_ipcVars
             PROVE  Mailbox!Next \/ UNCHANGED <<StoredMessages, call>>
  BY DEF Mailbox!vars
<1>1. ASSUME NEW t \in Callers, Request(t) \/ Running(t)
      PROVE  Mailbox!Next \/ UNCHANGED <<StoredMessages, call>>
  BY <1>1, RequestImplements, RefuseLongImplements, ReturnImplements,
     RefuseFullImplements, SilentStep, ReserveIsSilent, FillImplements,
     TakingImplements, FindNothingImplements DEF Running, Mailbox!Next
<1>2. CASE UNCHANGED ipcVars
  BY <1>2 DEF ipcVars, ring, StoredMessages, BeingFilled, Contents
<1> QED
  BY <1>1, <1>2 DEF IpcNext

(* The message queue of ipc.c implements the atomic mailbox: for every     *)
(* capacity, number of callers and payload, no message is lost, duplicated,*)
(* misdelivered or seen half written, and no call fails without reason.    *)
THEOREM RingImplementsMailbox == IpcSpec => ImplementsMailbox
BY InitImplements, NextImplements, InvHolds, PTL
   DEF IpcSpec, ImplementsMailbox, Mailbox!Spec

-----------------------------------------------------------------------------
(* Delivery follows the scan order.                                        *)

(* The two halves of what ScanOrderKept says of one step.                  *)
OthersInOrder ==
    \A r, s \in UsedSlots \intersect UsedSlots' :
        Distance(r) < Distance(s) => Distance(r)' < Distance(s)'

LeavesInOrder ==
    \A s \in UsedSlots \ UsedSlots' : \A r \in UsedSlots :
        Distance(r) < Distance(s) => queue[r].receiver # queue[s].receiver

(* The distance of a slot from the head, without the modulus.              *)
LEMMA DistanceIs ==
    ASSUME queue_head \in Slots, NEW s \in Slots
    PROVE  /\ Distance(s) = IF s >= queue_head THEN s - queue_head
                                               ELSE s - queue_head + Capacity
           /\ Distance(s) \in 0 .. Capacity - 1
<1>1. CASE s >= queue_head
  <2>1. s - queue_head \in 0 .. Capacity - 1
    BY <1>1, IpcAssumption DEF Slots
  <2>2. (s - queue_head + Capacity) % Capacity = s - queue_head
    BY <2>1, IpcAssumption
  <2> QED
    BY <1>1, <2>1, <2>2 DEF Distance
<1>2. CASE s < queue_head
  <2>1. s - queue_head + Capacity \in 0 .. Capacity - 1
    BY <1>2, IpcAssumption DEF Slots
  <2>2. (s - queue_head + Capacity) % Capacity = s - queue_head + Capacity
    BY <2>1, IpcAssumption
  <2>3. ~(s >= queue_head)
    BY <1>2 DEF Slots
  <2> QED
    BY <2>1, <2>2, <2>3 DEF Distance
<1> QED
  BY <1>1, <1>2 DEF Slots

(* The scan looks at a slot exactly when it has gone that distance.        *)
LEMMA ScanMeetsSlot ==
    ASSUME queue_head \in Slots, NEW s \in Slots
    PROVE  ScanSlot(Distance(s)) = s
<1>1. CASE s >= queue_head
  BY <1>1, DistanceIs, IpcAssumption DEF Slots, ScanSlot
<1>2. CASE s < queue_head
  <2>1. Distance(s) = s - queue_head + Capacity
    BY <1>2, DistanceIs DEF Slots
  <2>2. ScanSlot(Distance(s)) = (s + Capacity) % Capacity
    BY <2>1, IpcAssumption DEF Slots, ScanSlot
  <2> QED
    BY <2>2, IpcAssumption DEF Slots
<1> QED
  BY <1>1, <1>2 DEF Slots

(* And its place in the scan is the distance of the slot it looks at.      *)
LEMMA SlotMetAtDistance ==
    ASSUME queue_head \in Slots, NEW i \in 0 .. Capacity - 1
    PROVE  Distance(ScanSlot(i)) = i
<1>1. CASE queue_head + i < Capacity
  <2>1. ScanSlot(i) = queue_head + i
    BY <1>1, IpcAssumption DEF Slots, ScanSlot
  <2>2. ScanSlot(i) \in Slots /\ ScanSlot(i) >= queue_head
    BY <1>1, <2>1, IpcAssumption DEF Slots
  <2> QED
    BY <2>1, <2>2, DistanceIs, IpcAssumption DEF Slots
<1>2. CASE queue_head + i >= Capacity
  <2>1. queue_head + i - Capacity \in 0 .. Capacity - 1
    BY <1>2, IpcAssumption DEF Slots
  <2>2. ScanSlot(i) = queue_head + i - Capacity
    BY <2>1, IpcAssumption DEF Slots, ScanSlot
  <2>3. ScanSlot(i) \in Slots /\ ~(ScanSlot(i) >= queue_head)
    BY <2>1, <2>2, IpcAssumption DEF Slots
  <2> QED
    BY <2>2, <2>3, DistanceIs, IpcAssumption DEF Slots
<1> QED
  BY <1>1, <1>2, IpcAssumption DEF Slots

(* A step that neither moves the head nor frees a slot keeps the order.    *)
LEMMA StillStep ==
    ASSUME queue_head' = queue_head, UsedSlots \subseteq UsedSlots'
    PROVE  OthersInOrder /\ LeavesInOrder
BY DEF OthersInOrder, LeavesInOrder, Distance

(* The message a receive takes is the first one in the scan for its        *)
(* receiver.                                                               *)
LEMMA TakenInOrder ==
    ASSUME IpcInv, NEW t \in Callers, TakeLast(t) \/ Take(t)
    PROVE  LeavesInOrder
<1> USE DEF IpcInv, IpcTypeOK
<1>1. PICK x : x = ScanSlot(ipc_index[t])
  OBVIOUS
<1>2. /\ pc[t] = "scan" /\ ipc_index[t] \in 0 .. Capacity - 1
      /\ queue_used[x] /\ queue[x].receiver = call[t].pid
      /\ queue_used' = [queue_used EXCEPT ![x] = FALSE]
  BY <1>1, IpcAssumption DEF TakeLast, Take, Matches
<1>3. x \in Slots /\ Distance(x) = ipc_index[t]
  BY <1>1, <1>2, ScanSlotInRing, SlotMetAtDistance, IpcAssumption
<1>4. ASSUME NEW s \in UsedSlots \ UsedSlots'
      PROVE  s = x
  BY <1>2, <1>3 DEF UsedSlots
<1>5. ASSUME NEW r \in UsedSlots, Distance(r) < Distance(x)
      PROVE  queue[r].receiver # queue[x].receiver
  <2>1. r \in Slots /\ queue_used[r]
    BY DEF UsedSlots
  <2>2. PICK i \in 0 .. Capacity - 1 : i < ipc_index[t] /\ ScanSlot(i) = r
    BY <1>3, <1>5, <2>1, DistanceIs, ScanMeetsSlot
  <2>3. ~Matches(r, t)
    BY <1>2, <2>2 DEF Scanned
  <2> QED
    BY <1>2, <2>1, <2>3 DEF Matches
<1> QED
  BY <1>4, <1>5 DEF LeavesInOrder

(* Emptying the queue leaves no other message whose place could change.    *)
LEMMA TakeLastKeepsOrder ==
    ASSUME IpcInv, NEW t \in Callers, TakeLast(t)
    PROVE  OthersInOrder
<1>1. UsedSlots' = {}
  <2>1. \A s \in Slots : ~queue_used'[s]
    <3> SUFFICES ASSUME NEW s \in Slots, queue_used'[s] PROVE FALSE
      OBVIOUS
    <3>1. PICK x : x = ScanSlot(ipc_index[t])
      OBVIOUS
    <3>2. /\ x \in Slots /\ queue_used[x] /\ queue_count = 1
          /\ queue_used' = [queue_used EXCEPT ![x] = FALSE]
      BY <3>1, ScanSlotInRing, IpcAssumption DEF TakeLast, Matches, IpcInv, IpcTypeOK
    <3>3. s # x /\ queue_used[s]
      BY <3>2 DEF IpcInv, IpcTypeOK
    <3>4. x \in UsedSlots /\ s \in UsedSlots /\ Cardinality(UsedSlots) = 1
      BY <3>2, <3>3 DEF UsedSlots, IpcInv, CountMatchesUsed
    <3>5. PICK y : UsedSlots = {y}
      BY <3>4, UsedSlotsFinite, FS_Singleton
    <3> QED
      BY <3>3, <3>4, <3>5
  <2> QED
    BY <2>1 DEF UsedSlots
<1> QED
  BY <1>1 DEF OthersInOrder

(* Moving the head over a hole brings every message one place nearer.      *)
LEMMA AdvanceKeepsOrder ==
    ASSUME IpcInv, NEW t \in Callers, AdvanceHead(t)
    PROVE  OthersInOrder /\ LeavesInOrder
<1>1. /\ queue_head \in Slots /\ ~queue_used[queue_head]
      /\ queue_used' = queue_used
      /\ queue_head' = (queue_head + 1) % Capacity
  BY DEF AdvanceHead, Following, IpcInv, IpcTypeOK
<1>2. queue_head' \in Slots
  BY <1>1, IpcAssumption DEF Slots
<1>3. ASSUME NEW s \in UsedSlots
      PROVE  Distance(s)' = Distance(s) - 1 /\ Distance(s) \in Int
  <2>1. s \in Slots /\ s # queue_head
    BY <1>1 DEF UsedSlots
  <2>2. Distance(s) = IF s >= queue_head THEN s - queue_head
                                         ELSE s - queue_head + Capacity
    BY <1>1, <2>1, DistanceIs
  <2>3. Distance(s)' = (s - queue_head' + Capacity) % Capacity
    BY DEF Distance
  <2>4. CASE queue_head + 1 < Capacity
    <3>1. queue_head' = queue_head + 1
      BY <1>1, <2>4, IpcAssumption DEF Slots
    <3>2. CASE s > queue_head
      <4>1. s - queue_head' \in 0 .. Capacity - 1
        BY <3>1, <3>2, <2>1, <1>1, IpcAssumption DEF Slots
      <4>2. (s - queue_head' + Capacity) % Capacity = s - queue_head'
        BY <4>1, IpcAssumption
      <4> QED
        BY <2>1, <2>2, <2>3, <3>1, <3>2, <4>2, <1>1, IpcAssumption DEF Slots
    <3>3. CASE s < queue_head
      <4>1. s - queue_head' + Capacity \in 0 .. Capacity - 1
        BY <3>1, <3>3, <2>1, <1>1, IpcAssumption DEF Slots
      <4>2. (s - queue_head' + Capacity) % Capacity = s - queue_head' + Capacity
        BY <4>1, IpcAssumption
      <4> QED
        BY <2>1, <2>2, <2>3, <3>1, <3>3, <4>2, <1>1, IpcAssumption DEF Slots
    <3> QED
      BY <2>1, <3>2, <3>3, <1>1 DEF Slots
  <2>5. CASE queue_head + 1 = Capacity
    <3>1. queue_head' = 0
      BY <1>1, <2>5, IpcAssumption DEF Slots
    <3>2. s \in 0 .. Capacity - 1 /\ s < queue_head
      BY <2>1, <2>5, <1>1, IpcAssumption DEF Slots
    <3>3. (s + Capacity) % Capacity = s
      BY <3>2, IpcAssumption
    <3> QED
      BY <2>2, <2>3, <2>5, <3>1, <3>2, <3>3, <1>1, IpcAssumption DEF Slots
  <2> QED
    BY <2>4, <2>5, <1>1, IpcAssumption DEF Slots
<1>4. UsedSlots' = UsedSlots
  BY <1>1 DEF UsedSlots
<1>5. ASSUME NEW r \in UsedSlots, NEW s \in UsedSlots, Distance(r) < Distance(s)
      PROVE  Distance(r)' < Distance(s)'
  BY <1>3, <1>5
<1> QED
  BY <1>4, <1>5 DEF OthersInOrder, LeavesInOrder

(* Every step keeps the order of the scan and delivers in it.              *)
LEMMA NextKeepsOrder ==
    ASSUME IpcInv, IpcNext
    PROVE  OthersInOrder /\ LeavesInOrder
<1>1. PICK t \in Callers : Request(t) \/ Running(t)
  BY DEF IpcNext
<1>2. CASE TakeLast(t)
  BY <1>2, TakenInOrder, TakeLastKeepsOrder
<1>3. CASE Take(t)
  <2>1. OthersInOrder
    BY <1>3 DEF Take, OthersInOrder, Distance
  <2> QED
    BY <1>3, <2>1, TakenInOrder
<1>4. CASE AdvanceHead(t)
  BY <1>4, AdvanceKeepsOrder
<1>5. CASE Reserve(t)
  <2>1. queue_head' = queue_head /\ UsedSlots \subseteq UsedSlots'
    BY <1>5 DEF Reserve, UsedSlots, IpcInv, IpcTypeOK
  <2> QED
    BY <2>1, StillStep
<1>6. CASE queue_head' = queue_head /\ queue_used' = queue_used
  <2>1. UsedSlots' = UsedSlots
    BY <1>6 DEF UsedSlots
  <2> QED
    BY <1>6, <2>1, StillStep
<1> QED
  BY <1>1, <1>2, <1>3, <1>4, <1>5, <1>6
     DEF Running, Request, RefuseLong, LockSend, LockReceive, ReturnFromCall, RefuseFull,
         ProbeTail, Fill, Skip, HeadFound, FindNothing, ring

(* Delivery follows the scan order, for every capacity and any number of   *)
(* callers: ipc_receive takes the first message of the scan that is for    *)
(* its caller, and no step changes the order of the messages that stay.    *)
THEOREM ScanOrderCorrect == IpcSpec => ScanOrderKept
<1>1. IpcInv /\ [IpcNext]_ipcVars => [OthersInOrder /\ LeavesInOrder]_ipcVars
  BY NextKeepsOrder
<1> QED
  BY <1>1, InvHolds, PTL DEF IpcSpec, ScanOrderKept, OthersInOrder, LeavesInOrder
=============================================================================
