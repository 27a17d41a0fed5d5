--------------------------- MODULE DevicesProofs ---------------------------
(***************************************************************************)
(* What is proved of the device drivers: that the NVMe driver and the      *)
(* Hyper-V storage driver are as many completions behind as they have      *)
(* given up waits, whatever the size of the rings, the devices and the     *)
(* number of calls, timeouts and errors; and of the network driver, with   *)
(* any loss, delay and repetition of frames, that the address it uses is   *)
(* leased to it, that an HTTP request gets what was sent to its own port,  *)
(* and that no connection and no receive buffer is used up.                *)
(***************************************************************************)
EXTENDS MCDevices, FiniteSetTheorems, SequenceTheorems, WellFoundedInduction, TLAPS

(* A non-empty set of numbers has a least one.                             *)
LEMMA LeastNumber ==
    ASSUME NEW T, T \subseteq Nat, T # {}
    PROVE  \E n \in T : \A m \in T : n <= m
<1>1. PICK n \in T : \A m \in T : ~ (<<m, n>> \in OpToRel(<, Nat))
  BY NatLessThanWellFounded, WFMin
<1>2. \A m \in T : ~ (m < n)
  BY <1>1 DEF OpToRel
<1> QED BY <1>2

-----------------------------------------------------------------------------
(* Indices of a ring                                                       *)

(* An index below the size stands for itself.                              *)
LEMMA ModWithin ==
    ASSUME NEW q \in Nat \ {0}, NEW a \in Nat, a < q
    PROVE  a % q = a
  OBVIOUS

(* One that has gone past the end begins again.                            *)
LEMMA ModPast ==
    ASSUME NEW q \in Nat \ {0}, NEW a \in Nat, q <= a, a < q + q
    PROVE  a % q = a - q
  OBVIOUS

(* How far one index of a ring is ahead of another, when either moves on   *)
Ahead(q, x, y) == (x + q - y) % q

(* The distance, without the remainder                                     *)
LEMMA AheadIs ==
    ASSUME NEW q \in Nat \ {0}, NEW x \in 0 .. q - 1, NEW y \in 0 .. q - 1
    PROVE  Ahead(q, x, y) = IF x < y THEN x + q - y ELSE x - y
<1>1. CASE x < y
  BY <1>1, ModWithin, x + q - y \in Nat, x + q - y < q DEF Ahead
<1>2. CASE ~(x < y)
  BY <1>2, ModPast, x + q - y \in Nat, q <= x + q - y, x + q - y < q + q DEF Ahead
<1> QED BY <1>1, <1>2

(* The place after x, without the remainder                                *)
LEMMA NextIs ==
    ASSUME NEW q \in Nat \ {0}, NEW x \in 0 .. q - 1
    PROVE  (x + 1) % q = IF x + 1 = q THEN 0 ELSE x + 1
<1>1. CASE x + 1 = q
  BY <1>1, ModPast, x + 1 \in Nat, q <= x + 1, x + 1 < q + q
<1>2. CASE x + 1 # q
  BY <1>2, ModWithin, x + 1 \in Nat, x + 1 < q
<1> QED BY <1>1, <1>2

(* The leading index moves on: the distance grows by one, unless it was    *)
(* the largest a ring can tell.                                            *)
LEMMA LeaderMoves ==
    ASSUME NEW q \in Nat \ {0}, NEW x \in 0 .. q - 1, NEW y \in 0 .. q - 1
    PROVE  /\ (x + 1) % q \in 0 .. q - 1
           /\ Ahead(q, x, y) + 1 < q => Ahead(q, (x + 1) % q, y) = Ahead(q, x, y) + 1
<1>1. PICK z \in 0 .. q - 1 : z = (x + 1) % q /\ z = IF x + 1 = q THEN 0 ELSE x + 1
  BY NextIs
<1>2. Ahead(q, x, y) = IF x < y THEN x + q - y ELSE x - y
  BY AheadIs
<1>3. Ahead(q, z, y) = IF z < y THEN z + q - y ELSE z - y
  BY AheadIs
<1> HIDE DEF Ahead
<1>4. Ahead(q, x, y) + 1 < q => Ahead(q, z, y) = Ahead(q, x, y) + 1
  BY <1>1, <1>2, <1>3
<1> QED BY <1>1, <1>4

(* The other one moves on: the distance shrinks by one, unless there was   *)
(* none.                                                                   *)
LEMMA FollowerMoves ==
    ASSUME NEW q \in Nat \ {0}, NEW x \in 0 .. q - 1, NEW y \in 0 .. q - 1
    PROVE  /\ (y + 1) % q \in 0 .. q - 1
           /\ Ahead(q, x, y) > 0 => Ahead(q, x, (y + 1) % q) = Ahead(q, x, y) - 1
<1>1. PICK z \in 0 .. q - 1 : z = (y + 1) % q /\ z = IF y + 1 = q THEN 0 ELSE y + 1
  BY NextIs
<1>2. Ahead(q, x, y) = IF x < y THEN x + q - y ELSE x - y
  BY AheadIs
<1>3. Ahead(q, x, z) = IF x < z THEN x + q - z ELSE x - z
  BY AheadIs
<1>4. Ahead(q, x, y) > 0 => Ahead(q, x, z) = Ahead(q, x, y) - 1
  BY <1>1, <1>2, <1>3
<1> QED BY <1>1, <1>4

-----------------------------------------------------------------------------
(* NVMe                                                                    *)

(* What is true after every step of the NVMe driver and its controller:    *)
(* the two indices are places of the rings, a call in progress is a read   *)
(* or a write, and the distance between the indices tells the timeouts.    *)
NvmeCallKnown == "op" \in DOMAIN n_call /\ n_call.op \in {"read", "write"}

NvmeInv ==
    /\ io_sq_tail \in NvmeSlots /\ io_cq_head \in NvmeSlots
    /\ n_timeouts \in Nat
    /\ n_call = NoNvmeCall \/ NvmeCallKnown
    /\ NvmeBehind

(* The property in terms of the distance                                   *)
LEMMA BehindIsAhead == Behind = Ahead(QueueEntries, io_sq_tail, io_cq_head)
  BY DEF Behind, Ahead

(* After the setup of the queues no command is under way.                  *)
LEMMA NvmeInitInv == NvmeInit => NvmeInv
<1> SUFFICES ASSUME NvmeInit PROVE NvmeInv
  OBVIOUS
<1>1. Ahead(QueueEntries, 0, 0) = 0
  BY AheadIs, NvmeAssumption
<1> QED
  BY <1>1, BehindIsAhead, NvmeAssumption DEF NvmeInit, NvmeInv, NvmeBehind, NvmeSlots

(* A new call: one more command in the submission ring                     *)
LEMMA NvmeCallKeepsInv ==
    ASSUME NvmeInv, NEW op \in {"read", "write"}, NEW lba, NEW count, NEW data,
           NvmeCall(op, lba, count, data)
    PROVE  NvmeInv'
<1>1. /\ n_call = NoNvmeCall
      /\ n_call' = [op |-> op, first |-> lba, lba |-> lba, left |-> count, done |-> 0,
                    data |-> data]
      /\ io_sq_tail' = (io_sq_tail + 1) % QueueEntries
      /\ io_cq_head' = io_cq_head /\ n_timeouts' = n_timeouts
  BY DEF NvmeCall, SendChunk, NvmeTransfer
<1>2. NvmeCallKnown'
  BY <1>1 DEF NvmeCallKnown
<1>3. n_call' # NoNvmeCall
  BY <1>2 DEF NvmeCallKnown, NoNvmeCall
<1>4. PICK a : a = Ahead(QueueEntries, io_sq_tail, io_cq_head)
  OBVIOUS
<1>5. PICK b : b = Ahead(QueueEntries, io_sq_tail', io_cq_head')
  OBVIOUS
<1>6. Behind = a /\ Behind' = b
  BY <1>4, <1>5, BehindIsAhead DEF Behind, Ahead
<1>7. io_sq_tail' \in NvmeSlots /\ (a + 1 < QueueEntries => b = a + 1)
  BY <1>1, <1>4, <1>5, LeaderMoves, NvmeAssumption DEF NvmeInv, NvmeSlots
<1>8. NvmeBehind'
  BY <1>1, <1>3, <1>6, <1>7, NvmeAssumption DEF NvmeInv, NvmeBehind
<1> QED BY <1>1, <1>2, <1>7, <1>8 DEF NvmeInv, NvmeSlots

(* The next chunk of a call: a completion is taken and a command put in    *)
LEMMA NvmeNextChunkKeepsInv ==
    ASSUME NvmeInv, NvmeNextChunk
    PROVE  NvmeInv'
<1>1. /\ n_call # NoNvmeCall /\ n_call' = Advanced(n_call)
      /\ io_sq_tail' = (io_sq_tail + 1) % QueueEntries
      /\ io_cq_head' = (io_cq_head + 1) % QueueEntries
      /\ n_timeouts' = n_timeouts
  BY DEF NvmeNextChunk, Completed, TakeCompletion, SendChunk, NvmeTransfer
<1>2. NvmeCallKnown'
  BY <1>1 DEF NvmeInv, NvmeCallKnown, Advanced
<1>3. n_call' # NoNvmeCall
  BY <1>2 DEF NvmeCallKnown, NoNvmeCall
<1>4. PICK a : a = Ahead(QueueEntries, io_sq_tail, io_cq_head)
  OBVIOUS
<1>5. PICK b : b = Ahead(QueueEntries, io_sq_tail', io_cq_head')
  OBVIOUS
<1>6. PICK c : c = Ahead(QueueEntries, io_sq_tail, io_cq_head')
  OBVIOUS
<1>7. Behind = a /\ Behind' = b
  BY <1>4, <1>5, BehindIsAhead DEF Behind, Ahead
<1>8. io_cq_head' \in NvmeSlots /\ (a > 0 => c = a - 1)
  BY <1>1, <1>4, <1>6, FollowerMoves, NvmeAssumption DEF NvmeInv, NvmeSlots
<1>9. io_sq_tail' \in NvmeSlots /\ (c + 1 < QueueEntries => b = c + 1)
  BY <1>1, <1>5, <1>6, <1>8, LeaderMoves, NvmeAssumption DEF NvmeInv, NvmeSlots
<1>10. NvmeBehind'
  BY <1>1, <1>3, <1>7, <1>8, <1>9, NvmeAssumption DEF NvmeInv, NvmeBehind
<1> QED BY <1>1, <1>2, <1>8, <1>9, <1>10 DEF NvmeInv, NvmeSlots

(* A call that returns has taken a completion.                             *)
LEMMA NvmeReturnKeepsInv ==
    ASSUME NvmeInv, NvmeReturn
    PROVE  NvmeInv'
<1>1. /\ n_call # NoNvmeCall /\ n_call' = NoNvmeCall
      /\ io_sq_tail' = io_sq_tail
      /\ io_cq_head' = (io_cq_head + 1) % QueueEntries
      /\ n_timeouts' = n_timeouts
  BY DEF NvmeReturn, Completed, NvmeFinish, TakeCompletion
<1>2. PICK a : a = Ahead(QueueEntries, io_sq_tail, io_cq_head)
  OBVIOUS
<1>3. PICK b : b = Ahead(QueueEntries, io_sq_tail', io_cq_head')
  OBVIOUS
<1>4. Behind = a /\ Behind' = b
  BY <1>2, <1>3, BehindIsAhead DEF Behind, Ahead
<1>5. io_cq_head' \in NvmeSlots /\ (a > 0 => b = a - 1)
  BY <1>1, <1>2, <1>3, FollowerMoves, NvmeAssumption DEF NvmeInv, NvmeSlots
<1>6. NvmeBehind'
  BY <1>1, <1>4, <1>5, NvmeAssumption DEF NvmeInv, NvmeBehind, NoNvmeCall
<1> QED BY <1>1, <1>5, <1>6 DEF NvmeInv, NvmeSlots, NoNvmeCall

(* A call that is given up has not, and leaves the driver one behind.      *)
LEMMA NvmeTimeoutKeepsInv ==
    ASSUME NvmeInv, NvmeTimeout
    PROVE  NvmeInv'
<1>1. /\ n_call # NoNvmeCall /\ n_call' = NoNvmeCall
      /\ io_sq_tail' = io_sq_tail /\ io_cq_head' = io_cq_head
      /\ n_timeouts' = n_timeouts + 1
  BY DEF NvmeTimeout, NvmeFinish
<1>2. Behind' = Behind
  BY <1>1 DEF Behind
<1>3. NvmeBehind'
  BY <1>1, <1>2, NvmeAssumption DEF NvmeInv, NvmeBehind, NoNvmeCall
<1> QED BY <1>1, <1>3 DEF NvmeInv, NvmeSlots, NoNvmeCall

(* Every step of the driver and the controller                             *)
LEMMA NvmeStepKeepsInv ==
    ASSUME NvmeInv, [NvmeNext]_nvmeVars
    PROVE  NvmeInv'
<1>1. CASE \E lba \in BlockNumbers : \E count \in 1 .. NvmeBlocks - lba :
              \/ NvmeCall("read", lba, count, << >>)
              \/ \E d \in NvmeData : NvmeCall("write", lba, count, [i \in 1 .. count |-> d])
  BY <1>1, NvmeCallKeepsInv
<1>2. CASE NvmeNextChunk
  BY <1>2, NvmeNextChunkKeepsInv
<1>3. CASE NvmeReturn
  BY <1>3, NvmeReturnKeepsInv
<1>4. CASE NvmeTimeout
  BY <1>4, NvmeTimeoutKeepsInv
<1>5. ASSUME UNCHANGED <<io_sq_tail, io_cq_head, n_call, n_timeouts>>
      PROVE  NvmeInv'
  BY <1>5 DEF NvmeInv, NvmeSlots, NvmeCallKnown, NvmeBehind, Behind, NoNvmeCall
<1>6. CASE \E status \in {0, 1} : Execute(status)
  BY <1>5, <1>6 DEF Execute
<1>7. CASE UNCHANGED nvmeVars
  BY <1>5, <1>7 DEF nvmeVars
<1> QED BY <1>1, <1>2, <1>3, <1>4, <1>6, <1>7 DEF NvmeNext

-----------------------------------------------------------------------------
(* StorVSC                                                                 *)

(* What the rings hold is of several shapes; that they are sequences is    *)
(* all that is needed.                                                     *)
IsRing(s) == \E S : s \in Seq(S)

(* A packet is put in.                                                     *)
LEMMA RingAppend ==
    ASSUME NEW s, IsRing(s), NEW packet
    PROVE  /\ IsRing(Append(s, packet)) /\ Len(s) \in Nat
           /\ Len(Append(s, packet)) = Len(s) + 1
<1>1. PICK S : s \in Seq(S)
  BY DEF IsRing
<1>2. s \in Seq(S \union {packet})
  BY <1>1
<1>3. /\ Append(s, packet) \in Seq(S \union {packet}) /\ Len(s) \in Nat
      /\ Len(Append(s, packet)) = Len(s) + 1
  BY <1>2
<1> QED BY <1>3 DEF IsRing

(* A packet is taken.                                                      *)
LEMMA RingTail ==
    ASSUME NEW s, IsRing(s), s # << >>
    PROVE  IsRing(Tail(s)) /\ Len(s) \in Nat /\ Len(Tail(s)) = Len(s) - 1 /\ Len(s) > 0
<1>1. PICK S : s \in Seq(S)
  BY DEF IsRing
<1>2. Tail(s) \in Seq(S) /\ Len(s) \in Nat /\ Len(Tail(s)) = Len(s) - 1 /\ Len(s) > 0
  BY <1>1
<1> QED BY <1>2 DEF IsRing

(* What is true after every step of the driver and the provider: the rings *)
(* are sequences, the driver is at a step it knows, and together they hold *)
(* one packet for each wait given up and one for the wait it is in.        *)
WaitSteps == {"handshake", "inquiry", "capacity", "transfer"}
StorSteps == WaitSteps \union {"off", "idle", "down"}

StorInv ==
    /\ IsRing(s_out) /\ IsRing(s_in)
    /\ s_late \in Nat
    /\ "step" \in DOMAIN s_at /\ s_at.step \in StorSteps
    /\ StorBehind

(* Before the channel is opened both rings are empty.                      *)
LEMMA StorInitInv == StorInit => StorInv
<1> SUFFICES ASSUME StorInit PROVE StorInv
  OBVIOUS
<1>1. s_out = << >> /\ s_in = << >> /\ s_late = 0 /\ s_at = Off
  BY DEF StorInit
<1>2. IsRing(s_out) /\ IsRing(s_in) /\ Len(s_out) = 0 /\ Len(s_in) = 0
  BY <1>1, << >> \in Seq({}) DEF IsRing
<1>3. "step" \in DOMAIN s_at /\ s_at.step = "off"
  BY <1>1 DEF Off
<1> QED BY <1>1, <1>2, <1>3 DEF StorInv, StorSteps, StorBehind, Waiting

(* How a step of the driver ends: with another request sent, or with none  *)
(* under way.                                                              *)
Asks == \E request : /\ s_out' = Append(s_out, request)
                     /\ "step" \in DOMAIN s_at' /\ s_at'.step \in WaitSteps
Ends == /\ s_out' = s_out
        /\ "step" \in DOMAIN s_at' /\ s_at'.step \in {"idle", "down"}

(* A request that follows no answer                                        *)
LEMMA AskKeepsInv ==
    ASSUME StorInv, s_at.step \in {"off", "idle"}, Asks, UNCHANGED <<s_in, s_late>>
    PROVE  StorInv'
<1>1. PICK request : s_out' = Append(s_out, request)
  BY DEF Asks
<1>2. IsRing(s_out') /\ Len(s_out) \in Nat /\ Len(s_out') = Len(s_out) + 1
  BY <1>1, RingAppend DEF StorInv
<1>3. ~Waiting /\ Waiting' /\ "step" \in DOMAIN s_at' /\ s_at'.step \in StorSteps
  BY DEF Waiting, Asks, WaitSteps, StorSteps
<1>4. IsRing(s_in') /\ s_late' \in Nat /\ Len(s_in') = Len(s_in)
  BY DEF StorInv
<1>5. Len(s_in) \in Nat
  BY RingAppend DEF StorInv
<1>6. StorBehind'
  BY <1>2, <1>3, <1>4, <1>5 DEF StorInv, StorBehind
<1> QED BY <1>2, <1>3, <1>4, <1>6 DEF StorInv

(* An answer that is taken                                                 *)
LEMMA AnswerKeepsInv ==
    ASSUME StorInv, Arrived, Receive, Asks \/ Ends, UNCHANGED s_late
    PROVE  StorInv'
<1>1. IsRing(s_in') /\ Len(s_in) \in Nat /\ Len(s_in') = Len(s_in) - 1 /\ Len(s_in) > 0
  BY RingTail DEF StorInv, Arrived, Receive
<1>2. Waiting /\ "step" \in DOMAIN s_at' /\ s_at'.step \in StorSteps
  BY DEF Arrived, Asks, Ends, WaitSteps, StorSteps
<1>3. Len(s_out) \in Nat /\ s_late \in Nat
  BY RingAppend DEF StorInv
<1>4. CASE Asks
  <2>1. PICK request : s_out' = Append(s_out, request)
    BY <1>4 DEF Asks
  <2>2. IsRing(s_out') /\ Len(s_out') = Len(s_out) + 1
    BY <2>1, RingAppend DEF StorInv
  <2>3. Waiting'
    BY <1>4 DEF Waiting, Asks, WaitSteps
  <2>4. StorBehind'
    BY <1>1, <1>2, <1>3, <2>2, <2>3 DEF StorInv, StorBehind
  <2> QED BY <1>1, <1>2, <2>2, <2>4 DEF StorInv
<1>5. CASE Ends
  <2>1. IsRing(s_out') /\ Len(s_out') = Len(s_out) /\ ~Waiting'
    BY <1>5 DEF StorInv, Waiting, Ends
  <2>2. StorBehind'
    BY <1>1, <1>2, <1>3, <2>1 DEF StorInv, StorBehind
  <2> QED BY <1>1, <1>2, <2>1, <2>2 DEF StorInv
<1> QED BY <1>4, <1>5

(* A wait that is given up                                                 *)
LEMMA GiveUpKeepsInv ==
    ASSUME StorInv, Waiting, Asks \/ Ends, s_late' = s_late + 1, UNCHANGED s_in
    PROVE  StorInv'
<1>1. IsRing(s_in') /\ Len(s_in) \in Nat /\ Len(s_in') = Len(s_in)
  BY RingAppend DEF StorInv
<1>2. "step" \in DOMAIN s_at' /\ s_at'.step \in StorSteps
  BY DEF Asks, Ends, WaitSteps, StorSteps
<1>3. Len(s_out) \in Nat /\ s_late \in Nat
  BY RingAppend DEF StorInv
<1>4. CASE Asks
  <2>1. PICK request : s_out' = Append(s_out, request)
    BY <1>4 DEF Asks
  <2>2. IsRing(s_out') /\ Len(s_out') = Len(s_out) + 1
    BY <2>1, RingAppend DEF StorInv
  <2>3. Waiting'
    BY <1>4 DEF Waiting, Asks, WaitSteps
  <2>4. StorBehind'
    BY <1>1, <1>3, <2>2, <2>3 DEF StorInv, StorBehind
  <2> QED BY <1>1, <1>2, <1>3, <2>2, <2>4 DEF StorInv
<1>5. CASE Ends
  <2>1. IsRing(s_out') /\ Len(s_out') = Len(s_out) /\ ~Waiting'
    BY <1>5 DEF StorInv, Waiting, Ends
  <2>2. StorBehind'
    BY <1>1, <1>3, <2>1 DEF StorInv, StorBehind
  <2> QED BY <1>1, <1>2, <1>3, <2>1, <2>2 DEF StorInv
<1> QED BY <1>4, <1>5

(* What the parts of the steps come to                                     *)
LEMMA SendAsks ==
    ASSUME NEW request, NEW at, Send(request, at), "step" \in DOMAIN at, at.step \in WaitSteps
    PROVE  Asks
  BY DEF Send, Asks

(* Each step of the handshake puts one packet into the ring.               *)
LEMMA SendHandshakeAsks ==
    ASSUME NEW n, NEW tried, SendHandshake(n, tried)
    PROVE  Asks
<1> DEFINE at == [step |-> "handshake", n |-> n, tried |-> tried]
<1>1. "step" \in DOMAIN at /\ at.step \in WaitSteps
  BY DEF WaitSteps
<1> HIDE DEF at
<1> QED BY <1>1, SendAsks DEF SendHandshake, at

(* The probe of a target sends one INQUIRY and waits for its answer.       *)
LEMMA InquiryAsks ==
    ASSUME NEW t, Inquiry(t)
    PROVE  Asks
<1> DEFINE at == [step |-> "inquiry", target |-> t]
<1>1. "step" \in DOMAIN at /\ at.step \in WaitSteps
  BY DEF WaitSteps
<1> HIDE DEF at
<1> QED BY <1>1, SendAsks DEF Inquiry, at

(* A driver that is idle, or has given up the device, waits for nothing.   *)
LEMMA IdleAndDownEnd ==
    ASSUME s_at' = Idle \/ s_at' = Down, s_out' = s_out
    PROVE  Ends
  BY DEF Ends, Idle, Down

(* After a target without an answer the probe asks the next one or ends.   *)
LEMMA ProbeNextGoesOn ==
    ASSUME NEW t, ProbeNext(t)
    PROVE  Asks \/ Ends
  BY InquiryAsks, IdleAndDownEnd DEF ProbeNext

(* A piece of a transfer is one packet.                                    *)
LEMMA SendTransferAsks ==
    ASSUME NEW call, "step" \in DOMAIN call, SendTransfer(call)
    PROVE  Asks
<1> DEFINE at == [call EXCEPT !.step = "transfer"]
<1>1. "step" \in DOMAIN at /\ at.step \in WaitSteps
  BY DEF WaitSteps
<1> HIDE DEF at
<1> QED BY <1>1, SendAsks DEF SendTransfer, at

(* A piece begins with its first attempt, which is one packet.             *)
LEMMA StartPieceAsks ==
    ASSUME NEW call, "step" \in DOMAIN call, StartPiece(call)
    PROVE  Asks
<1> DEFINE first == [call EXCEPT !.attempt = 1]
<1>1. "step" \in DOMAIN first
  OBVIOUS
<1> HIDE DEF first
<1> QED BY <1>1, SendTransferAsks DEF StartPiece, first

(* The handshake and the probe                                             *)
LEMMA HandshakeAnswerKeepsInv ==
    ASSUME StorInv, HandshakeAnswer
    PROVE  StorInv'
<1>1. Arrived /\ Receive /\ UNCHANGED s_late
  BY DEF HandshakeAnswer
<1>2. (\E n, tried : SendHandshake(n, tried)) \/ ((s_at' = Idle \/ s_at' = Down) /\ s_out' = s_out)
  BY DEF HandshakeAnswer
<1>3. Asks \/ Ends
  BY <1>2, SendHandshakeAsks, IdleAndDownEnd
<1> QED BY <1>1, <1>3, AnswerKeepsInv

(* The answers to INQUIRY and READ CAPACITY are taken from the ring one at *)
(* a time.                                                                 *)
LEMMA ProbeStepsKeepInv ==
    ASSUME StorInv, InquiryAnswer \/ CapacityAnswer
    PROVE  StorInv'
<1>1. Arrived /\ Receive /\ UNCHANGED s_late
  BY DEF InquiryAnswer, CapacityAnswer
<1> DEFINE at == [step |-> "capacity", target |-> s_at.target]
<1>2. "step" \in DOMAIN at /\ at.step \in WaitSteps
  BY DEF WaitSteps
<1>3. (\E request : Send(request, at)) \/ ProbeNext(s_at.target)
  BY DEF InquiryAnswer, CapacityAnswer
<1> HIDE DEF at
<1>4. Asks \/ Ends
  BY <1>2, <1>3, SendAsks, ProbeNextGoesOn
<1> QED BY <1>1, <1>4, AnswerKeepsInv

(* The transfers                                                           *)
LEMMA TransferStepsKeepInv ==
    ASSUME StorInv, TransferRetry \/ TransferNextPiece \/ TransferReturn
    PROVE  StorInv'
<1>1. Arrived /\ Receive /\ UNCHANGED s_late
  BY DEF TransferRetry, TransferNextPiece, TransferReturn
<1>2. "step" \in DOMAIN s_at
  BY DEF StorInv
<1>3. CASE TransferRetry
  <2>1. PICK call : call = [s_at EXCEPT !.attempt = @ + 1] /\ SendTransfer(call)
    BY <1>3 DEF TransferRetry
  <2>2. "step" \in DOMAIN call
    BY <1>2, <2>1
  <2> QED BY <1>1, <2>1, <2>2, SendTransferAsks, AnswerKeepsInv
<1>4. CASE TransferNextPiece
  <2>1. PICK call : call = Moved(s_at) /\ StartPiece(call)
    BY <1>4 DEF TransferNextPiece
  <2>2. "step" \in DOMAIN call
    BY <1>2, <2>1 DEF Moved
  <2> QED BY <1>1, <2>1, <2>2, StartPieceAsks, AnswerKeepsInv
<1>5. CASE TransferReturn
  <2>1. s_at' = Idle /\ s_out' = s_out
    BY <1>5 DEF TransferReturn, StorReturn
  <2> QED BY <1>1, <2>1, IdleAndDownEnd, AnswerKeepsInv
<1> QED BY <1>3, <1>4, <1>5

(* The requests that follow no answer                                      *)
LEMMA StorCallKeepsInv ==
    ASSUME StorInv, NEW op, NEW entry, NEW lba, NEW count, NEW data,
           StorCall(op, entry, lba, count, data)
    PROVE  StorInv'
<1> DEFINE call == [step |-> "transfer", op |-> op, target |-> entry.target, first |-> lba,
                    lba |-> lba, left |-> count, done |-> 0, data |-> data, attempt |-> 1]
<1>1. "step" \in DOMAIN call
  OBVIOUS
<1> HIDE DEF call
<1>2. StartPiece(call)
  BY DEF StorCall, call
<1>3. s_at = Idle /\ UNCHANGED <<s_in, s_late>>
  BY DEF StorCall
<1>4. s_at.step = "idle"
  BY <1>3 DEF Idle
<1> QED BY <1>1, <1>2, <1>3, <1>4, StartPieceAsks, AskKeepsInv

(* The handshake and the probe begin with nothing under way.               *)
LEMMA StartKeepsInv ==
    ASSUME StorInv, VspInitialize \/ Probe
    PROVE  StorInv'
<1>1. CASE VspInitialize
  <2>1. SendHandshake(1, 1) /\ s_at = Off /\ UNCHANGED <<s_in, s_late>>
    BY <1>1 DEF VspInitialize
  <2>2. s_at.step = "off"
    BY <2>1 DEF Off
  <2> QED BY <2>1, <2>2, SendHandshakeAsks, AskKeepsInv
<1>2. CASE Probe
  <2>1. Inquiry(0) /\ s_at = Idle /\ UNCHANGED <<s_in, s_late>>
    BY <1>2 DEF Probe
  <2>2. s_at.step = "idle"
    BY <2>1 DEF Idle
  <2> QED BY <2>1, <2>2, InquiryAsks, AskKeepsInv
<1> QED BY <1>1, <1>2

(* A wait that is given up leaves one packet more behind.                  *)
LEMMA StorTimeoutKeepsInv ==
    ASSUME StorInv, StorTimeout
    PROVE  StorInv'
<1>1. Waiting /\ s_late' = s_late + 1 /\ UNCHANGED s_in
  BY DEF StorTimeout
<1>2. s_at.step \in WaitSteps
  BY <1>1 DEF StorInv, Waiting, StorSteps
<1>3. ProbeNext(s_at.target) \/ ((s_at' = Idle \/ s_at' = Down) /\ s_out' = s_out)
  BY <1>2 DEF StorTimeout, WaitSteps, StorReturn
<1> QED BY <1>1, <1>3, ProbeNextGoesOn, IdleAndDownEnd, GiveUpKeepsInv

(* The provider moves a packet from the one ring to the other.             *)
LEMMA ServeKeepsInv ==
    ASSUME StorInv, Serve
    PROVE  StorInv'
<1>1. /\ s_out # << >> /\ s_out' = Tail(s_out)
      /\ \E completion : s_in' = Append(s_in, completion)
      /\ UNCHANGED <<s_at, s_late>>
  BY DEF Serve
<1>2. PICK completion : s_in' = Append(s_in, completion)
  BY <1>1
<1>3. IsRing(s_out') /\ Len(s_out) \in Nat /\ Len(s_out') = Len(s_out) - 1 /\ Len(s_out) > 0
  BY <1>1, RingTail DEF StorInv
<1>4. IsRing(s_in') /\ Len(s_in) \in Nat /\ Len(s_in') = Len(s_in) + 1
  BY <1>2, RingAppend DEF StorInv
<1>5. Waiting' <=> Waiting
  BY <1>1 DEF Waiting
<1>6. StorBehind'
  BY <1>1, <1>3, <1>4, <1>5, SMTT(30) DEF StorInv, StorBehind
<1> QED BY <1>1, <1>3, <1>4, <1>6 DEF StorInv

(* Every step of the driver and the provider                               *)
LEMMA StorStepKeepsInv ==
    ASSUME StorInv, [StorNext]_storVars
    PROVE  StorInv'
<1>1. CASE VspInitialize \/ Probe
  BY <1>1, StartKeepsInv
<1>2. CASE HandshakeAnswer
  BY <1>2, HandshakeAnswerKeepsInv
<1>3. CASE InquiryAnswer \/ CapacityAnswer
  BY <1>3, ProbeStepsKeepInv
<1>4. CASE \E i \in DOMAIN s_table :
              \E lba \in 0 .. s_table[i].count - 1 : \E count \in 1 .. s_table[i].count - lba :
                 \/ StorCall("read", s_table[i], lba, count, << >>)
                 \/ \E d \in StorData :
                       StorCall("write", s_table[i], lba, count, [k \in 1 .. count |-> d])
  BY <1>4, StorCallKeepsInv
<1>5. CASE TransferRetry \/ TransferNextPiece \/ TransferReturn
  BY <1>5, TransferStepsKeepInv
<1>6. CASE StorTimeout
  BY <1>6, StorTimeoutKeepsInv
<1>7. CASE Serve
  BY <1>7, ServeKeepsInv
<1>8. CASE UNCHANGED storVars
  BY <1>8 DEF storVars, StorInv, StorBehind, Waiting
<1> QED BY <1>1, <1>2, <1>3, <1>4, <1>5, <1>6, <1>7, <1>8 DEF StorNext

-----------------------------------------------------------------------------
(* The drivers together                                                    *)

deviceVars == <<device, virtioVars, nvmeVars, ahciVars, storVars, vmbusVars, ringVars, netVars,
                usbVars, keyboardVars>>

(* A step of one device is none of another.                                *)
LEMMA StepIsOfOneDevice ==
    ASSUME [DevicesNext]_deviceVars
    PROVE  /\ [NvmeNext]_nvmeVars
           /\ [StorNext]_storVars
           /\ [NetNext]_netVars
  BY DEF DevicesNext, deviceVars

(* The NVMe driver and the Hyper-V storage driver are behind by exactly as *)
(* many completions as they gave up waits: of nvme.c, as long as those are *)
(* fewer than NVME_QUEUE_ENTRIES - 1, of hyperv_storage.c always.          *)
THEOREM BehindCorrect == DevicesSpec => []StaysBehind
<1>1. DevicesInit => NvmeInv /\ StorInv
  BY NvmeInitInv, StorInitInv DEF DevicesInit
<1>2. NvmeInv /\ StorInv /\ [DevicesNext]_deviceVars => NvmeInv' /\ StorInv'
  BY StepIsOfOneDevice, NvmeStepKeepsInv, StorStepKeepsInv
<1>3. NvmeInv /\ StorInv => StaysBehind
  BY DEF NvmeInv, StorInv, StaysBehind
<1> QED BY <1>1, <1>2, <1>3, PTL DEF DevicesSpec, deviceVars

-----------------------------------------------------------------------------
(* Network: the address                                                    *)

(* An acknowledgement comes from a server that has leased the address.     *)
FromLessor(frame) == frame.kind = "dhcp-ack" => frame.server \in e_truth.leases

(* What is true after every step: wherever an acknowledgement is, on the   *)
(* wire or in a buffer, there is the lease it speaks of; a frame that is   *)
(* being answered is still in its buffer; and the property.                *)
LeaseInv ==
    /\ {"ip", "since", "ack"} \subseteq DOMAIN e_net
    /\ "leases" \in DOMAIN e_truth /\ "used" \in DOMAIN e_rx /\ "waits" \in DOMAIN e_tx
    /\ IsRing(e_rx.used)
    /\ e_tx.waits \in {"no", "step"} \/ e_rx.used # << >>
    /\ \A frame \in e_wire : FromLessor(frame)
    /\ \A i \in 1 .. Len(e_rx.used) : FromLessor(e_rx.used[i].frame)
    /\ AddressLeased

(* At the start nothing is on the network and no address is set.           *)
LEMMA LeaseInitInv == NetInit => LeaseInv
<1> SUFFICES ASSUME NetInit PROVE LeaseInv
  OBVIOUS
<1>1. /\ {"ip", "since", "ack"} \subseteq DOMAIN e_net /\ e_net.ack = FALSE
      /\ "leases" \in DOMAIN e_truth /\ "used" \in DOMAIN e_rx /\ "waits" \in DOMAIN e_tx
      /\ e_rx.used = << >> /\ e_tx.waits = "no" /\ e_wire = {}
  BY DEF NetInit
<1>2. IsRing(e_rx.used) /\ Len(e_rx.used) = 0
  BY <1>1, << >> \in Seq({}) DEF IsRing
<1>3. AddressLeased
  BY <1>1 DEF AddressLeased
<1> QED BY <1>1, <1>2, <1>3 DEF LeaseInv

(* The steps that touch neither the address nor a lease.  Of e_net they    *)
(* change other fields, or take the acknowledgement back.                  *)
AddressStays ==
    /\ {"ip", "since", "ack"} \subseteq DOMAIN e_net'
    /\ e_net'.ip = e_net.ip /\ e_net'.since = e_net.since /\ (e_net'.ack => e_net.ack)
LeasesStay == "leases" \in DOMAIN e_truth' /\ e_truth'.leases = e_truth.leases
BuffersTaken ==
    /\ "used" \in DOMAIN e_rx'
    /\ e_rx'.used = e_rx.used \/ (e_rx.used # << >> /\ e_rx'.used = Tail(e_rx.used))
WaitStays ==
    /\ "waits" \in DOMAIN e_tx'
    /\ e_tx'.waits \in {"no", "step"} \/ e_rx'.used # << >>

(* Frames that are left are the ones there were.                           *)
LEMMA TakenKeepsFrames ==
    ASSUME LeaseInv, BuffersTaken, LeasesStay
    PROVE  IsRing(e_rx'.used) /\ (\A i \in 1 .. Len(e_rx.used) : FromLessor(e_rx.used[i].frame))'
<1>1. CASE e_rx'.used = e_rx.used
  BY <1>1 DEF LeaseInv, LeasesStay, FromLessor
<1>2. CASE e_rx.used # << >> /\ e_rx'.used = Tail(e_rx.used)
  <2>1. IsRing(e_rx'.used) /\ Len(e_rx.used) \in Nat /\ Len(e_rx'.used) = Len(e_rx.used) - 1
    BY <1>2, RingTail DEF LeaseInv
  <2>2. PICK S : e_rx.used \in Seq(S)
    BY DEF LeaseInv, IsRing
  <2>3. \A i \in 1 .. Len(e_rx'.used) : e_rx'.used[i] = e_rx.used[i + 1] /\ i + 1 \in 1 .. Len(e_rx.used)
    BY <1>2, <2>1, <2>2
  <2> QED BY <2>1, <2>3 DEF LeaseInv, LeasesStay, FromLessor
<1> QED BY <1>1, <1>2 DEF BuffersTaken

(* A step that leaves the address, the leases and the frames being         *)
(* answered alone, and adds no acknowledgement of its own, keeps the       *)
(* invariant.                                                              *)
LEMMA QuietStepKeepsLease ==
    ASSUME LeaseInv, AddressStays, LeasesStay, BuffersTaken, WaitStays,
           \A frame \in e_wire' : FromLessor(frame)
    PROVE  LeaseInv'
<1>1. (\A frame \in e_wire : FromLessor(frame))'
  BY DEF LeasesStay, FromLessor
<1>2. AddressLeased'
  BY DEF LeaseInv, AddressLeased, AddressStays, LeasesStay
<1> QED BY <1>1, <1>2, TakenKeepsFrames
        DEF LeaseInv, AddressStays, LeasesStay, BuffersTaken, WaitStays

(* The end of a call changes no more of e_net than the field up.           *)
LEMMA ReturnKeepsAddress ==
    ASSUME LeaseInv, NEW ok, NEW data, Return(ok, data)
    PROVE  AddressStays
<1>1. e_net' = e_net \/ \E up : e_net' = [e_net EXCEPT !.up = up]
  BY DEF Return
<1> QED BY <1>1 DEF AddressStays, LeaseInv

(* A step that leaves the driver's network state alone leaves the address  *)
(* alone.                                                                  *)
LEMMA SameNetKeepsAddress ==
    ASSUME LeaseInv, e_net' = e_net
    PROVE  AddressStays
  BY DEF AddressStays, LeaseInv

(* The steps of the calls                                                  *)
LEMMA CallStepsKeepAddress ==
    ASSUME LeaseInv, RouteGet \/ OpenConnection \/ GoOn \/ WaitTimeout \/ ServeEnd
    PROVE  AddressStays
<1>1. ASSUME EndPing \/ EndDns PROVE AddressStays
  BY <1>1, ReturnKeepsAddress, SameNetKeepsAddress DEF EndPing, EndDns
<1>2. ASSUME FailCall PROVE AddressStays
  BY <1>2, ReturnKeepsAddress DEF FailCall
<1>3. CASE RouteGet
  BY <1>2, <1>3, SameNetKeepsAddress DEF RouteGet
<1>4. CASE OpenConnection
  BY <1>2, <1>4, SameNetKeepsAddress DEF OpenConnection
<1>5. CASE GoOn
  <2>1. e_net' = e_net \/ e_call.step \in {"echo", "query", "get"}
    BY <1>5 DEF GoOn
  <2>2. e_call.step \in {"echo", "query", "get"} =>
           EndPing \/ EndDns \/ Return(TRUE, e_conns[e_call.conn].data)
    BY <1>5 DEF GoOn
  <2> QED BY <2>1, <2>2, <1>1, ReturnKeepsAddress, SameNetKeepsAddress
<1>6. CASE WaitTimeout
  BY <1>1, <1>2, <1>6 DEF WaitTimeout
<1>7. CASE ServeEnd
  BY <1>7, ReturnKeepsAddress DEF ServeEnd
<1> QED BY <1>3, <1>4, <1>5, <1>6, <1>7

(* They take a buffer from the front of the queue or leave it as it is,    *)
(* and a frame that is being answered stays in its buffer.                 *)
LEMMA CallStepsTakeBuffers ==
    ASSUME LeaseInv,
           \/ \E target \in Lan \union {Web} : Ping(target)
           \/ Wget \/ HttpServerOnce
           \/ RouteGet \/ OpenConnection \/ SendStep \/ GoOn \/ WaitTimeout \/ ServeEnd
           \/ PollServe \/ PollEnd \/ TransmitDone \/ TransmitTimeout
    PROVE  BuffersTaken /\ WaitStays
<1>1. CASE \/ \E target \in Lan \union {Web} : Ping(target)
           \/ Wget \/ HttpServerOnce
           \/ RouteGet \/ OpenConnection \/ GoOn \/ WaitTimeout \/ ServeEnd \/ PollEnd
  <2>1. e_rx' = e_rx /\ e_tx' = e_tx
    BY <1>1 DEF Ping, Wget, HttpServerOnce, BeginCall, RouteGet, OpenConnection, GoOn,
                WaitTimeout, ServeEnd, PollEnd
  <2> QED BY <2>1 DEF BuffersTaken, WaitStays, LeaseInv
<1>2. CASE SendStep
  <2>1. e_rx' = e_rx /\ "waits" \in DOMAIN e_tx' /\ e_tx'.waits = "step"
    BY <1>2 DEF SendStep, SendFrame, LeaseInv
  <2> QED BY <2>1 DEF BuffersTaken, WaitStays, LeaseInv
<1>3. CASE PollServe
  <2>1. e_rx' = e_rx /\ "waits" \in DOMAIN e_tx' /\ e_rx.used # << >>
    BY <1>3 DEF PollServe, SendFrame, LeaseInv
  <2> QED BY <2>1 DEF BuffersTaken, WaitStays, LeaseInv
<1>4. CASE TransmitDone \/ TransmitTimeout
  <2>1. "waits" \in DOMAIN e_tx' /\ e_tx'.waits = "no"
    BY <1>4 DEF TransmitDone, TransmitTimeout, LeaseInv
  <2>2. e_rx' = e_rx \/ (e_tx.waits \notin {"no", "step"} /\ e_rx' = Recycle(Head(e_rx.used).id))
    BY <1>4 DEF TransmitDone, TransmitTimeout
  <2>3. BuffersTaken
    BY <2>2 DEF Recycle, BuffersTaken, LeaseInv
  <2> QED BY <2>1, <2>3 DEF WaitStays
<1> QED BY <1>1, <1>2, <1>3, <1>4

(* The calls, their requests and their timeouts set no address.            *)
LEMMA CallStepsKeepLease ==
    ASSUME LeaseInv,
           \/ \E target \in Lan \union {Web} : Ping(target)
           \/ Wget \/ HttpServerOnce
           \/ RouteGet \/ OpenConnection \/ SendStep \/ GoOn \/ WaitTimeout \/ ServeEnd
           \/ PollServe \/ PollEnd \/ TransmitDone \/ TransmitTimeout
    PROVE  LeaseInv'
<1>1. e_wire' = e_wire
  BY DEF Ping, Wget, HttpServerOnce, BeginCall, RouteGet, OpenConnection, SendStep, GoOn,
         WaitTimeout, ServeEnd, PollServe, PollEnd, TransmitDone, TransmitTimeout
<1>2. LeasesStay
  BY DEF Ping, Wget, HttpServerOnce, RouteGet, OpenConnection, TcpConnectionAllocate, SendStep, GoOn,
         WaitTimeout, ServeEnd, PollServe, PollEnd, TransmitDone, TransmitTimeout, LeasesStay, LeaseInv
<1>3. AddressStays
  <2>1. ASSUME LeaseInv, SendStep PROVE AddressStays
    BY <2>1 DEF SendStep, AddressStays, LeaseInv
  <2>2. ASSUME LeaseInv, TransmitTimeout PROVE AddressStays
    BY <2>2, ReturnKeepsAddress, SameNetKeepsAddress DEF TransmitTimeout, FailCall
  <2>3. ASSUME \/ \E target \in Lan \union {Web} : Ping(target)
               \/ Wget \/ HttpServerOnce \/ PollServe \/ PollEnd \/ TransmitDone
        PROVE  e_net' = e_net
    BY <2>3 DEF Ping, Wget, HttpServerOnce, BeginCall, PollServe, PollEnd, TransmitDone
  <2> QED BY <2>1, <2>2, <2>3, CallStepsKeepAddress, SameNetKeepsAddress
<1>4. BuffersTaken /\ WaitStays
  BY CallStepsTakeBuffers
<1> QED BY <1>1, <1>2, <1>3, <1>4, QuietStepKeepsLease DEF LeaseInv

(* A frame is handled.  An acknowledgement brings an address that is       *)
(* leased, an offer one that is remembered as offered.                     *)
LEMMA PollFrameKeepsLease ==
    ASSUME LeaseInv, PollFrame
    PROVE  LeaseInv'
<1> DEFINE frame == Head(e_rx.used).frame
<1>1. /\ e_rx.used # << >> /\ HandleFrame(frame) /\ e_tx.waits = "no"
      /\ UNCHANGED <<e_tx, e_wire, e_truth>>
  BY DEF PollFrame
<1>2. e_rx' = [e_rx EXCEPT !.used = Tail(@)] \/ e_rx' = Recycle(Head(e_rx.used).id)
  BY DEF PollFrame
<1>3. FromLessor(frame)
  <2>1. PICK S : e_rx.used \in Seq(S)
    BY DEF LeaseInv, IsRing
  <2>2. Head(e_rx.used) = e_rx.used[1] /\ 1 \in 1 .. Len(e_rx.used)
    BY <1>1, <2>1
  <2> QED BY <2>2 DEF LeaseInv
<1> HIDE DEF frame
<1>4. LeasesStay /\ WaitStays
  BY <1>1 DEF LeasesStay, WaitStays, LeaseInv
<1>5. BuffersTaken
  BY <1>1, <1>2 DEF BuffersTaken, Recycle, LeaseInv
<1>6. {"ip", "since", "ack"} \subseteq DOMAIN e_net'
  BY <1>1 DEF HandleFrame, HandleArp, HandleDhcp, HandleDns, HandleIcmp, HandleTcp, LeaseInv
<1>7. AddressLeased'
  <2>1. CASE frame.kind = "offer"
    <3>1. /\ e_net'.ip = frame.server /\ e_net'.since = e_net.since \union {frame.server}
      BY <1>1, <2>1 DEF HandleFrame, HandleDhcp, LeaseInv
    <3> QED BY <3>1 DEF AddressLeased
  <2>2. CASE frame.kind = "dhcp-ack"
    <3>1. /\ e_net'.ip = frame.server
      BY <1>1, <2>2 DEF HandleFrame, HandleDhcp, LeaseInv
    <3> QED BY <1>1, <1>3, <2>2, <3>1 DEF AddressLeased, FromLessor
  <2>3. CASE frame.kind \notin {"offer", "dhcp-ack"}
    <3>1. e_net'.ip = e_net.ip /\ e_net'.since = e_net.since /\ e_net'.ack = e_net.ack
      BY <1>1, <2>3 DEF HandleFrame, HandleArp, HandleDns, HandleIcmp, HandleTcp, LeaseInv
    <3> QED BY <1>1, <3>1 DEF AddressLeased, LeaseInv
  <2> QED BY <2>1, <2>2, <2>3
<1>8. (\A f \in e_wire : FromLessor(f))'
  BY <1>1 DEF LeaseInv, FromLessor
<1> QED BY <1>4, <1>5, <1>6, <1>7, <1>8, TakenKeepsFrames
        DEF LeaseInv, LeasesStay, BuffersTaken, WaitStays

(* A server that answers a request has leased the address by then.         *)
LEMMA DeviceTransmitKeepsLease ==
    ASSUME LeaseInv, NEW a, DeviceTransmit(a)
    PROVE  LeaseInv'
<1>1. /\ e_net' = e_net /\ e_rx' = e_rx
      /\ e_tx' = [e_tx EXCEPT !.owed = @ - 1, !.used = TRUE]
      /\ e_wire' = e_wire \union NetAnswers(e_tx.frame, a)
  BY DEF DeviceTransmit
<1>2. "waits" \in DOMAIN e_tx' /\ e_tx'.waits = e_tx.waits
  BY <1>1 DEF LeaseInv
<1>3. /\ "leases" \in DOMAIN e_truth'
      /\ e_truth.leases \subseteq e_truth'.leases
      /\ e_tx.frame.kind = "request" => e_tx.frame.server \in e_truth'.leases
  BY DEF DeviceTransmit, LeaseInv
<1>4. ASSUME NEW frame \in NetAnswers(e_tx.frame, a), frame.kind = "dhcp-ack"
      PROVE  e_tx.frame.kind = "request" /\ frame.server = e_tx.frame.server
  BY <1>4 DEF NetAnswers
<1>5. (\A frame \in e_wire : FromLessor(frame))'
  BY <1>1, <1>3, <1>4 DEF LeaseInv, FromLessor
<1>6. (\A i \in 1 .. Len(e_rx.used) : FromLessor(e_rx.used[i].frame))'
  BY <1>1, <1>3 DEF LeaseInv, FromLessor
<1>7. AddressLeased'
  BY <1>1, <1>3 DEF LeaseInv, AddressLeased
<1> QED BY <1>1, <1>2, <1>3, <1>5, <1>6, <1>7 DEF LeaseInv

(* A frame of the wire, or an empty one, is put into a buffer.             *)
LEMMA ArrivalKeepsLease ==
    ASSUME LeaseInv, NEW buffer, FromLessor(buffer.frame), "used" \in DOMAIN e_rx',
           e_rx'.used = Append(e_rx.used, buffer),
           e_wire' \subseteq e_wire, UNCHANGED <<e_net, e_tx, e_truth>>
    PROVE  LeaseInv'
<1>1. IsRing(e_rx'.used)
  BY RingAppend DEF LeaseInv
<1>2. PICK S : e_rx.used \in Seq(S)
  BY DEF LeaseInv, IsRing
<1>3. e_rx.used \in Seq(S \union {buffer})
  BY <1>2
<1>4. PICK used \in Seq(S \union {buffer}) : used = e_rx.used
  BY <1>3
<1>5. /\ \A i \in 1 .. Len(Append(used, buffer)) :
            Append(used, buffer)[i] = buffer \/ (i \in 1 .. Len(used) /\ Append(used, buffer)[i] = used[i])
      /\ Append(used, buffer) # << >>
  OBVIOUS
<1>6. /\ \A i \in 1 .. Len(e_rx'.used) :
            e_rx'.used[i] = buffer \/ (i \in 1 .. Len(e_rx.used) /\ e_rx'.used[i] = e_rx.used[i])
      /\ e_rx'.used # << >>
  BY <1>4, <1>5
<1>7. (\A i \in 1 .. Len(e_rx.used) : FromLessor(e_rx.used[i].frame))'
  BY <1>6 DEF LeaseInv, FromLessor
<1>8. AddressLeased'
  BY DEF LeaseInv, AddressLeased
<1>9. (\A frame \in e_wire : FromLessor(frame))'
  BY DEF LeaseInv, FromLessor
<1> QED BY <1>1, <1>6, <1>7, <1>8, <1>9 DEF LeaseInv

(* What the network delivers to a buffer was on the wire.                  *)
LEMMA NetworkKeepsLease ==
    ASSUME LeaseInv,
           \/ \E frame \in e_wire, stays \in BOOLEAN : Deliver(frame, stays)
           \/ DeliverRunt \/ ClientCalls
    PROVE  LeaseInv'
<1>1. CASE \E frame \in e_wire, stays \in BOOLEAN : Deliver(frame, stays)
  <2>1. PICK frame \in e_wire, stays \in BOOLEAN : Deliver(frame, stays)
    BY <1>1
  <2>2. PICK buffer : buffer = [id |-> Head(e_rx.avail), frame |-> frame]
    OBVIOUS
  <2>3. /\ "used" \in DOMAIN e_rx' /\ e_rx'.used = Append(e_rx.used, buffer)
        /\ e_wire' \subseteq e_wire /\ UNCHANGED <<e_net, e_tx, e_truth>>
    BY <2>1, <2>2 DEF Deliver
  <2>4. FromLessor(buffer.frame)
    BY <2>2 DEF LeaseInv
  <2> QED BY <2>3, <2>4, ArrivalKeepsLease
<1>2. CASE DeliverRunt
  <2>1. PICK buffer : buffer = [id |-> Head(e_rx.avail), frame |-> [kind |-> "runt"]]
    OBVIOUS
  <2>2. /\ "used" \in DOMAIN e_rx' /\ e_rx'.used = Append(e_rx.used, buffer)
        /\ e_wire' \subseteq e_wire /\ UNCHANGED <<e_net, e_tx, e_truth>>
    BY <1>2, <2>1 DEF DeliverRunt
  <2>3. FromLessor(buffer.frame)
    BY <2>1 DEF FromLessor
  <2> QED BY <2>2, <2>3, ArrivalKeepsLease
<1>3. CASE ClientCalls
  <2>1. /\ UNCHANGED <<e_net, e_rx, e_tx>>
        /\ e_wire' = e_wire \union {[kind |-> k, to |-> e_net.ip] : k \in {"client-syn", "client-get"}}
        /\ e_truth' = [e_truth EXCEPT !.clients = 1]
    BY <1>3 DEF ClientCalls
  <2>2. \A frame \in e_wire' : FromLessor(frame)
    BY <2>1 DEF LeaseInv, FromLessor
  <2>3. AddressStays /\ LeasesStay /\ BuffersTaken /\ WaitStays
    BY <2>1 DEF AddressStays, LeasesStay, BuffersTaken, WaitStays, LeaseInv
  <2> QED BY <2>2, <2>3, QuietStepKeepsLease
<1> QED BY <1>1, <1>2, <1>3

(* Every step of the driver, the device and the network                    *)
LEMMA NetStepKeepsLease ==
    ASSUME LeaseInv, [NetNext]_netVars
    PROVE  LeaseInv'
<1>1. CASE NetNext
  BY <1>1, CallStepsKeepLease, PollFrameKeepsLease, DeviceTransmitKeepsLease, NetworkKeepsLease
  DEF NetNext
<1>2. CASE UNCHANGED netVars
  BY <1>2 DEF netVars, LeaseInv, FromLessor, AddressLeased
<1> QED BY <1>1, <1>2

(* Once virtio_net.c has seen an acknowledgement, the address in use is    *)
(* one that a server has leased to this machine or has offered since: for  *)
(* any number of servers, with frames lost, late, repeated and reordered.  *)
THEOREM AddressCorrect == DevicesSpec => []AddressLeased
<1>1. DevicesInit => LeaseInv
  BY LeaseInitInv DEF DevicesInit
<1>2. LeaseInv /\ [DevicesNext]_deviceVars => LeaseInv'
  BY StepIsOfOneDevice, NetStepKeepsLease
<1>3. LeaseInv => AddressLeased
  BY DEF LeaseInv
<1> QED BY <1>1, <1>2, <1>3, PTL DEF DevicesSpec, deviceVars

-----------------------------------------------------------------------------
(* Network: the answers to HTTP requests                                   *)

(* A number is its quotient and its remainder.                             *)
LEMMA Division ==
    ASSUME NEW p \in Nat \ {0}, NEW a \in Nat
    PROVE  \E q \in Nat : \E r \in 0 .. p - 1 : a = p * q + r
<1>1. a \div p \in Nat /\ a % p \in 0 .. p - 1
  OBVIOUS
<1>2. a = p * (a \div p) + (a % p)
  OBVIOUS
<1> QED BY <1>1, <1>2

(* And only one remainder there is.                                        *)
LEMMA Remainder ==
    ASSUME NEW p \in Nat \ {0}, NEW q \in Nat, NEW r \in 0 .. p - 1
    PROVE  (p * q + r) % p = r
  OBVIOUS

(* Ports are counted round: the next port is that of the next number.      *)
LEMMA NextPort ==
    ASSUME NEW p \in Nat \ {0}, NEW a \in Nat
    PROVE  ((a % p) + 1) % p = (a + 1) % p
<1>1. PICK q \in Nat, r \in 0 .. p - 1 : a = p * q + r
  BY Division
<1>2. a % p = r
  BY <1>1, Remainder
<1>3. CASE r + 1 < p
  <2>1. r + 1 \in 0 .. p - 1 /\ a + 1 = p * q + (r + 1)
    BY <1>1, <1>3
  <2>2. (a + 1) % p = r + 1
    BY <2>1, Remainder
  <2> QED BY <1>2, <2>1, <2>2
<1>4. CASE r + 1 = p
  <2>1. a + 1 = p * (q + 1) + 0 /\ q + 1 \in Nat /\ 0 \in 0 .. p - 1
    BY <1>1, <1>4
  <2>2. (a + 1) % p = 0
    BY <2>1, Remainder
  <2>3. p % p = 0
    OBVIOUS
  <2> QED BY <1>2, <1>4, <2>2, <2>3
<1> QED BY <1>3, <1>4

(* Two numbers with the same port are whole rounds apart.                  *)
LEMMA SamePort ==
    ASSUME NEW p \in Nat \ {0}, NEW a \in Nat, NEW b \in Nat, b <= a, a % p = b % p
    PROVE  (a - b) % p = 0
<1>1. PICK q \in Nat, r \in 0 .. p - 1 : a = p * q + r
  BY Division
<1>2. PICK s \in Nat, t \in 0 .. p - 1 : b = p * s + t
  BY Division
<1>3. a % p = r
  BY <1>1, Remainder
<1>4. b % p = t
  BY <1>2, Remainder
<1>5. s <= q
  <2>1. p * s <= p * q
    BY <1>1, <1>2, <1>3, <1>4
  <2> QED BY <2>1
<1>6. PICK k \in Nat : k = q - s
  BY <1>5
<1>7. a - b = p * k + 0 /\ 0 \in 0 .. p - 1
  BY <1>1, <1>2, <1>3, <1>4, <1>6
<1> QED BY <1>7, Remainder

(* The source port of the connection with this number                      *)
PortOf(number) == (number - 1) % PortCount

(* A segment, of ours or of a server, is of one of the n connections there *)
(* have been and bears its port.                                           *)
Numbered(frame, n) ==
    frame.kind \in {"syn", "get", "syn-ack", "data"} =>
        frame.conn \in 1 .. n /\ frame.port = PortOf(frame.conn)

ConnSteps == {"syn", "ack", "get"}
GetSteps == {"route", "arp", "open", "syn", "ack", "get"}
CallFields == {"op", "phase", "step", "at", "target", "mac", "conn"}
ConnFields == {"active", "port", "syn_ack", "response", "data", "number"}

(* The connection in the table is the newest one and belongs to the call;  *)
(* what it has received was sent to its port.                              *)
TableSound(conns, mine, n) ==
    /\ DOMAIN conns = 1 .. TcpConnections
    /\ \A c \in 1 .. TcpConnections : ConnFields \subseteq DOMAIN conns[c]
    /\ \A c \in 1 .. TcpConnections : conns[c].active =>
          /\ mine = c /\ n # 0 /\ conns[c].number = n /\ conns[c].port = PortOf(n)
          /\ conns[c].response =>
                conns[c].data.conn \in 1 .. n /\ PortOf(conns[c].data.conn) = conns[c].port

(* A call has a connection exactly in the steps that use it.               *)
CallSound(call, conns) ==
    /\ CallFields \subseteq DOMAIN call
    /\ call.conn # 0 <=> call.step \in ConnSteps
    /\ call.conn # 0 => call.conn \in 1 .. TcpConnections /\ conns[call.conn].active
    /\ call.op = "wget" => call.step \in GetSteps /\ call.phase = "get"

HeldFrames == {e_rx.used[i].frame : i \in 1 .. Len(e_rx.used)}

(* Frames on the wire, in buffers and in tx_frame                          *)
FramesNumbered ==
    /\ "frame" \in DOMAIN e_tx
    /\ \A frame \in e_wire : Numbered(frame, e_truth.conns)
    /\ \A frame \in HeldFrames : Numbered(frame, e_truth.conns)
    /\ Numbered(e_tx.frame, e_truth.conns)

(* What is true of requests after every step: the ports have been given in *)
(* order, the connections and the call fit, and the property.              *)
RequestsSound ==
    /\ "conns" \in DOMAIN e_truth /\ e_truth.conns \in Nat
    /\ e_port = e_truth.conns % PortCount
    /\ TableSound(e_conns, e_call.conn, e_truth.conns)
    /\ CallSound(e_call, e_conns)
    /\ GetsOwnAnswer

(* A call sends and waits only in the steps that do.                       *)
NetWaitSteps == {"probe", "discover", "request", "arp", "echo", "query", "syn", "ack", "get", "serve"}
WaitSound ==
    /\ e_call.at = "send" => e_call.step \in NetWaitSteps \union {"route", "open"}
    /\ e_call.at \in {"wait", "poll"} => e_call.step \in NetWaitSteps
    /\ e_tx.waits = "step" => e_call.at = "send" /\ e_call.step \in NetWaitSteps

RequestInv == RequestsSound /\ WaitSound /\ FramesNumbered

(* At the start there is no connection and no segment.                     *)
LEMMA RequestInitInv == NetInit => RequestInv
<1> SUFFICES ASSUME NetInit PROVE RequestInv
  OBVIOUS
<1>1. /\ e_port = 0 /\ e_wire = {}
      /\ "conns" \in DOMAIN e_truth /\ e_truth.conns = 0
      /\ "frame" \in DOMAIN e_tx /\ e_tx.frame.kind = "none"
      /\ e_rx.used = << >> /\ e_answer.op = "none"
  BY DEF NetInit, NoFrame
<1>2. /\ CallFields \subseteq DOMAIN e_call
      /\ e_call.conn = 0 /\ e_call.step = "probe" /\ e_call.op = "test"
  BY DEF NetInit, NoNetCall, CallFields
<1>3. /\ DOMAIN e_conns = 1 .. TcpConnections
      /\ \A c \in 1 .. TcpConnections : ConnFields \subseteq DOMAIN e_conns[c] /\ ~e_conns[c].active
  BY DEF NetInit, ConnFields
<1>4. 0 % PortCount = 0
  BY NetAssumption
<1>5. HeldFrames = {}
  <2>1. Len(e_rx.used) = 0
    BY <1>1
  <2> QED BY <2>1 DEF HeldFrames
<1>6. TableSound(e_conns, e_call.conn, e_truth.conns)
  BY <1>3 DEF TableSound
<1>7. CallSound(e_call, e_conns)
  BY <1>2 DEF CallSound, ConnSteps
<1>8. FramesNumbered
  BY <1>1, <1>5 DEF FramesNumbered, Numbered
<1>9. WaitSound
  BY DEF NetInit, WaitSound, NetWaitSteps, NoNetCall
<1> QED BY <1>1, <1>4, <1>6, <1>7, <1>8, <1>9 DEF RequestInv, RequestsSound, GetsOwnAnswer

(* A frame of a connection there has been is one when there are more.      *)
LEMMA StillNumbered ==
    ASSUME NEW frame, NEW n \in Nat, NEW m \in Nat, n <= m, Numbered(frame, n)
    PROVE  Numbered(frame, m)
  BY DEF Numbered

(* Frames in buffers after buffers have been taken                         *)
LEMMA HeldTaken ==
    ASSUME LeaseInv, BuffersTaken
    PROVE  HeldFrames' \subseteq HeldFrames
<1>1. CASE e_rx'.used = e_rx.used
  BY <1>1 DEF HeldFrames
<1>2. CASE e_rx.used # << >> /\ e_rx'.used = Tail(e_rx.used)
  <2>1. Len(e_rx.used) \in Nat /\ Len(e_rx'.used) = Len(e_rx.used) - 1
    BY <1>2, RingTail DEF LeaseInv
  <2>2. PICK S : e_rx.used \in Seq(S)
    BY DEF LeaseInv, IsRing
  <2>3. \A i \in 1 .. Len(e_rx'.used) : e_rx'.used[i] = e_rx.used[i + 1] /\ i + 1 \in 1 .. Len(e_rx.used)
    BY <1>2, <2>1, <2>2
  <2> QED BY <2>3 DEF HeldFrames
<1> QED BY <1>1, <1>2 DEF BuffersTaken

(* and after one has been filled                                           *)
LEMMA HeldArrived ==
    ASSUME LeaseInv, NEW buffer, e_rx'.used = Append(e_rx.used, buffer)
    PROVE  HeldFrames' \subseteq HeldFrames \union {buffer.frame}
<1>1. PICK S : e_rx.used \in Seq(S)
  BY DEF LeaseInv, IsRing
<1>2. e_rx.used \in Seq(S \union {buffer})
  BY <1>1
<1>3. PICK used \in Seq(S \union {buffer}) : used = e_rx.used
  BY <1>2
<1>4. \A i \in 1 .. Len(Append(used, buffer)) :
         Append(used, buffer)[i] = buffer \/ (i \in 1 .. Len(used) /\ Append(used, buffer)[i] = used[i])
  OBVIOUS
<1>5. \A i \in 1 .. Len(e_rx'.used) :
         e_rx'.used[i] = buffer \/ (i \in 1 .. Len(e_rx.used) /\ e_rx'.used[i] = e_rx.used[i])
  BY <1>3, <1>4
<1> QED BY <1>5 DEF HeldFrames

(* A step that brings only frames of connections there have been           *)
LEMMA FramesKept ==
    ASSUME RequestInv, e_truth'.conns \in Nat, e_truth.conns <= e_truth'.conns,
           "frame" \in DOMAIN e_tx',
           e_tx'.frame = e_tx.frame \/ Numbered(e_tx'.frame, e_truth.conns),
           \A frame \in e_wire' : frame \in e_wire \/ Numbered(frame, e_truth.conns),
           \A frame \in HeldFrames' : \/ frame \in HeldFrames \/ frame \in e_wire
                                      \/ Numbered(frame, e_truth.conns)
    PROVE  FramesNumbered'
<1>1. \A frame : Numbered(frame, e_truth.conns) => Numbered(frame, e_truth'.conns)
  BY StillNumbered DEF RequestInv, RequestsSound
<1>2. /\ \A frame \in e_wire' : Numbered(frame, e_truth.conns)
      /\ \A frame \in HeldFrames' : Numbered(frame, e_truth.conns)
      /\ Numbered(e_tx'.frame, e_truth.conns)
  BY DEF RequestInv, FramesNumbered
<1>3. /\ \A frame \in e_wire' : Numbered(frame, e_truth'.conns)
      /\ \A frame \in HeldFrames' : Numbered(frame, e_truth'.conns)
      /\ Numbered(e_tx'.frame, e_truth'.conns)
  BY <1>1, <1>2
<1> QED BY <1>3 DEF FramesNumbered

(* A step that leaves the connections and the answer alone                 *)
ConnectionsStay ==
    /\ e_conns' = e_conns /\ e_port' = e_port /\ e_answer' = e_answer
    /\ "conns" \in DOMAIN e_truth' /\ e_truth'.conns = e_truth.conns

(* keeps what is true of requests, if the call is one there may be.        *)
LEMMA QuietCallKeepsRequests ==
    ASSUME RequestsSound, ConnectionsStay, e_call'.conn = e_call.conn, CallSound(e_call', e_conns)
    PROVE  RequestsSound'
  BY DEF RequestsSound, ConnectionsStay, GetsOwnAnswer

(* The call moves within the steps that have no connection, or within      *)
(* those that have one.                                                    *)
LEMMA CallMoves ==
    ASSUME RequestsSound, CallFields \subseteq DOMAIN e_call',
           e_call'.conn = e_call.conn, e_call'.op = e_call.op,
           e_call'.step \in ConnSteps <=> e_call.step \in ConnSteps,
           e_call.op = "wget" => e_call'.step \in GetSteps /\ e_call'.phase = "get"
    PROVE  CallSound(e_call', e_conns)
  BY DEF RequestsSound, CallSound

(* The end of a call, with its connection released: an HTTP request that   *)
(* ends well has an answer of its own port.                                *)
LEMMA ReturnKeepsRequests ==
    ASSUME RequestsSound, NEW ok, NEW data, Return(ok, data),
           e_conns' = IF e_call.conn # 0 THEN Release(e_call.conn) ELSE e_conns,
           e_port' = e_port, e_truth' = e_truth,
           e_call.op = "wget" /\ ok => /\ e_call.conn # 0 /\ e_conns[e_call.conn].response
                                       /\ data = e_conns[e_call.conn].data
    PROVE  RequestsSound'
<1>1. e_call' = NoNetCall
  BY DEF Return
<1>2. /\ CallFields \subseteq DOMAIN e_call'
      /\ e_call'.conn = 0 /\ e_call'.step = "none" /\ e_call'.op = "none"
  BY <1>1 DEF NoNetCall, CallFields
<1>3. CallSound(e_call', e_conns')
  BY <1>2 DEF CallSound, ConnSteps
<1>4. /\ DOMAIN e_conns' = 1 .. TcpConnections
      /\ \A c \in 1 .. TcpConnections : ConnFields \subseteq DOMAIN e_conns'[c] /\ ~e_conns'[c].active
  <2>1. CASE e_call.conn = 0
    BY <2>1 DEF RequestsSound, TableSound
  <2>2. CASE e_call.conn # 0
    <3>1. PICK k \in 1 .. TcpConnections : k = e_call.conn
      BY <2>2 DEF RequestsSound, CallSound
    <3>2. e_conns' = [e_conns EXCEPT ![k].active = FALSE]
      BY <2>2, <3>1 DEF Release
    <3>3. DOMAIN e_conns = 1 .. TcpConnections /\ "active" \in DOMAIN e_conns[k]
      BY DEF RequestsSound, TableSound, ConnFields
    <3>4. DOMAIN e_conns' = 1 .. TcpConnections /\ DOMAIN e_conns'[k] = DOMAIN e_conns[k]
          /\ e_conns'[k].active = FALSE
          /\ \A c \in 1 .. TcpConnections : c # k => e_conns'[c] = e_conns[c]
      <4>1. DOMAIN e_conns' = 1 .. TcpConnections
        BY <3>2, <3>3
      <4>2. e_conns'[k] = [e_conns[k] EXCEPT !.active = FALSE]
        BY <3>2, <3>3
      <4>3. DOMAIN e_conns'[k] = DOMAIN e_conns[k] /\ e_conns'[k].active = FALSE
        BY <3>3, <4>2
      <4>4. \A c \in 1 .. TcpConnections : c # k => e_conns'[c] = e_conns[c]
        BY <3>2, <3>3
      <4> QED BY <4>1, <4>3, <4>4
    <3> QED BY <3>1, <3>4 DEF RequestsSound, TableSound
  <2> QED BY <2>1, <2>2
<1>5. TableSound(e_conns', e_call'.conn, e_truth'.conns)
  BY <1>4 DEF TableSound
<1>6. GetsOwnAnswer'
  <2>1. CASE e_call.op = "wget" /\ ok
    <3>1. PICK k \in 1 .. TcpConnections : k = e_call.conn /\ e_conns[k].active
      BY <2>1 DEF RequestsSound, CallSound
    <3>2. PICK n \in Nat : n = e_truth.conns
      BY DEF RequestsSound
    <3>3. /\ n # 0 /\ e_conns[k].number = n
          /\ data.conn \in 1 .. n /\ PortOf(data.conn) = PortOf(n)
      BY <2>1, <3>1, <3>2 DEF RequestsSound, TableSound
    <3>4. e_answer'.number = n /\ e_answer'.data = data
      BY <2>1, <3>1, <3>3 DEF Return
    <3>5. PICK a \in Nat, b \in Nat : /\ a = n - 1 /\ b = data.conn - 1 /\ b <= a
                                     /\ a - b = n - data.conn
      BY <3>3
    <3>6. (n - data.conn) % PortCount = 0
      <4>1. a % PortCount = b % PortCount /\ PortCount \in Nat \ {0}
        BY <3>3, <3>5, NetAssumption DEF PortOf
      <4>2. (a - b) % PortCount = 0
        BY <3>5, <4>1, SamePort
      <4> QED BY <3>5, <4>2
    <3>7. data # NoData
      BY <3>3 DEF NoData
    <3> QED BY <3>3, <3>4, <3>6, <3>7 DEF GetsOwnAnswer
  <2>2. CASE ~(e_call.op = "wget" /\ ok)
    <3>1. e_answer'.op # "wget"
      BY <2>2 DEF Return
    <3> QED BY <3>1 DEF GetsOwnAnswer
  <2> QED BY <2>1, <2>2
<1> QED BY <1>3, <1>5, <1>6 DEF RequestsSound

(* A step that fails                                                       *)
LEMMA FailKeepsRequests ==
    ASSUME RequestsSound, FailCall, e_port' = e_port, e_truth' = e_truth
    PROVE  RequestsSound'
  BY ReturnKeepsRequests DEF FailCall

(* A call begins.                                                          *)
LEMMA BeginKeepsRequests ==
    ASSUME RequestsSound,
           \/ \E target \in Lan \union {Web} : Ping(target)
           \/ Wget \/ HttpServerOnce
    PROVE  RequestsSound'
<1>1. ConnectionsStay
  BY DEF Ping, Wget, HttpServerOnce, BeginCall, ConnectionsStay, RequestsSound
<1>2. e_call.conn = 0
  BY DEF Ping, Wget, HttpServerOnce, BeginCall, NetIdle, NoNetCall
<1>3. /\ CallFields \subseteq DOMAIN e_call' /\ e_call'.conn = 0
      /\ e_call'.step \in {"arp", "route", "serve"}
      /\ e_call'.op = "wget" => e_call'.step = "route" /\ e_call'.phase = "get"
  <2>1. CASE \E target \in Lan \union {Web} : Ping(target)
    <3>1. PICK target : e_call' = [NoNetCall EXCEPT !.op = "ping", !.phase = "ping", !.step = "arp",
                                                    !.at = "send", !.target = target]
      BY <2>1 DEF Ping, BeginCall
    <3> QED BY <3>1 DEF NoNetCall, CallFields
  <2>2. CASE Wget
    <3>1. e_call' = [NoNetCall EXCEPT !.op = "wget", !.phase = "get", !.step = "route",
                                      !.at = "send", !.target = e_net.dns_a]
      BY <2>2 DEF Wget, BeginCall
    <3> QED BY <3>1 DEF NoNetCall, CallFields
  <2>3. CASE HttpServerOnce
    <3>1. e_call' = [NoNetCall EXCEPT !.op = "serve", !.phase = "serve", !.step = "serve", !.at = "wait"]
      BY <2>3 DEF HttpServerOnce, BeginCall
    <3> QED BY <3>1 DEF NoNetCall, CallFields
  <2> QED BY <2>1, <2>2, <2>3
<1>4. CallSound(e_call', e_conns)
  BY <1>3 DEF CallSound, ConnSteps, GetSteps
<1> QED BY <1>1, <1>2, <1>3, <1>4, QuietCallKeepsRequests

(* A connection is opened: the table was empty, and the connection is the  *)
(* newest, on the port after the one before.                               *)
LEMMA OpenKeepsRequests ==
    ASSUME RequestsSound, OpenConnection
    PROVE  RequestsSound'
<1>1. CASE FreeConnections = {}
  BY <1>1, FailKeepsRequests DEF OpenConnection
<1>2. CASE FreeConnections # {}
  <2>1. PICK k : k = FirstFree
    OBVIOUS
  <2>2. PICK n \in Nat : n = e_truth.conns
    BY DEF RequestsSound
  <2>3. PICK x : x = [active |-> TRUE, port |-> e_port, syn_ack |-> FALSE, response |-> FALSE,
                      data |-> NoData, number |-> n + 1]
    OBVIOUS
  <2>4. /\ e_conns' = [e_conns EXCEPT ![k] = x]
        /\ e_port' = (e_port + 1) % PortCount
        /\ e_truth' = [e_truth EXCEPT !.conns = n + 1]
        /\ e_call' = [e_call EXCEPT !.step = "syn", !.conn = k]
        /\ e_answer' = e_answer /\ e_call.step = "open"
    BY <1>2, <2>1, <2>2, <2>3 DEF OpenConnection, TcpConnectionAllocate
  <2>5. k \in 1 .. TcpConnections
    <3>1. FreeConnections \subseteq Nat
      BY DEF FreeConnections
    <3>2. \E c \in FreeConnections : \A d \in FreeConnections : c <= d
      BY <1>2, <3>1, LeastNumber
    <3> QED BY <2>1, <3>2 DEF FirstFree, FreeConnections
  <2>6. "conns" \in DOMAIN e_truth' /\ e_truth'.conns = n + 1
    BY <2>4 DEF RequestsSound
  <2>7. e_port' = e_truth'.conns % PortCount
    BY <2>2, <2>4, <2>6, NextPort, NetAssumption DEF RequestsSound
  <2>8. /\ CallFields \subseteq DOMAIN e_call' /\ e_call'.conn = k /\ e_call'.step = "syn"
        /\ e_call'.op = e_call.op /\ e_call'.phase = e_call.phase
    BY <2>4 DEF RequestsSound, CallSound, CallFields
  <2>9. /\ DOMAIN e_conns' = 1 .. TcpConnections /\ e_conns'[k] = x
        /\ \A c \in 1 .. TcpConnections : c # k => e_conns'[c] = e_conns[c]
    BY <2>4, <2>5 DEF RequestsSound, TableSound
  <2>10. \A c \in 1 .. TcpConnections : ~e_conns[c].active
    BY <2>4 DEF RequestsSound, TableSound, CallSound, ConnSteps
  <2>11. /\ ConnFields \subseteq DOMAIN x /\ x.active /\ ~x.response
         /\ x.port = e_port /\ x.number = n + 1
    BY <2>3 DEF ConnFields
  <2>12. e_port = PortOf(n + 1) /\ n + 1 # 0
    BY <2>2 DEF RequestsSound, PortOf
  <2>13. \A c \in 1 .. TcpConnections :
            ConnFields \subseteq DOMAIN e_conns'[c] /\ (e_conns'[c].active => c = k)
    BY <2>9, <2>10, <2>11 DEF RequestsSound, TableSound
  <2>14. TableSound(e_conns', e_call'.conn, e_truth'.conns)
    BY <2>6, <2>8, <2>9, <2>11, <2>12, <2>13 DEF TableSound
  <2>15. CallSound(e_call', e_conns')
    <3>1. k # 0
      BY <2>5
    <3> QED BY <2>5, <2>8, <2>9, <2>11, <3>1 DEF RequestsSound, CallSound, ConnSteps, GetSteps
  <2>16. GetsOwnAnswer'
    BY <2>4 DEF RequestsSound, GetsOwnAnswer
  <2> QED BY <2>6, <2>7, <2>14, <2>15, <2>16 DEF RequestsSound
<1> QED BY <1>1, <1>2

(* The steps of a call that neither open nor receive                       *)
LEMMA CallStepsKeepRequests ==
    ASSUME RequestsSound, WaitSound, RouteGet \/ GoOn \/ WaitTimeout \/ ServeEnd
    PROVE  RequestsSound'
<1>1. e_port' = e_port /\ e_truth' = e_truth
  BY DEF RouteGet, GoOn, WaitTimeout, ServeEnd
<1>2. ASSUME e_conns' = e_conns, e_answer' = e_answer, CallFields \subseteq DOMAIN e_call',
             e_call'.conn = e_call.conn, e_call'.op = e_call.op,
             e_call'.step \in ConnSteps <=> e_call.step \in ConnSteps,
             e_call.op = "wget" => e_call'.step \in GetSteps /\ e_call'.phase = "get"
      PROVE  RequestsSound'
  <2>1. ConnectionsStay
    BY <1>1, <1>2 DEF ConnectionsStay, RequestsSound
  <2>2. CallSound(e_call', e_conns)
    BY <1>2, CallMoves
  <2> QED BY <1>2, <2>1, <2>2, QuietCallKeepsRequests
<1>3. CallFields \subseteq DOMAIN e_call /\ {"step", "phase", "at", "target", "mac"} \subseteq DOMAIN e_call
  BY DEF RequestsSound, CallSound, CallFields
<1>4. ASSUME e_call.step \notin ConnSteps, e_call.op # "wget", e_conns' = e_conns,
             NEW ok, Return(ok, NoData)
      PROVE  RequestsSound'
  <2>1. e_call.conn = 0
    BY <1>4 DEF RequestsSound, CallSound
  <2> QED BY <1>1, <1>4, <2>1, ReturnKeepsRequests
<1>5. CASE RouteGet
  <2>1. CASE FailCall
    BY <1>1, <2>1, FailKeepsRequests
  <2>2. CASE ~FailCall
    <3>1. /\ e_conns' = e_conns /\ e_answer' = e_answer /\ e_call.step = "route"
          /\ \/ e_call' = [e_call EXCEPT !.step = "arp"]
             \/ e_call' = [e_call EXCEPT !.step = "open", !.mac = e_net.gateway_mac]
      BY <1>5, <2>2 DEF RouteGet
    <3>2. /\ CallFields \subseteq DOMAIN e_call' /\ e_call'.conn = e_call.conn
          /\ e_call'.op = e_call.op /\ e_call'.phase = e_call.phase
          /\ e_call'.step \in {"arp", "open"}
      BY <1>3, <3>1 DEF CallFields
    <3> QED BY <1>2, <3>1, <3>2 DEF ConnSteps, GetSteps, RequestsSound, CallSound
  <2> QED BY <2>1, <2>2
<1>6. ASSUME EndPing, e_call.step = "echo", e_conns' = e_conns PROVE RequestsSound'
  <2>1. e_call.op # "wget" /\ e_call.step \notin ConnSteps
    BY <1>6 DEF RequestsSound, CallSound, GetSteps, ConnSteps
  <2>2. CASE e_call.op = "test"
    <3>1. /\ e_call' = [e_call EXCEPT !.phase = "dns", !.step = "arp", !.at = "send", !.target = "dns"]
          /\ e_answer' = e_answer
      BY <1>6, <2>2 DEF EndPing
    <3>2. /\ CallFields \subseteq DOMAIN e_call' /\ e_call'.conn = e_call.conn
          /\ e_call'.op = e_call.op /\ e_call'.step = "arp"
      BY <1>3, <3>1 DEF CallFields
    <3> QED BY <1>2, <1>6, <2>1, <3>1, <3>2 DEF ConnSteps
  <2>3. CASE e_call.op # "test"
    BY <1>4, <1>6, <2>1, <2>3 DEF EndPing
  <2> QED BY <2>2, <2>3
<1>7. ASSUME EndDns, e_call.step = "query", e_conns' = e_conns PROVE RequestsSound'
  <2>1. e_call.op # "wget" /\ e_call.step \notin ConnSteps
    BY <1>7 DEF RequestsSound, CallSound, GetSteps, ConnSteps
  <2>2. CASE e_net.dns_a # "none"
    <3>1. /\ e_call' = [e_call EXCEPT !.phase = "get", !.step = "route", !.at = "send",
                                      !.target = e_net.dns_a]
          /\ e_answer' = e_answer
      BY <1>7, <2>2 DEF EndDns
    <3>2. /\ CallFields \subseteq DOMAIN e_call' /\ e_call'.conn = e_call.conn
          /\ e_call'.op = e_call.op /\ e_call'.step = "route"
      BY <1>3, <3>1 DEF CallFields
    <3> QED BY <1>2, <1>7, <2>1, <3>1, <3>2 DEF ConnSteps
  <2>3. CASE e_net.dns_a = "none"
    BY <1>4, <1>7, <2>1, <2>3 DEF EndDns
  <2> QED BY <2>2, <2>3
<1>8. CASE WaitTimeout
  <2>1. CASE e_call.step = "query"
    BY <1>7, <1>8, <2>1 DEF WaitTimeout
  <2>2. CASE e_call.step # "query"
    BY <1>1, <1>8, <2>2, FailKeepsRequests DEF WaitTimeout
  <2> QED BY <2>1, <2>2
<1>9. CASE ServeEnd
  <2>1. e_call.op # "wget" /\ e_call.step \notin ConnSteps
    BY <1>9 DEF ServeEnd, RequestsSound, CallSound, GetSteps, ConnSteps
  <2> QED BY <1>4, <1>9, <2>1 DEF ServeEnd
<1>10. CASE GoOn
  <2>1. CASE e_call.step \in {"echo", "query"}
    BY <1>6, <1>7, <1>10, <2>1 DEF GoOn
  <2>2. CASE e_call.step = "get"
    <3>1. e_call.conn # 0 /\ e_conns[e_call.conn].response
      BY <1>10, <2>2 DEF GoOn, Flag, RequestsSound, CallSound, ConnSteps
    <3>2. Return(TRUE, e_conns[e_call.conn].data) /\ e_conns' = Release(e_call.conn)
      BY <1>10, <2>2 DEF GoOn
    <3> QED BY <1>1, <3>1, <3>2, ReturnKeepsRequests
  <2>3. CASE e_call.step \notin {"echo", "query", "get"}
    <3>1. e_conns' = e_conns /\ e_answer' = e_answer
      BY <1>10, <2>3 DEF GoOn
    <3>2. CASE e_call.step \in {"probe", "discover", "request"}
      <4>1. e_call.op # "wget"
        BY <3>2 DEF RequestsSound, CallSound, GetSteps
      <4>2. /\ CallFields \subseteq DOMAIN e_call' /\ e_call'.conn = e_call.conn
            /\ e_call'.op = e_call.op /\ e_call'.step \in {"discover", "request", "arp"}
        BY <1>3, <1>10, <3>2 DEF GoOn, Goes, CallFields
      <4> QED BY <1>2, <3>1, <3>2, <4>1, <4>2 DEF ConnSteps
    <3>3. CASE e_call.step = "arp"
      <4>1. PICK step : step = AfterArp
        OBVIOUS
      <4>2. step \in {"echo", "query", "open"} /\ (e_call.phase = "get" => step = "open")
        BY <4>1 DEF AfterArp
      <4>3. e_call' = [e_call EXCEPT !.step = step, !.at = "send", !.target = e_call.target,
                                     !.mac = e_pending.mac]
        BY <1>10, <3>3, <4>1 DEF GoOn, Goes
      <4>4. /\ CallFields \subseteq DOMAIN e_call' /\ e_call'.conn = e_call.conn
            /\ e_call'.op = e_call.op /\ e_call'.step = step /\ e_call'.phase = e_call.phase
        BY <1>3, <4>3 DEF CallFields
      <4> QED BY <1>2, <3>1, <3>3, <4>2, <4>4 DEF ConnSteps, GetSteps, RequestsSound, CallSound
    <3>4. CASE e_call.step \in {"syn", "ack"}
      <4>1. /\ CallFields \subseteq DOMAIN e_call' /\ e_call'.conn = e_call.conn
            /\ e_call'.op = e_call.op /\ e_call'.step \in {"ack", "get"}
            /\ e_call'.phase = e_call.phase
        BY <1>3, <1>10, <3>4 DEF GoOn, Goes, CallFields
      <4> QED BY <1>2, <3>1, <3>4, <4>1 DEF ConnSteps, GetSteps, RequestsSound, CallSound
    <3>5. e_call.step \in NetWaitSteps \ {"serve", "echo", "query", "get"}
      BY <1>10, <2>3 DEF GoOn, InCall, WaitSound
    <3> QED BY <3>2, <3>3, <3>4, <3>5 DEF NetWaitSteps
  <2> QED BY <2>1, <2>2, <2>3
<1> QED BY <1>5, <1>8, <1>9, <1>10

(* The steps that begin a call or go on in one                             *)
LEMMA CallStepsKeepWait ==
    ASSUME LeaseInv, RequestsSound, WaitSound,
           \/ \E target \in Lan \union {Web} : Ping(target)
           \/ Wget \/ HttpServerOnce
           \/ RouteGet \/ OpenConnection \/ GoOn \/ WaitTimeout \/ ServeEnd
    PROVE  WaitSound'
<1>1. e_tx' = e_tx
  BY DEF Ping, Wget, HttpServerOnce, BeginCall, RouteGet, OpenConnection, GoOn, WaitTimeout, ServeEnd
<1>2. e_tx.waits # "step"
  <2>1. CASE RouteGet \/ OpenConnection \/ GoOn \/ WaitTimeout \/ ServeEnd
    BY <2>1 DEF RouteGet, OpenConnection, GoOn, WaitTimeout, ServeEnd, InCall
  <2>2. CASE (\E target \in Lan \union {Web} : Ping(target)) \/ Wget \/ HttpServerOnce
    <3>1. e_call = NoNetCall
      BY <2>2 DEF Ping, Wget, HttpServerOnce, BeginCall, NetIdle
    <3> QED BY <3>1 DEF NoNetCall, WaitSound
  <2> QED BY <2>1, <2>2
<1>3. ASSUME e_call'.at = "send" => e_call'.step \in NetWaitSteps \union {"route", "open"},
             e_call'.at \in {"wait", "poll"} => e_call'.step \in NetWaitSteps
      PROVE  WaitSound'
  BY <1>1, <1>2, <1>3 DEF WaitSound
<1>4. CallFields \subseteq DOMAIN e_call /\ {"step", "phase", "at", "target", "mac"} \subseteq DOMAIN e_call
  BY DEF RequestsSound, CallSound, CallFields
<1>5. ASSUME e_call' = NoNetCall PROVE WaitSound'
  BY <1>3, <1>5 DEF NoNetCall
<1>6. ASSUME NEW ok, NEW data, Return(ok, data) PROVE WaitSound'
  BY <1>5, <1>6 DEF Return
<1>7. CASE (\E target \in Lan \union {Web} : Ping(target)) \/ Wget \/ HttpServerOnce
  <2>1. \/ e_call'.at = "send" /\ e_call'.step \in {"arp", "route"}
        \/ e_call'.at = "wait" /\ e_call'.step = "serve"
    BY <1>7 DEF Ping, Wget, HttpServerOnce, BeginCall, NoNetCall
  <2> QED BY <1>3, <2>1 DEF NetWaitSteps
<1>8. ASSUME FailCall PROVE WaitSound'
  BY <1>6, <1>8 DEF FailCall
<1>9. CASE RouteGet
  <2>1. ~FailCall => e_call'.at = "send" /\ e_call'.step \in {"arp", "open"}
    BY <1>4, <1>9 DEF RouteGet, InCall
  <2> QED BY <1>3, <1>8, <2>1 DEF NetWaitSteps
<1>10. CASE OpenConnection
  <2>1. FailCall \/ e_call' = [e_call EXCEPT !.step = "syn", !.conn = FirstFree]
    BY <1>10 DEF OpenConnection
  <2>2. ~FailCall => e_call'.at = "send" /\ e_call'.step = "syn"
    BY <1>4, <1>10, <2>1 DEF OpenConnection, InCall, CallFields
  <2> QED BY <1>3, <1>8, <2>2 DEF NetWaitSteps
<1>11. ASSUME EndPing PROVE WaitSound'
  <2>1. e_call.op = "test" => e_call'.at = "send" /\ e_call'.step = "arp"
    BY <1>4, <1>11 DEF EndPing
  <2> QED BY <1>3, <1>6, <1>11, <2>1 DEF EndPing, NetWaitSteps
<1>12. ASSUME EndDns PROVE WaitSound'
  <2>1. e_net.dns_a # "none" => e_call'.at = "send" /\ e_call'.step = "route"
    BY <1>4, <1>12 DEF EndDns
  <2> QED BY <1>3, <1>6, <1>12, <2>1 DEF EndDns, NetWaitSteps
<1>13. CASE WaitTimeout
  BY <1>8, <1>12, <1>13 DEF WaitTimeout
<1>14. CASE ServeEnd
  BY <1>6, <1>14 DEF ServeEnd
<1>15. CASE GoOn
  <2>1. CASE e_call.step \in {"echo", "query", "get"}
    BY <1>6, <1>11, <1>12, <1>15, <2>1 DEF GoOn
  <2>2. CASE e_call.step \notin {"echo", "query", "get"}
    <3>1. e_call.step \in NetWaitSteps \ {"serve", "echo", "query", "get"}
      BY <1>15, <2>2 DEF GoOn, InCall, WaitSound
    <3>2. AfterArp \in {"echo", "query", "open"}
      BY DEF AfterArp
    <3>3. /\ e_call'.at = "send"
          /\ e_call'.step \in {"discover", "request", "arp", "echo", "query", "open", "ack", "get"}
      BY <1>4, <1>15, <3>1, <3>2 DEF GoOn, Goes, NetWaitSteps
    <3> QED BY <1>3, <3>3 DEF NetWaitSteps
  <2> QED BY <2>1, <2>2
<1> QED BY <1>7, <1>9, <1>10, <1>13, <1>14, <1>15

(* The steps that send, poll and wait for the transmit queue               *)
LEMMA TransmitStepsKeepWait ==
    ASSUME LeaseInv, RequestsSound, WaitSound,
           SendStep \/ PollFrame \/ PollServe \/ PollEnd \/ TransmitDone \/ TransmitTimeout
    PROVE  WaitSound'
<1>1. CallFields \subseteq DOMAIN e_call /\ {"step", "at"} \subseteq DOMAIN e_call
  BY DEF RequestsSound, CallSound, CallFields
<1>2. CASE SendStep
  <2>1. e_call' = e_call /\ e_call.at = "send" /\ e_call.step \in NetWaitSteps
    BY <1>2 DEF SendStep, InCall, WaitSound
  <2> QED BY <2>1 DEF WaitSound
<1>3. CASE PollFrame \/ PollEnd
  <2>1. /\ e_tx' = e_tx /\ e_tx.waits = "no" /\ e_call.step \in NetWaitSteps
        /\ e_call'.at \in {"wait", "poll"} /\ e_call'.step = e_call.step
    BY <1>1, <1>3 DEF PollFrame, PollEnd, InCall, WaitSound
  <2> QED BY <2>1 DEF WaitSound
<1>4. CASE PollServe
  <2>1. /\ e_call.step \in NetWaitSteps /\ e_call'.at = "poll" /\ e_call'.step = e_call.step
    BY <1>1, <1>4 DEF PollServe, WaitSound
  <2>2. e_tx'.waits # "step"
    BY <1>4 DEF PollServe, SendFrame, Serves, LeaseInv
  <2> QED BY <2>1, <2>2 DEF WaitSound
<1>5. CASE TransmitDone \/ TransmitTimeout
  <2>1. e_tx'.waits = "no"
    BY <1>5 DEF TransmitDone, TransmitTimeout, LeaseInv
  <2>2. \/ e_call' = e_call
        \/ e_call' = NoNetCall
        \/ e_tx.waits = "step" /\ e_call' = [e_call EXCEPT !.at = "wait"]
    BY <1>5 DEF TransmitDone, TransmitTimeout, FailCall, Return
  <2>3. CASE e_call' = NoNetCall
    BY <2>1, <2>3 DEF WaitSound, NoNetCall
  <2>4. CASE e_call' # NoNetCall
    BY <1>1, <2>1, <2>2, <2>4 DEF WaitSound
  <2> QED BY <2>3, <2>4
<1> QED BY <1>2, <1>3, <1>4, <1>5

(* A segment for the connection is stored: it was sent to that port, so    *)
(* its number is that of the connection or of one rounds of ports before.  *)
LEMMA HandleTcpKeepsTable ==
    ASSUME RequestsSound, NEW frame, frame.kind \in {"syn-ack", "data"},
           Numbered(frame, e_truth.conns), HandleTcp(frame)
    PROVE  /\ TableSound(e_conns', e_call.conn, e_truth.conns)
           /\ \A c \in 1 .. TcpConnections : e_conns'[c].active = e_conns[c].active
<1>1. PICK n \in Nat : n = e_truth.conns
  BY DEF RequestsSound
<1>2. frame.conn \in 1 .. n /\ frame.port = PortOf(frame.conn)
  BY <1>1 DEF Numbered
<1>3. PICK data : data = [conn |-> frame.conn, part |-> frame.part]
  OBVIOUS
<1>4. data.conn = frame.conn
  BY <1>3
<1>5. DOMAIN e_conns' = 1 .. TcpConnections
  BY DEF HandleTcp
<1>6. ASSUME NEW c \in 1 .. TcpConnections
      PROVE  /\ ConnFields \subseteq DOMAIN e_conns'[c] /\ e_conns'[c].active = e_conns[c].active
             /\ e_conns'[c].active =>
                  /\ e_call.conn = c /\ n # 0 /\ e_conns'[c].number = n /\ e_conns'[c].port = PortOf(n)
                  /\ e_conns'[c].response =>
                       e_conns'[c].data.conn \in 1 .. n /\ PortOf(e_conns'[c].data.conn) = e_conns'[c].port
  <2>1. PICK x : x = e_conns[c]
    OBVIOUS
  <2>2. /\ ConnFields \subseteq DOMAIN x
        /\ x.active => /\ e_call.conn = c /\ n # 0 /\ x.number = n /\ x.port = PortOf(n)
                       /\ x.response => x.data.conn \in 1 .. n /\ PortOf(x.data.conn) = x.port
    BY <1>1, <2>1 DEF RequestsSound, TableSound
  <2>3. \/ e_conns'[c] = x
        \/ e_conns'[c] = [x EXCEPT !.syn_ack = TRUE]
        \/ x.port = frame.port /\ e_conns'[c] = [x EXCEPT !.response = TRUE, !.data = data]
    BY <1>3, <2>1 DEF HandleTcp, Matching
  <2>4. CASE e_conns'[c] = x
    BY <2>1, <2>2, <2>4
  <2>5. CASE e_conns'[c] = [x EXCEPT !.syn_ack = TRUE]
    <3>1. PICK y : y = e_conns'[c]
      OBVIOUS
    <3>2. /\ DOMAIN y = DOMAIN x /\ y.active = x.active /\ y.number = x.number /\ y.port = x.port
          /\ y.response = x.response /\ y.data = x.data
      BY <2>2, <2>5, <3>1 DEF ConnFields
    <3> QED BY <2>1, <2>2, <3>1, <3>2
  <2>6. CASE x.port = frame.port /\ e_conns'[c] = [x EXCEPT !.response = TRUE, !.data = data]
    <3>1. PICK y : y = e_conns'[c]
      OBVIOUS
    <3>2. /\ DOMAIN y = DOMAIN x /\ y.active = x.active /\ y.number = x.number /\ y.port = x.port
          /\ y.data = data
      BY <2>2, <2>6, <3>1 DEF ConnFields
    <3> QED BY <1>2, <1>4, <2>1, <2>2, <2>6, <3>1, <3>2
  <2> QED BY <2>3, <2>4, <2>5, <2>6
<1> QED BY <1>1, <1>5, <1>6 DEF TableSound

(* A frame is handled.                                                     *)
LEMMA PollFrameKeepsRequests ==
    ASSUME LeaseInv, RequestInv, PollFrame
    PROVE  RequestsSound'
<1> DEFINE frame == Head(e_rx.used).frame
<1>1. /\ e_rx.used # << >> /\ HandleFrame(frame) /\ UNCHANGED <<e_port, e_truth, e_answer>>
      /\ e_call' = [e_call EXCEPT !.at = "poll"]
  BY DEF PollFrame
<1>2. Numbered(frame, e_truth.conns)
  <2>1. PICK S : e_rx.used \in Seq(S)
    BY DEF LeaseInv, IsRing
  <2>2. Head(e_rx.used) = e_rx.used[1] /\ 1 \in 1 .. Len(e_rx.used)
    BY <1>1, <2>1
  <2>3. frame \in HeldFrames
    BY <2>2 DEF HeldFrames
  <2> QED BY <2>3 DEF RequestInv, FramesNumbered
<1> HIDE DEF frame
<1>3. RequestsSound
  BY DEF RequestInv
<1>4. /\ CallFields \subseteq DOMAIN e_call' /\ e_call'.conn = e_call.conn /\ e_call'.op = e_call.op
      /\ e_call'.step = e_call.step /\ e_call'.phase = e_call.phase
  BY <1>1, <1>3 DEF RequestsSound, CallSound, CallFields
<1>5. /\ TableSound(e_conns', e_call.conn, e_truth.conns)
      /\ \A c \in 1 .. TcpConnections : e_conns'[c].active = e_conns[c].active
  <2>1. CASE frame.kind \in {"syn-ack", "data"}
    <3>1. HandleTcp(frame)
      BY <1>1, <2>1 DEF HandleFrame
    <3> QED BY <1>2, <1>3, <2>1, <3>1, HandleTcpKeepsTable
  <2>2. CASE frame.kind \notin {"syn-ack", "data"}
    <3>1. e_conns' = e_conns
      BY <1>1, <2>2 DEF HandleFrame, HandleArp, HandleDhcp, HandleDns, HandleIcmp
    <3> QED BY <1>3, <3>1 DEF RequestsSound
  <2> QED BY <2>1, <2>2
<1>6. CallSound(e_call', e_conns')
  BY <1>3, <1>4, <1>5 DEF RequestsSound, CallSound
<1>7. GetsOwnAnswer'
  BY <1>1, <1>3 DEF RequestsSound, GetsOwnAnswer
<1> QED BY <1>1, <1>3, <1>4, <1>5, <1>6, <1>7 DEF RequestsSound

(* The steps that send and wait for the queue, and those of the device and *)
(* the network                                                             *)
LEMMA OtherStepsKeepRequests ==
    ASSUME RequestsSound,
           \/ SendStep \/ PollServe \/ PollEnd \/ TransmitDone \/ TransmitTimeout
           \/ \E a \in {"none", "dns", Web} : DeviceTransmit(a)
           \/ \E frame \in e_wire, stays \in BOOLEAN : Deliver(frame, stays)
           \/ DeliverRunt \/ ClientCalls
    PROVE  RequestsSound'
<1>1. CASE TransmitTimeout /\ e_tx.waits = "step"
  BY <1>1, FailKeepsRequests DEF TransmitTimeout
<1>2. CASE ~(TransmitTimeout /\ e_tx.waits = "step")
  <2>1. ConnectionsStay
    <3>1. UNCHANGED <<e_conns, e_port, e_answer>>
      BY <1>2 DEF SendStep, PollServe, PollEnd, TransmitDone, TransmitTimeout, DeviceTransmit, Deliver,
                  DeliverRunt, ClientCalls
    <3>2. "conns" \in DOMAIN e_truth' /\ e_truth'.conns = e_truth.conns
      <4>1. CASE ClientCalls \/ \E a \in {"none", "dns", Web} : DeviceTransmit(a)
        BY <4>1 DEF ClientCalls, DeviceTransmit, RequestsSound
      <4>2. CASE ~(ClientCalls \/ \E a \in {"none", "dns", Web} : DeviceTransmit(a))
        <5>1. e_truth' = e_truth
          BY <4>2 DEF SendStep, PollServe, PollEnd, TransmitDone, TransmitTimeout, Deliver, DeliverRunt
        <5> QED BY <5>1 DEF RequestsSound
      <4> QED BY <4>1, <4>2
    <3> QED BY <3>1, <3>2 DEF ConnectionsStay
  <2>2. e_call' = e_call \/ \E at : e_call' = [e_call EXCEPT !.at = at]
    BY <1>2 DEF SendStep, PollServe, PollEnd, TransmitDone, TransmitTimeout, DeviceTransmit, Deliver,
                DeliverRunt, ClientCalls
  <2>3. /\ CallFields \subseteq DOMAIN e_call' /\ e_call'.conn = e_call.conn /\ e_call'.op = e_call.op
        /\ e_call'.step = e_call.step /\ e_call'.phase = e_call.phase
    BY <2>2 DEF RequestsSound, CallSound, CallFields
  <2>4. CallSound(e_call', e_conns)
    BY <2>3 DEF RequestsSound, CallSound
  <2> QED BY <2>1, <2>3, <2>4, QuietCallKeepsRequests
<1> QED BY <1>1, <1>2

(* A segment that is sent bears the number and the port of the connection. *)
LEMMA SentIsNumbered ==
    ASSUME RequestInv, SendStep
    PROVE  Numbered(StepFrame, e_truth.conns)
<1>1. e_call.step \in NetWaitSteps
  BY DEF SendStep, InCall, RequestInv, WaitSound
<1>2. CASE e_call.step \in ConnSteps
  <2>1. PICK k \in 1 .. TcpConnections : k = e_call.conn /\ e_conns[k].active
    BY <1>2 DEF RequestInv, RequestsSound, CallSound
  <2>2. PICK n \in Nat : n = e_truth.conns
    BY DEF RequestInv, RequestsSound
  <2>3. n # 0 /\ e_conns[k].number = n /\ e_conns[k].port = PortOf(n)
    BY <2>1, <2>2 DEF RequestInv, RequestsSound, TableSound
  <2>4. StepFrame = TcpSegment(e_call.step, e_call)
    BY <1>2 DEF StepFrame, ConnSteps
  <2>5. StepFrame.conn = n /\ StepFrame.port = PortOf(n)
    BY <2>1, <2>3, <2>4 DEF TcpSegment
  <2> QED BY <2>2, <2>3, <2>5 DEF Numbered
<1>3. CASE e_call.step \notin ConnSteps
  <2>1. StepFrame.kind \in {"test", "discover", "request", "arp?", "echo?", "query", "serve"}
    BY <1>1, <1>3 DEF StepFrame, NetWaitSteps, ConnSteps, TestFrame, DhcpDiscover, DhcpRequest, ArpRequest,
                      EchoRequest, DnsQuery, TcpSegment
  <2> QED BY <2>1 DEF Numbered
<1> QED BY <1>2, <1>3

(* The driver's own steps                                                  *)
LEMMA DriverStepsKeepFrames ==
    ASSUME LeaseInv, RequestInv, RequestsSound',
           \/ \E target \in Lan \union {Web} : Ping(target)
           \/ Wget \/ HttpServerOnce
           \/ RouteGet \/ OpenConnection \/ SendStep \/ GoOn \/ WaitTimeout \/ ServeEnd
           \/ PollServe \/ PollEnd \/ TransmitDone \/ TransmitTimeout \/ PollFrame
    PROVE  FramesNumbered'
<1>1. e_wire' = e_wire
  BY DEF Ping, Wget, HttpServerOnce, BeginCall, RouteGet, OpenConnection, SendStep, GoOn,
         WaitTimeout, ServeEnd, PollServe, PollEnd, TransmitDone, TransmitTimeout, PollFrame
<1>2. e_truth'.conns \in Nat /\ e_truth.conns <= e_truth'.conns
  <2>1. e_truth'.conns \in Nat /\ e_truth.conns \in Nat /\ "conns" \in DOMAIN e_truth
    BY DEF RequestInv, RequestsSound
  <2>2. \/ e_truth' = e_truth
        \/ e_truth' = [e_truth EXCEPT !.conns = @ + 1]
        \/ e_truth' = [e_truth EXCEPT !.responses = 0]
    BY DEF Ping, Wget, HttpServerOnce, RouteGet, OpenConnection, TcpConnectionAllocate, SendStep, GoOn,
           WaitTimeout, ServeEnd, PollServe, PollEnd, TransmitDone, TransmitTimeout, PollFrame
  <2> QED BY <2>1, <2>2
<1>3. BuffersTaken
  <2>1. CASE PollFrame
    <3>1. e_rx.used # << >>
          /\ (e_rx' = [e_rx EXCEPT !.used = Tail(@)] \/ e_rx' = Recycle(Head(e_rx.used).id))
      BY <2>1 DEF PollFrame
    <3> QED BY <3>1 DEF BuffersTaken, Recycle, LeaseInv
  <2> QED BY <2>1, CallStepsTakeBuffers
<1>4. HeldFrames' \subseteq HeldFrames
  BY <1>3, HeldTaken
<1>5. "frame" \in DOMAIN e_tx' /\ (e_tx'.frame = e_tx.frame \/ Numbered(e_tx'.frame, e_truth.conns))
  <2>1. "frame" \in DOMAIN e_tx
    BY DEF RequestInv, FramesNumbered
  <2>2. CASE SendStep
    <3>1. PICK frame : frame = StepFrame
      OBVIOUS
    <3>2. "frame" \in DOMAIN e_tx' /\ e_tx'.frame = frame
      BY <2>1, <2>2, <3>1 DEF SendStep, SendFrame
    <3> QED BY <2>2, <3>1, <3>2, SentIsNumbered
  <2>3. CASE PollServe
    <3>1. "frame" \in DOMAIN e_tx' /\ e_tx'.frame.kind \in {"server-syn-ack", "response"}
      BY <2>1, <2>3 DEF PollServe, SendFrame
    <3> QED BY <3>1 DEF Numbered
  <2>4. CASE TransmitDone \/ TransmitTimeout
    BY <2>1, <2>4 DEF TransmitDone, TransmitTimeout
  <2>5. CASE ~(SendStep \/ PollServe \/ TransmitDone \/ TransmitTimeout)
    <3>1. e_tx' = e_tx
      BY <2>5 DEF Ping, Wget, HttpServerOnce, BeginCall, RouteGet, OpenConnection, GoOn, WaitTimeout,
                  ServeEnd, PollEnd, PollFrame
    <3> QED BY <2>1, <3>1
  <2> QED BY <2>2, <2>3, <2>4, <2>5
<1> QED BY <1>1, <1>2, <1>4, <1>5, FramesKept

(* The device and the network: an answer bears the number and the port of  *)
(* the segment it answers.                                                 *)
LEMMA NetworkKeepsFrames ==
    ASSUME LeaseInv, RequestInv, RequestsSound',
           \/ \E a \in {"none", "dns", Web} : DeviceTransmit(a)
           \/ \E frame \in e_wire, stays \in BOOLEAN : Deliver(frame, stays)
           \/ DeliverRunt \/ ClientCalls
    PROVE  FramesNumbered'
<1>1. "frame" \in DOMAIN e_tx /\ Numbered(e_tx.frame, e_truth.conns)
      /\ e_truth.conns \in Nat /\ "conns" \in DOMAIN e_truth
  BY DEF RequestInv, FramesNumbered, RequestsSound
<1>2. CASE \E a \in {"none", "dns", Web} : DeviceTransmit(a)
  <2>1. PICK a : DeviceTransmit(a)
    BY <1>2
  <2>2. /\ e_rx' = e_rx /\ e_truth'.conns = e_truth.conns
        /\ "frame" \in DOMAIN e_tx' /\ e_tx'.frame = e_tx.frame
        /\ e_wire' = e_wire \union NetAnswers(e_tx.frame, a)
    BY <1>1, <2>1 DEF DeviceTransmit
  <2>3. PICK sent : sent = e_tx.frame
    OBVIOUS
  <2>4. ASSUME NEW frame \in NetAnswers(sent, a) PROVE Numbered(frame, e_truth.conns)
    <3>1. frame.kind \in {"syn", "get", "syn-ack", "data"} =>
             sent.kind \in {"syn", "get"} /\ frame.port = sent.port /\ frame.conn = sent.conn
      BY DEF NetAnswers
    <3> QED BY <1>1, <2>3, <3>1 DEF Numbered
  <2>5. HeldFrames' = HeldFrames
    BY <2>2 DEF HeldFrames
  <2> QED BY <1>1, <2>2, <2>3, <2>4, <2>5, FramesKept
<1>3. CASE \E frame \in e_wire, stays \in BOOLEAN : Deliver(frame, stays)
  <2>1. PICK frame \in e_wire, stays \in BOOLEAN : Deliver(frame, stays)
    BY <1>3
  <2>2. PICK buffer : buffer = [id |-> Head(e_rx.avail), frame |-> frame]
    OBVIOUS
  <2>3. /\ e_rx'.used = Append(e_rx.used, buffer) /\ buffer.frame = frame
        /\ e_wire' \subseteq e_wire /\ e_tx' = e_tx /\ e_truth' = e_truth
    BY <2>1, <2>2 DEF Deliver
  <2>4. HeldFrames' \subseteq HeldFrames \union {frame}
    BY <2>3, HeldArrived
  <2>5. e_truth.conns <= e_truth.conns
    BY <1>1
  <2> QED BY <1>1, <2>3, <2>4, <2>5, FramesKept
<1>4. CASE DeliverRunt
  <2>1. PICK buffer : buffer = [id |-> Head(e_rx.avail), frame |-> [kind |-> "runt"]]
    OBVIOUS
  <2>2. /\ e_rx'.used = Append(e_rx.used, buffer)
        /\ e_wire' = e_wire /\ e_tx' = e_tx /\ e_truth' = e_truth
    BY <1>4, <2>1 DEF DeliverRunt
  <2>3. Numbered(buffer.frame, e_truth.conns)
    BY <2>1 DEF Numbered
  <2>4. HeldFrames' \subseteq HeldFrames \union {buffer.frame}
    BY <2>2, HeldArrived
  <2>5. e_truth.conns <= e_truth.conns
    BY <1>1
  <2> QED BY <1>1, <2>2, <2>3, <2>4, <2>5, FramesKept
<1>5. CASE ClientCalls
  <2>1. /\ e_rx' = e_rx /\ e_tx' = e_tx /\ e_truth'.conns = e_truth.conns
        /\ e_wire' = e_wire \union {[kind |-> k, to |-> e_net.ip] : k \in {"client-syn", "client-get"}}
    BY <1>1, <1>5 DEF ClientCalls
  <2>2. \A frame \in e_wire' : frame \in e_wire \/ Numbered(frame, e_truth.conns)
    BY <2>1 DEF Numbered
  <2>3. HeldFrames' = HeldFrames
    BY <2>1 DEF HeldFrames
  <2>4. e_truth.conns <= e_truth.conns
    BY <1>1
  <2> QED BY <1>1, <2>1, <2>2, <2>3, <2>4, FramesKept
<1> QED BY <1>2, <1>3, <1>4, <1>5

(* The device and the network leave the calls alone.                       *)
LEMMA NetworkKeepsWait ==
    ASSUME LeaseInv, WaitSound,
           \/ \E a \in {"none", "dns", Web} : DeviceTransmit(a)
           \/ \E frame \in e_wire, stays \in BOOLEAN : Deliver(frame, stays)
           \/ DeliverRunt \/ ClientCalls
    PROVE  WaitSound'
<1>1. e_call' = e_call /\ e_tx'.waits = e_tx.waits
  BY DEF DeviceTransmit, Deliver, DeliverRunt, ClientCalls, LeaseInv
<1> QED BY <1>1 DEF WaitSound

(* Every step of the driver, the device and the network                    *)
LEMMA NetStepKeepsRequests ==
    ASSUME LeaseInv, RequestInv, [NetNext]_netVars
    PROVE  RequestInv'
<1>1. CASE UNCHANGED netVars
  <2>1. RequestsSound'
    BY <1>1 DEF netVars, RequestInv, RequestsSound, GetsOwnAnswer
  <2>2. WaitSound'
    BY <1>1 DEF netVars, RequestInv, WaitSound
  <2>3. FramesNumbered'
    BY <1>1 DEF netVars, RequestInv, FramesNumbered, HeldFrames
  <2> QED BY <2>1, <2>2, <2>3 DEF RequestInv
<1>2. CASE NetNext
  <2>1. RequestsSound /\ WaitSound
    BY DEF RequestInv
  <2>2. RequestsSound'
    BY <1>2, <2>1, BeginKeepsRequests, OpenKeepsRequests, CallStepsKeepRequests, PollFrameKeepsRequests,
       OtherStepsKeepRequests DEF NetNext
  <2>3. WaitSound'
    BY <1>2, <2>1, CallStepsKeepWait, TransmitStepsKeepWait, NetworkKeepsWait DEF NetNext
  <2>4. FramesNumbered'
    BY <1>2, <2>2, DriverStepsKeepFrames, NetworkKeepsFrames DEF NetNext
  <2> QED BY <2>2, <2>3, <2>4 DEF RequestInv
<1> QED BY <1>1, <1>2

(* An HTTP request of virtio_net.c that reports success returns what was   *)
(* sent to its own source port: in answer to this request, or to one whole *)
(* rounds of ports ago.  For any number of connections, ports, buffers and *)
(* segments, with frames lost, late, repeated and reordered.               *)
THEOREM RequestsCorrect == DevicesSpec => []GetsOwnAnswer
<1>1. DevicesInit => LeaseInv /\ RequestInv
  BY LeaseInitInv, RequestInitInv DEF DevicesInit
<1>2. LeaseInv /\ RequestInv /\ [DevicesNext]_deviceVars => LeaseInv' /\ RequestInv'
  BY StepIsOfOneDevice, NetStepKeepsLease, NetStepKeepsRequests
<1>3. RequestInv => GetsOwnAnswer
  BY DEF RequestInv, RequestsSound
<1> QED BY <1>1, <1>2, <1>3, PTL DEF DevicesSpec, deviceVars

-----------------------------------------------------------------------------
(* Network: connections and receive buffers                                *)

(* The places of the empty buffers in a queue                              *)
RuntPlaces(used) == {i \in 1 .. Len(used) : used[i].frame.kind = "runt"}

(* are finitely many.                                                      *)
LEMMA RuntPlacesFinite ==
    ASSUME NEW used, IsRing(used)
    PROVE  IsFiniteSet(RuntPlaces(used)) /\ Cardinality(RuntPlaces(used)) \in Nat
<1>1. PICK n \in Nat : n = Len(used)
  BY DEF IsRing
<1>2. IsFiniteSet(1 .. n)
  BY FS_Interval
<1>3. RuntPlaces(used) \in SUBSET (1 .. n)
  BY <1>1 DEF RuntPlaces
<1>4. IsFiniteSet(RuntPlaces(used))
  BY <1>2, <1>3, FS_Subset
<1> QED BY <1>4, FS_CardinalityType

(* One that arrives is at the end                                          *)
LEMMA RuntArrives ==
    ASSUME NEW used, IsRing(used), NEW buffer
    PROVE  Cardinality(RuntPlaces(Append(used, buffer)))
              = Cardinality(RuntPlaces(used)) + (IF buffer.frame.kind = "runt" THEN 1 ELSE 0)
<1>1. PICK S : used \in Seq(S)
  BY DEF IsRing
<1>2. used \in Seq(S \union {buffer})
  BY <1>1
<1>a. PICK more : more = Append(used, buffer)
  OBVIOUS
<1>b. PICK n \in Nat : n = Len(used)
  BY <1>2
<1>3. n = Len(used) /\ more = Append(used, buffer)
  BY <1>a, <1>b
<1>4. Len(more) = n + 1 /\ more[n + 1] = buffer /\ \A i \in 1 .. n : more[i] = used[i]
  BY <1>2, <1>3
<1>5. RuntPlaces(more) = RuntPlaces(used) \union (IF buffer.frame.kind = "runt" THEN {n + 1} ELSE {})
  BY <1>3, <1>4 DEF RuntPlaces
<1>6. n + 1 \notin RuntPlaces(used)
  BY <1>3 DEF RuntPlaces
<1>7. PICK R : R = RuntPlaces(used) /\ IsFiniteSet(R) /\ Cardinality(R) \in Nat
  BY RuntPlacesFinite
<1>8. Cardinality(R \union {n + 1}) = Cardinality(R) + 1
  BY <1>6, <1>7, FS_AddElement
<1>9. CASE buffer.frame.kind = "runt"
  BY <1>3, <1>5, <1>7, <1>8, <1>9
<1>10. CASE buffer.frame.kind # "runt"
  <2>1. RuntPlaces(more) = R
    BY <1>5, <1>7, <1>10
  <2> QED BY <1>3, <1>7, <1>10, <2>1
<1> QED BY <1>9, <1>10

(* and one that is taken was at the front.                                 *)
LEMMA RuntLeaves ==
    ASSUME NEW used, IsRing(used), used # << >>
    PROVE  Cardinality(RuntPlaces(used))
              = Cardinality(RuntPlaces(Tail(used))) + (IF used[1].frame.kind = "runt" THEN 1 ELSE 0)
<1>1. PICK S : used \in Seq(S)
  BY DEF IsRing
<1>a. PICK rest : rest = Tail(used)
  OBVIOUS
<1>b. PICK n \in Nat \ {0} : n = Len(used)
  BY <1>1
<1>2. n = Len(used) /\ rest = Tail(used)
  BY <1>a, <1>b
<1>3. Len(rest) = n - 1 /\ IsRing(rest) /\ \A i \in 1 .. n - 1 : rest[i] = used[i + 1]
  BY <1>1, <1>2, RingTail
<1>4. PICK R : R = RuntPlaces(rest) /\ IsFiniteSet(R) /\ Cardinality(R) \in Nat
  BY <1>3, RuntPlacesFinite
<1>5. PICK Q : Q = RuntPlaces(used) /\ IsFiniteSet(Q) /\ Cardinality(Q) \in Nat
  BY RuntPlacesFinite
<1>6. R \subseteq 1 .. n - 1 /\ Q \subseteq 1 .. n
  BY <1>2, <1>3, <1>4, <1>5 DEF RuntPlaces
<1>7. \A i \in 1 .. n - 1 : i \in R <=> i + 1 \in Q
  BY <1>2, <1>3, <1>4, <1>5 DEF RuntPlaces
<1>8. 1 \in Q <=> used[1].frame.kind = "runt"
  BY <1>2, <1>5 DEF RuntPlaces
<1>9. Cardinality(Q \ {1}) = Cardinality(R)
  <2> DEFINE f == [i \in R |-> i + 1]
  <2>1. f \in [R -> Q \ {1}]
    BY <1>6, <1>7
  <2>2. \A i, j \in R : f[i] = f[j] => i = j
    BY <1>6
  <2>3. ASSUME NEW q \in Q \ {1} PROVE \E i \in R : f[i] = q
    <3>1. q - 1 \in 1 .. n - 1 /\ (q - 1) + 1 = q
      BY <1>6
    <3>2. q - 1 \in R
      BY <1>7, <3>1
    <3> QED BY <3>1, <3>2
  <2>4. f \in Bijection(R, Q \ {1})
    BY <2>1, <2>2, <2>3 DEF Bijection, Injection, Surjection, IsInjective
  <2>5. ExistsBijection(R, Q \ {1})
    BY <2>4 DEF ExistsBijection
  <2> QED BY <1>4, <2>5, FS_Bijection
<1>10. Cardinality(Q \ {1}) = IF 1 \in Q THEN Cardinality(Q) - 1 ELSE Cardinality(Q)
  BY <1>5, FS_RemoveElement
<1> QED BY <1>2, <1>4, <1>5, <1>8, <1>9, <1>10

(* Every buffer is in one place of one queue, and of the buffers only as   *)
(* many are missing as empty ones have been taken.                         *)
BuffersApart(avail, used, runts) ==
    /\ IsRing(avail) /\ IsRing(used) /\ runts \in Nat
    /\ \A i, j \in 1 .. Len(avail) : avail[i] = avail[j] => i = j
    /\ \A i, j \in 1 .. Len(used) : used[i].id = used[j].id => i = j
    /\ \A i \in 1 .. Len(avail), j \in 1 .. Len(used) : avail[i] # used[j].id
    /\ Len(avail) + Len(used) + runts = RxBuffers + Cardinality(RuntPlaces(used))

(* Two sequences one behind the other                                      *)
LEMMA Joined ==
    ASSUME NEW S, NEW a \in Seq(S), NEW b \in Seq(S), NEW n \in Nat, n = Len(a), NEW m \in Nat, m = Len(b),
           NEW c, c = a \o b
    PROVE  /\ Len(c) = n + m /\ DOMAIN c = 1 .. n + m
           /\ \A i \in 1 .. n + m : c[i] = IF i <= n THEN a[i] ELSE b[i - n]
  OBVIOUS

(* The buffers of both queues, those of the first first                    *)
BothQueues(avail, used, all) == all = avail \o [i \in DOMAIN used |-> used[i].id]
NoneTwice(all) == \A i, j \in DOMAIN all : all[i] = all[j] => i = j

(* They hold no buffer twice.                                              *)
LEMMA ApartInOne ==
    ASSUME NEW avail, NEW used, NEW runts, BuffersApart(avail, used, runts),
           NEW all, BothQueues(avail, used, all)
    PROVE  NoneTwice(all) /\ Len(all) = Len(avail) + Len(used)
<1>a. PICK ids : ids = [i \in DOMAIN used |-> used[i].id]
  OBVIOUS
<1>1. PICK S, T : avail \in Seq(S) /\ used \in Seq(T)
  BY DEF BuffersApart, IsRing
<1>2. PICK n \in Nat, m \in Nat : n = Len(avail) /\ m = Len(used) /\ DOMAIN used = 1 .. m
  BY <1>1
<1>3. PICK U : U = S \union {used[i].id : i \in 1 .. m}
  OBVIOUS
<1>4. ids \in Seq(U) /\ Len(ids) = m /\ \A i \in 1 .. m : ids[i] = used[i].id
  BY <1>a, <1>2, <1>3
<1>5. avail \in Seq(U)
  BY <1>1, <1>3
<1>6. /\ Len(all) = n + m /\ DOMAIN all = 1 .. n + m
      /\ \A i \in 1 .. n + m : all[i] = IF i <= n THEN avail[i] ELSE ids[i - n]
  <2>1. avail \in Seq(U) /\ ids \in Seq(U) /\ n = Len(avail) /\ m = Len(ids) /\ all = avail \o ids
    BY <1>a, <1>2, <1>4, <1>5 DEF BothQueues
  <2> QED BY <2>1, Joined
<1>7. \A i \in 1 .. n + m : i > n => i - n \in 1 .. m /\ all[i] = used[i - n].id
  BY <1>4, <1>6
<1>8. \A i \in 1 .. n + m : i <= n => i \in 1 .. n /\ all[i] = avail[i]
  BY <1>6
<1>9. /\ \A i, j \in 1 .. n : avail[i] = avail[j] => i = j
      /\ \A i, j \in 1 .. m : used[i].id = used[j].id => i = j
      /\ \A i \in 1 .. n : \A j \in 1 .. m : avail[i] # used[j].id
  BY <1>2 DEF BuffersApart
<1>10. ASSUME NEW i \in 1 .. n + m, NEW j \in 1 .. n + m, all[i] = all[j] PROVE i = j
  <2>1. CASE i <= n /\ j <= n
    BY <1>8, <1>9, <1>10, <2>1
  <2>2. CASE i > n /\ j > n
    <3>1. PICK k \in 1 .. m, l \in 1 .. m : /\ k = i - n /\ l = j - n
                                           /\ all[i] = used[k].id /\ all[j] = used[l].id
      BY <1>7, <2>2
    <3>2. k = l
      BY <1>9, <1>10, <3>1
    <3> QED BY <3>1, <3>2
  <2>3. CASE i <= n /\ j > n
    BY <1>7, <1>8, <1>9, <1>10, <2>3
  <2>4. CASE i > n /\ j <= n
    BY <1>7, <1>8, <1>9, <1>10, <2>4
  <2> QED BY <2>1, <2>2, <2>3, <2>4
<1> QED BY <1>2, <1>6, <1>10 DEF NoneTwice

(* So that the property holds.                                             *)
LEMMA ApartIsKept ==
    ASSUME BuffersApart(e_rx.avail, e_rx.used, e_counts.runts)
    PROVE  BuffersKept
<1>1. PICK avail, used, runts : avail = e_rx.avail /\ used = e_rx.used /\ runts = e_counts.runts
  OBVIOUS
<1>3. PICK all : BothQueues(avail, used, all)
  BY DEF BothQueues
<1>4. PICK R : R = {i \in DOMAIN used : used[i].frame.kind = "runt"}
  OBVIOUS
<1>5. BuffersApart(avail, used, runts)
  BY <1>1
<1>6. NoneTwice(all) /\ Len(all) = Len(avail) + Len(used)
  BY <1>3, <1>5, ApartInOne
<1>7. R = RuntPlaces(used)
  <2>1. PICK T : used \in Seq(T)
    BY <1>5 DEF BuffersApart, IsRing
  <2>2. DOMAIN used = 1 .. Len(used)
    BY <2>1
  <2> QED BY <1>4, <2>2 DEF RuntPlaces
<1>8. PICK c \in Nat : c = Cardinality(R)
  BY <1>5, <1>7, RuntPlacesFinite DEF BuffersApart
<1>9. PICK l \in Nat, m \in Nat : l = Len(avail) /\ m = Len(used)
  BY <1>5 DEF BuffersApart, IsRing
<1>10. l + m + runts = RxBuffers + c /\ runts \in Nat /\ RxBuffers \in Nat
  BY <1>5, <1>7, <1>8, <1>9, NetAssumption DEF BuffersApart
<1>11. l + m = RxBuffers - (runts - c)
  BY <1>10
<1>12. Len(all) = RxBuffers - (runts - Cardinality(R))
  BY <1>6, <1>8, <1>9, <1>11
<1>13. all = e_rx.avail \o [i \in DOMAIN e_rx.used |-> e_rx.used[i].id]
  BY <1>1, <1>3 DEF BothQueues
<1>14. R = {i \in DOMAIN e_rx.used : e_rx.used[i].frame.kind = "runt"}
  BY <1>1, <1>4
<1>15. /\ NoneTwice(e_rx.avail \o [i \in DOMAIN e_rx.used |-> e_rx.used[i].id])
       /\ Len(e_rx.avail \o [i \in DOMAIN e_rx.used |-> e_rx.used[i].id])
             = RxBuffers - (e_counts.runts - Cardinality(R))
  BY <1>1, <1>6, <1>12, <1>13, Zenon
<1>16. Cardinality(R) = Cardinality({i \in DOMAIN e_rx.used : e_rx.used[i].frame.kind = "runt"})
  BY <1>14
<1> QED BY <1>15, <1>16, Zenon DEF BuffersKept, NoneTwice

(* A sequence of n + 1 elements, and t without its first                   *)
TailAs(s, t, n) == /\ IsRing(t) /\ Len(s) = n + 1 /\ Len(t) = n /\ Head(s) = s[1]
                   /\ \A i \in 1 .. n : t[i] = s[i + 1]

(* A sequence of n elements, and t with one more                           *)
AppendAs(s, x, t, n) == /\ IsRing(t) /\ Len(s) = n /\ Len(t) = n + 1 /\ t[n + 1] = x
                        /\ \A i \in 1 .. n : t[i] = s[i]

(* Tail takes the first element.                                           *)
LEMMA TailIs ==
    ASSUME NEW s, IsRing(s), s # << >>, NEW t, t = Tail(s)
    PROVE  \E n \in Nat : TailAs(s, t, n)
<1>1. PICK S : s \in Seq(S)
  BY DEF IsRing
<1>2. PICK n \in Nat : Len(s) = n + 1
  BY <1>1
<1>3. Tail(s) \in Seq(S) /\ Len(t) = n /\ Head(s) = s[1] /\ \A i \in 1 .. n : t[i] = s[i + 1]
  BY <1>1, <1>2
<1> QED BY <1>2, <1>3 DEF TailAs, IsRing

(* Append adds one at the end.                                             *)
LEMMA AppendIs ==
    ASSUME NEW s, IsRing(s), NEW x, NEW t, t = Append(s, x)
    PROVE  \E n \in Nat : AppendAs(s, x, t, n)
<1>1. PICK S : s \in Seq(S)
  BY DEF IsRing
<1>2. s \in Seq(S \union {x})
  BY <1>1
<1>3. PICK n \in Nat : Len(s) = n
  BY <1>1
<1>4. Append(s, x) \in Seq(S \union {x}) /\ Len(t) = n + 1 /\ t[n + 1] = x /\ \A i \in 1 .. n : t[i] = s[i]
  BY <1>2, <1>3
<1> QED BY <1>3, <1>4 DEF AppendAs, IsRing

(* The device fills a buffer: it goes from the front of one queue to the   *)
(* end of the other.                                                       *)
LEMMA FilledStaysApart ==
    ASSUME NEW avail, NEW used, NEW runts, BuffersApart(avail, used, runts), avail # << >>,
           NEW buffer, buffer.id = Head(avail)
    PROVE  BuffersApart(Tail(avail), Append(used, buffer),
                        runts + (IF buffer.frame.kind = "runt" THEN 1 ELSE 0))
<1>1. PICK a : a = Tail(avail)
  OBVIOUS
<1>2. PICK u : u = Append(used, buffer)
  OBVIOUS
<1>3. PICK n \in Nat : TailAs(avail, a, n)
  BY <1>1, TailIs DEF BuffersApart
<1>4. PICK m \in Nat : AppendAs(used, buffer, u, m)
  BY <1>2, AppendIs DEF BuffersApart
<1>5. PICK r \in Nat : r = IF buffer.frame.kind = "runt" THEN 1 ELSE 0
  OBVIOUS
<1>6. PICK c \in Nat, d \in Nat : /\ c = Cardinality(RuntPlaces(used)) /\ d = Cardinality(RuntPlaces(u))
                                  /\ d = c + r
  <2>1. IsRing(used)
    BY DEF BuffersApart
  <2>2. IsRing(u)
    BY <1>4 DEF AppendAs
  <2>3. Cardinality(RuntPlaces(used)) \in Nat /\ Cardinality(RuntPlaces(u)) \in Nat
    BY <2>1, <2>2, RuntPlacesFinite
  <2>4. Cardinality(RuntPlaces(u)) = Cardinality(RuntPlaces(used)) + r
    BY <1>2, <1>5, <2>1, RuntArrives
  <2> QED BY <2>3, <2>4
<1>7. /\ Len(avail) = n + 1 /\ Len(used) = m
      /\ \A i, j \in 1 .. n + 1 : avail[i] = avail[j] => i = j
      /\ \A i, j \in 1 .. m : used[i].id = used[j].id => i = j
      /\ \A i \in 1 .. n + 1 : \A j \in 1 .. m : avail[i] # used[j].id
      /\ n + 1 + m + runts = RxBuffers + c /\ runts \in Nat
  BY <1>3, <1>4, <1>6 DEF BuffersApart, TailAs, AppendAs
<1>8. /\ \A i \in 1 .. n : a[i] = avail[i + 1] /\ i + 1 \in 1 .. n + 1 /\ i + 1 # 1
      /\ \A i \in 1 .. m + 1 : i = m + 1 \/ (i \in 1 .. m /\ u[i] = used[i])
      /\ u[m + 1].id = avail[1] /\ 1 \in 1 .. n + 1
  BY <1>3, <1>4 DEF TailAs, AppendAs
<1>9. \A i, j \in 1 .. n : a[i] = a[j] => i = j
  BY <1>7, <1>8
<1>10. \A i, j \in 1 .. m + 1 : u[i].id = u[j].id => i = j
  BY <1>7, <1>8, SMTT(30)
<1>11. ASSUME NEW i \in 1 .. n, NEW j \in 1 .. m + 1 PROVE a[i] # u[j].id
  <2>1. PICK k \in 1 .. n + 1 : k # 1 /\ a[i] = avail[k]
    BY <1>8
  <2>2. CASE j = m + 1
    BY <1>7, <1>8, <2>1, <2>2
  <2>3. CASE j \in 1 .. m /\ u[j] = used[j]
    BY <1>7, <2>1, <2>3
  <2> QED BY <1>8, <2>2, <2>3
<1>12. n + (m + 1) + (runts + r) = RxBuffers + d /\ runts + r \in Nat
  <2>1. PICK t \in Nat, q \in Nat : t = runts /\ q = RxBuffers
    BY <1>7, NetAssumption
  <2>2. n + 1 + m + t = q + c /\ d = c + r
    BY <1>6, <1>7, <2>1
  <2>3. n + (m + 1) + (t + r) = q + d /\ t + r \in Nat
    BY <2>2
  <2> QED BY <2>1, <2>3
<1>13. BuffersApart(a, u, runts + r)
  BY <1>3, <1>4, <1>6, <1>9, <1>10, <1>11, <1>12 DEF BuffersApart, TailAs, AppendAs
<1> QED BY <1>1, <1>2, <1>5, <1>13

(* The driver is done with one that is not empty: it goes back.            *)
LEMMA RecycledStaysApart ==
    ASSUME NEW avail, NEW used, NEW runts, BuffersApart(avail, used, runts), used # << >>,
           used[1].frame.kind # "runt"
    PROVE  BuffersApart(Append(avail, Head(used).id), Tail(used), runts)
<1>0. PICK x : x = Head(used).id
  OBVIOUS
<1>1. PICK a : a = Append(avail, x)
  OBVIOUS
<1>2. PICK u : u = Tail(used)
  OBVIOUS
<1>3. PICK n \in Nat : AppendAs(avail, x, a, n)
  BY <1>1, AppendIs DEF BuffersApart
<1>4. PICK m \in Nat : TailAs(used, u, m)
  BY <1>2, TailIs DEF BuffersApart
<1>6. PICK c \in Nat : c = Cardinality(RuntPlaces(used)) /\ c = Cardinality(RuntPlaces(u))
  <2>1. IsRing(used)
    BY DEF BuffersApart
  <2>2. IsRing(u)
    BY <1>4 DEF TailAs
  <2>3. Cardinality(RuntPlaces(used)) \in Nat /\ Cardinality(RuntPlaces(u)) \in Nat
    BY <2>1, <2>2, RuntPlacesFinite
  <2>4. Cardinality(RuntPlaces(used)) = Cardinality(RuntPlaces(u)) + 0
    BY <1>2, <2>1, RuntLeaves
  <2> QED BY <2>3, <2>4
<1>7. /\ Len(avail) = n /\ Len(used) = m + 1
      /\ \A i, j \in 1 .. n : avail[i] = avail[j] => i = j
      /\ \A i, j \in 1 .. m + 1 : used[i].id = used[j].id => i = j
      /\ \A i \in 1 .. n : \A j \in 1 .. m + 1 : avail[i] # used[j].id
      /\ n + (m + 1) + runts = RxBuffers + c /\ runts \in Nat
  BY <1>3, <1>4, <1>6 DEF BuffersApart, TailAs, AppendAs
<1>8. /\ \A i \in 1 .. m : u[i] = used[i + 1] /\ i + 1 \in 1 .. m + 1 /\ i + 1 # 1
      /\ \A i \in 1 .. n + 1 : i = n + 1 \/ (i \in 1 .. n /\ a[i] = avail[i])
      /\ a[n + 1] = used[1].id /\ 1 \in 1 .. m + 1
  BY <1>0, <1>3, <1>4 DEF TailAs, AppendAs
<1>9. \A i, j \in 1 .. n + 1 : a[i] = a[j] => i = j
  BY <1>7, <1>8
<1>10. \A i, j \in 1 .. m : u[i].id = u[j].id => i = j
  BY <1>7, <1>8
<1>11. \A i \in 1 .. n + 1, j \in 1 .. m : a[i] # u[j].id
  BY <1>7, <1>8, SMTT(30)
<1>12. (n + 1) + m + runts = RxBuffers + c
  BY <1>7, NetAssumption
<1>13. BuffersApart(a, u, runts)
  BY <1>3, <1>4, <1>6, <1>7, <1>9, <1>10, <1>11, <1>12 DEF BuffersApart, TailAs, AppendAs
<1> QED BY <1>0, <1>1, <1>2, <1>13

(* One that is empty is lost.                                              *)
LEMMA LostStaysApart ==
    ASSUME NEW avail, NEW used, NEW runts, BuffersApart(avail, used, runts), used # << >>,
           used[1].frame.kind = "runt"
    PROVE  BuffersApart(avail, Tail(used), runts)
<1>2. PICK u : u = Tail(used)
  OBVIOUS
<1>3. PICK n \in Nat : n = Len(avail)
  BY DEF BuffersApart, IsRing
<1>4. PICK m \in Nat : TailAs(used, u, m)
  BY <1>2, TailIs DEF BuffersApart
<1>6. PICK c \in Nat : c + 1 = Cardinality(RuntPlaces(used)) /\ c = Cardinality(RuntPlaces(u))
  <2>1. IsRing(used)
    BY DEF BuffersApart
  <2>2. IsRing(u)
    BY <1>4 DEF TailAs
  <2>3. Cardinality(RuntPlaces(u)) \in Nat
    BY <2>2, RuntPlacesFinite
  <2>4. Cardinality(RuntPlaces(used)) = Cardinality(RuntPlaces(u)) + 1
    BY <1>2, <2>1, RuntLeaves
  <2> QED BY <2>3, <2>4
<1>7. /\ Len(used) = m + 1
      /\ \A i, j \in 1 .. m + 1 : used[i].id = used[j].id => i = j
      /\ \A i \in 1 .. n : \A j \in 1 .. m + 1 : avail[i] # used[j].id
      /\ n + (m + 1) + runts = RxBuffers + (c + 1) /\ runts \in Nat
  BY <1>3, <1>4, <1>6 DEF BuffersApart, TailAs
<1>8. \A i \in 1 .. m : u[i] = used[i + 1] /\ i + 1 \in 1 .. m + 1
  BY <1>4 DEF TailAs
<1>10. \A i, j \in 1 .. m : u[i].id = u[j].id => i = j
  BY <1>7, <1>8
<1>11. \A i \in 1 .. n, j \in 1 .. m : avail[i] # u[j].id
  BY <1>7, <1>8
<1>12. n + m + runts = RxBuffers + c
  BY <1>7, NetAssumption
<1>13. BuffersApart(avail, u, runts)
  BY <1>3, <1>4, <1>6, <1>7, <1>10, <1>11, <1>12 DEF BuffersApart, TailAs
<1> QED BY <1>2, <1>13

(* What is true of the buffers after every step: they are apart, nothing   *)
(* on the wire is empty, and a frame that is being answered is not.        *)
BufferInv ==
    /\ {"avail", "used"} \subseteq DOMAIN e_rx /\ "runts" \in DOMAIN e_counts
    /\ BuffersApart(e_rx.avail, e_rx.used, e_counts.runts)
    /\ \A frame \in e_wire : frame.kind # "runt"
    /\ e_tx.waits \in {"no", "step"} \/ e_rx.used[1].frame.kind # "runt"

(* At the start all are the device's.                                      *)
LEMMA BufferInitInv == NetInit => BufferInv
<1> SUFFICES ASSUME NetInit PROVE BufferInv
  OBVIOUS
<1>1. /\ {"avail", "used"} \subseteq DOMAIN e_rx /\ "runts" \in DOMAIN e_counts
      /\ e_counts.runts = 0 /\ e_wire = {} /\ e_tx.waits = "no"
  BY DEF NetInit
<1>2. PICK avail : avail = [b \in 1 .. RxBuffers |-> b]
  OBVIOUS
<1>3. e_rx.avail = avail /\ e_rx.used = << >>
  BY <1>2 DEF NetInit
<1>4. avail \in Seq(Nat) /\ Len(avail) = RxBuffers /\ \A i \in 1 .. RxBuffers : avail[i] = i
  BY <1>2, NetAssumption
<1>5. IsRing(avail)
  BY <1>4 DEF IsRing
<1>6. IsRing(<< >>) /\ Len(<< >>) = 0
  BY << >> \in Seq({}) DEF IsRing
<1>7. PICK used : used = e_rx.used /\ IsRing(used) /\ Len(used) = 0
  BY <1>3, <1>6
<1>8. Cardinality(RuntPlaces(used)) = 0
  <2>1. RuntPlaces(used) = {}
    BY <1>7 DEF RuntPlaces
  <2> QED BY <2>1, FS_EmptySet
<1>9. RxBuffers + 0 + 0 = RxBuffers + 0
  BY NetAssumption
<1>10. BuffersApart(avail, used, 0)
  BY <1>4, <1>5, <1>7, <1>8, <1>9 DEF BuffersApart
<1> QED BY <1>1, <1>3, <1>7, <1>10 DEF BufferInv

(* A frame is put into a buffer.                                           *)
LEMMA ArrivalKeepsBuffers ==
    ASSUME BufferInv, LeaseInv, e_rx.avail # << >>, NEW buffer, buffer.id = Head(e_rx.avail),
           {"avail", "used"} \subseteq DOMAIN e_rx', "runts" \in DOMAIN e_counts',
           e_rx'.avail = Tail(e_rx.avail), e_rx'.used = Append(e_rx.used, buffer),
           e_counts'.runts = e_counts.runts + (IF buffer.frame.kind = "runt" THEN 1 ELSE 0),
           e_wire' \subseteq e_wire, e_tx' = e_tx
    PROVE  BufferInv'
<1>1. BuffersApart(e_rx'.avail, e_rx'.used, e_counts'.runts)
  BY FilledStaysApart DEF BufferInv
<1>2. CASE e_tx.waits \in {"no", "step"}
  BY <1>1, <1>2 DEF BufferInv
<1>3. CASE e_tx.waits \notin {"no", "step"}
  <2>1. PICK used, more : used = e_rx.used /\ more = e_rx'.used
    OBVIOUS
  <2>2. IsRing(used) /\ used # << >>
    BY <1>3, <2>1 DEF LeaseInv
  <2>3. PICK n \in Nat : AppendAs(used, buffer, more, n)
    BY <2>1, <2>2, AppendIs
  <2>4. 1 \in 1 .. n
    <3>1. PICK S : used \in Seq(S)
      BY <2>2 DEF IsRing
    <3>2. Len(used) # 0
      BY <2>2, <3>1
    <3> QED BY <2>3, <3>2 DEF AppendAs
  <2>5. more[1] = used[1]
    BY <2>3, <2>4 DEF AppendAs
  <2> QED BY <1>1, <1>3, <2>1, <2>5 DEF BufferInv
<1> QED BY <1>2, <1>3

(* The steps that neither fill nor take a buffer                           *)
LEMMA SameBuffers ==
    ASSUME BufferInv, e_rx' = e_rx, "runts" \in DOMAIN e_counts', e_counts'.runts = e_counts.runts,
           \A frame \in e_wire' : frame.kind # "runt",
           e_tx'.waits \in {"no", "step"} \/ e_tx'.waits = e_tx.waits
             \/ e_rx.used[1].frame.kind # "runt"
    PROVE  BufferInv'
  BY DEF BufferInv

(* A buffer is given back or lost.                                         *)
LEMMA TakingKeepsBuffers ==
    ASSUME BufferInv, e_rx.used # << >>, e_tx'.waits = "no", e_wire' = e_wire,
           "runts" \in DOMAIN e_counts', e_counts'.runts = e_counts.runts,
           \/ e_rx' = Recycle(Head(e_rx.used).id) /\ e_rx.used[1].frame.kind # "runt"
           \/ e_rx' = [e_rx EXCEPT !.used = Tail(@)] /\ e_rx.used[1].frame.kind = "runt"
    PROVE  BufferInv'
<1>1. CASE e_rx' = Recycle(Head(e_rx.used).id) /\ e_rx.used[1].frame.kind # "runt"
  <2>1. PICK avail, used, a, u : /\ avail = e_rx.avail /\ used = e_rx.used
                                 /\ a = Append(avail, Head(used).id) /\ u = Tail(used)
    OBVIOUS
  <2>2. {"avail", "used"} \subseteq DOMAIN e_rx' /\ e_rx'.avail = a /\ e_rx'.used = u
    BY <1>1, <2>1 DEF Recycle, BufferInv
  <2>3. BuffersApart(avail, used, e_counts.runts)
    BY <2>1 DEF BufferInv
  <2>4. BuffersApart(a, u, e_counts.runts)
    BY <1>1, <2>1, <2>3, RecycledStaysApart
  <2> QED BY <2>2, <2>4 DEF BufferInv
<1>2. CASE e_rx' = [e_rx EXCEPT !.used = Tail(@)] /\ e_rx.used[1].frame.kind = "runt"
  <2>1. PICK avail, used, u : avail = e_rx.avail /\ used = e_rx.used /\ u = Tail(used)
    OBVIOUS
  <2>2. {"avail", "used"} \subseteq DOMAIN e_rx' /\ e_rx'.avail = avail /\ e_rx'.used = u
    BY <1>2, <2>1 DEF BufferInv
  <2>3. BuffersApart(avail, used, e_counts.runts)
    BY <2>1 DEF BufferInv
  <2>4. BuffersApart(avail, u, e_counts.runts)
    BY <1>2, <2>1, <2>3, LostStaysApart
  <2> QED BY <2>2, <2>4 DEF BufferInv
<1> QED BY <1>1, <1>2

(* The calls and their requests                                            *)
LEMMA CallStepsKeepBuffers ==
    ASSUME LeaseInv, BufferInv,
           \/ \E target \in Lan \union {Web} : Ping(target)
           \/ Wget \/ HttpServerOnce
           \/ RouteGet \/ OpenConnection \/ SendStep \/ GoOn \/ WaitTimeout \/ ServeEnd
           \/ PollServe \/ PollEnd
    PROVE  BufferInv'
<1>1. e_rx' = e_rx /\ e_wire' = e_wire
  BY DEF Ping, Wget, HttpServerOnce, BeginCall, RouteGet, OpenConnection, SendStep, GoOn,
         WaitTimeout, ServeEnd, PollServe, PollEnd
<1>2. "runts" \in DOMAIN e_counts' /\ e_counts'.runts = e_counts.runts
  <2>1. e_counts' = e_counts \/ e_counts' = [e_counts EXCEPT !["calls"] = @ + 1]
    BY DEF Ping, Wget, HttpServerOnce, BeginCall, Count, RouteGet, OpenConnection, SendStep, GoOn,
           WaitTimeout, ServeEnd, PollServe, PollEnd
  <2> QED BY <2>1 DEF BufferInv
<1>3. \A frame \in e_wire' : frame.kind # "runt"
  BY <1>1 DEF BufferInv
<1>4. CASE SendStep
  <2>1. e_tx'.waits = "step"
    BY <1>4 DEF SendStep, SendFrame, LeaseInv
  <2> QED BY <1>1, <1>2, <1>3, <2>1, SameBuffers
<1>5. CASE PollServe
  <2>1. e_rx.used # << >> /\ Head(e_rx.used).frame.kind # "runt"
    BY <1>5 DEF PollServe, Serves
  <2>2. PICK S : e_rx.used \in Seq(S)
    BY DEF LeaseInv, IsRing
  <2>3. Head(e_rx.used) = e_rx.used[1]
    BY <2>1, <2>2
  <2> QED BY <1>1, <1>2, <1>3, <2>1, <2>3, SameBuffers
<1>6. CASE ~SendStep /\ ~PollServe
  <2>1. e_tx' = e_tx
    BY <1>6 DEF Ping, Wget, HttpServerOnce, BeginCall, RouteGet, OpenConnection, GoOn,
                WaitTimeout, ServeEnd, PollEnd
  <2> QED BY <1>1, <1>2, <1>3, <2>1, SameBuffers
<1> QED BY <1>4, <1>5, <1>6

(* The steps that take a buffer from the queue: its frame is handled, or   *)
(* the wait for its answer is over.                                        *)
LEMMA TakingStepsKeepBuffers ==
    ASSUME LeaseInv, BufferInv, PollFrame \/ TransmitDone \/ TransmitTimeout
    PROVE  BufferInv'
<1>1. e_wire' = e_wire /\ e_tx'.waits = "no"
  BY DEF PollFrame, TransmitDone, TransmitTimeout, LeaseInv
<1>2. "runts" \in DOMAIN e_counts' /\ e_counts'.runts = e_counts.runts
  <2>1. e_counts' = e_counts \/ e_counts' = [e_counts EXCEPT !["timeouts"] = @ + 1]
    BY DEF PollFrame, TransmitDone, TransmitTimeout, Count
  <2> QED BY <2>1 DEF BufferInv
<1>3. PICK S : e_rx.used \in Seq(S)
  BY DEF LeaseInv, IsRing
<1>4. CASE PollFrame
  <2>1. e_rx.used # << >>
    BY <1>4 DEF PollFrame
  <2>2. Head(e_rx.used) = e_rx.used[1]
    BY <1>3, <2>1
  <2>3. e_rx' = IF Head(e_rx.used).frame.kind = "runt" THEN [e_rx EXCEPT !.used = Tail(@)]
                ELSE Recycle(Head(e_rx.used).id)
    BY <1>4 DEF PollFrame
  <2>4. \/ e_rx' = Recycle(Head(e_rx.used).id) /\ e_rx.used[1].frame.kind # "runt"
        \/ e_rx' = [e_rx EXCEPT !.used = Tail(@)] /\ e_rx.used[1].frame.kind = "runt"
    <3>1. CASE e_rx.used[1].frame.kind = "runt"
      BY <2>2, <2>3, <3>1, Zenon
    <3>2. CASE e_rx.used[1].frame.kind # "runt"
      BY <2>2, <2>3, <3>2, Zenon
    <3> QED BY <3>1, <3>2, Zenon
  <2> QED BY <1>1, <1>2, <2>1, <2>4, TakingKeepsBuffers, Zenon
<1>5. CASE TransmitDone \/ TransmitTimeout
  <2>1. CASE e_tx.waits = "step"
    <3>1. e_rx' = e_rx
      BY <1>5, <2>1 DEF TransmitDone, TransmitTimeout
    <3> QED BY <1>1, <1>2, <3>1, SameBuffers DEF BufferInv
  <2>2. CASE e_tx.waits # "step"
    <3>1. e_tx.waits # "no" /\ e_rx' = Recycle(Head(e_rx.used).id)
      BY <1>5, <2>2 DEF TransmitDone, TransmitTimeout
    <3>2. e_rx.used # << >>
      BY <2>2, <3>1 DEF LeaseInv
    <3>3. e_rx.used[1].frame.kind # "runt"
      BY <2>2, <3>1 DEF BufferInv
    <3> QED BY <1>1, <1>2, <3>1, <3>2, <3>3, TakingKeepsBuffers, Zenon
  <2> QED BY <2>1, <2>2
<1> QED BY <1>4, <1>5

(* The device and the network: no host sends an empty frame.               *)
LEMMA NetworkKeepsBuffers ==
    ASSUME LeaseInv, BufferInv,
           \/ \E a \in {"none", "dns", Web} : DeviceTransmit(a)
           \/ \E frame \in e_wire, stays \in BOOLEAN : Deliver(frame, stays)
           \/ DeliverRunt \/ ClientCalls
    PROVE  BufferInv'
<1>1. CASE \E a \in {"none", "dns", Web} : DeviceTransmit(a)
  <2>1. PICK a : DeviceTransmit(a)
    BY <1>1
  <2>2. /\ e_rx' = e_rx /\ e_counts' = e_counts /\ e_wire' = e_wire \union NetAnswers(e_tx.frame, a)
        /\ e_tx' = [e_tx EXCEPT !.owed = @ - 1, !.used = TRUE]
    BY <2>1 DEF DeviceTransmit
  <2>3. e_tx'.waits = e_tx.waits
    BY <2>2 DEF LeaseInv
  <2>4. \A frame \in NetAnswers(e_tx.frame, a) : frame.kind # "runt"
    BY DEF NetAnswers
  <2>5. \A frame \in e_wire' : frame.kind # "runt"
    BY <2>2, <2>4 DEF BufferInv
  <2> QED BY <2>2, <2>3, <2>5, SameBuffers DEF BufferInv
<1>2. CASE \E frame \in e_wire, stays \in BOOLEAN : Deliver(frame, stays)
  <2>1. PICK frame \in e_wire, stays \in BOOLEAN : Deliver(frame, stays)
    BY <1>2
  <2>2. PICK buffer : buffer = [id |-> Head(e_rx.avail), frame |-> frame]
    OBVIOUS
  <2>3. buffer.id = Head(e_rx.avail) /\ buffer.frame = frame
    BY <2>2
  <2>4. /\ e_rx.avail # << >> /\ e_wire' \subseteq e_wire /\ e_tx' = e_tx
        /\ e_rx' = [avail |-> Tail(e_rx.avail), used |-> Append(e_rx.used, buffer)]
        /\ e_counts' = e_counts \/ e_counts' = [e_counts EXCEPT !["repeats"] = @ + 1]
    BY <2>1, <2>2 DEF Deliver, Count
  <2>5. "runts" \in DOMAIN e_counts' /\ e_counts'.runts = e_counts.runts
    BY <2>4 DEF BufferInv
  <2>6. e_counts.runts \in Nat /\ buffer.frame.kind # "runt"
    BY <2>3 DEF BufferInv, BuffersApart
  <2>7. e_counts'.runts = e_counts.runts + (IF buffer.frame.kind = "runt" THEN 1 ELSE 0)
    BY <2>5, <2>6
  <2>8. {"avail", "used"} \subseteq DOMAIN e_rx' /\ e_rx'.avail = Tail(e_rx.avail)
        /\ e_rx'.used = Append(e_rx.used, buffer)
    BY <2>4
  <2> QED BY <2>3, <2>4, <2>5, <2>7, <2>8, ArrivalKeepsBuffers
<1>3. CASE DeliverRunt
  <2>2. PICK buffer : buffer = [id |-> Head(e_rx.avail), frame |-> [kind |-> "runt"]]
    OBVIOUS
  <2>3. buffer.id = Head(e_rx.avail) /\ buffer.frame.kind = "runt"
    BY <2>2
  <2>4. /\ e_rx.avail # << >> /\ e_wire' \subseteq e_wire /\ e_tx' = e_tx
        /\ e_rx' = [avail |-> Tail(e_rx.avail), used |-> Append(e_rx.used, buffer)]
        /\ e_counts' = [e_counts EXCEPT !["runts"] = @ + 1]
    BY <1>3, <2>2 DEF DeliverRunt, Count
  <2>5. "runts" \in DOMAIN e_counts' /\ e_counts'.runts = e_counts.runts + 1
    BY <2>4 DEF BufferInv
  <2>7. e_counts'.runts = e_counts.runts + (IF buffer.frame.kind = "runt" THEN 1 ELSE 0)
    BY <2>3, <2>5
  <2>8. {"avail", "used"} \subseteq DOMAIN e_rx' /\ e_rx'.avail = Tail(e_rx.avail)
        /\ e_rx'.used = Append(e_rx.used, buffer)
    BY <2>4
  <2> QED BY <2>3, <2>4, <2>5, <2>7, <2>8, ArrivalKeepsBuffers
<1>4. CASE ClientCalls
  <2>1. /\ UNCHANGED <<e_rx, e_tx, e_counts>>
        /\ e_wire' = e_wire \union {[kind |-> k, to |-> e_net.ip] : k \in {"client-syn", "client-get"}}
    BY <1>4 DEF ClientCalls
  <2>2. \A frame \in e_wire' : frame.kind # "runt"
    BY <2>1 DEF BufferInv
  <2> QED BY <2>1, <2>2, SameBuffers DEF BufferInv
<1> QED BY <1>1, <1>2, <1>3, <1>4

(* Every step of the driver, the device and the network                    *)
LEMMA NetStepKeepsBuffers ==
    ASSUME LeaseInv, BufferInv, [NetNext]_netVars
    PROVE  BufferInv'
<1>1. CASE NetNext
  BY <1>1, CallStepsKeepBuffers, TakingStepsKeepBuffers, NetworkKeepsBuffers DEF NetNext
<1>2. CASE UNCHANGED netVars
  BY <1>2, SameBuffers DEF netVars, BufferInv
<1> QED BY <1>1, <1>2

(* Nothing of virtio_net.c's own is used up by a call: between calls every *)
(* TCP connection is free, and every receive buffer that did not come back *)
(* empty is with the device or waits to be looked at, once.  For any       *)
(* number of buffers and connections, however often frames are repeated,   *)
(* buffers come back empty and transmissions are given up.                 *)
THEOREM NetResourcesCorrect == DevicesSpec => []NetResourcesKept
<1> DEFINE Inv == LeaseInv /\ RequestInv /\ BufferInv
<1>1. DevicesInit => Inv
  BY LeaseInitInv, RequestInitInv, BufferInitInv DEF DevicesInit
<1>2. Inv /\ [DevicesNext]_deviceVars => Inv'
  BY StepIsOfOneDevice, NetStepKeepsLease, NetStepKeepsRequests, NetStepKeepsBuffers
<1>3. Inv => NetResourcesKept
  <2>1. RequestInv => ConnectionsReleased
    BY DEF RequestInv, RequestsSound, TableSound, ConnectionsReleased
  <2>2. BufferInv => BuffersKept
    BY ApartIsKept DEF BufferInv
  <2> QED BY <2>1, <2>2 DEF NetResourcesKept
<1> QED BY <1>1, <1>2, <1>3, PTL DEF DevicesSpec, deviceVars
=============================================================================
