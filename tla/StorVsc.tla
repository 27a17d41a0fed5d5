------------------------------ MODULE StorVsc ------------------------------
(***************************************************************************)
(* The StorVSC client of src/kernel/hyperv_storage.c: the handshake with   *)
(* the storage provider, the probe of targets, and transfers.  Requests go *)
(* out on one ring and completions come back on another; the driver waits  *)
(* for one completion per request for a bounded time, and takes whichever  *)
(* comes: transaction ids are sent but not compared.  Data goes through    *)
(* vsp_sector_buf, the answers of a probe through vsp_probe_buf.           *)
(*                                                                         *)
(* The provider is external: it serves requests in order, at any time.     *)
(***************************************************************************)
EXTENDS Naturals, Sequences

CONSTANTS
    TargetCount,     \* the targets probed
    Capacity,        \* Capacity[t]: blocks of target t, 0 when there is none
    SectorBlocks,    \* blocks that fit into vsp_sector_buf
    StorData,        \* what a block may hold, 0 for nothing
    Versions,        \* protocol versions tried, in order
    MaxAttempts,     \* attempts of a transfer: 3
    MaxStorCalls,    \* bound on the transfers
    MaxStorLate,     \* bound on the requests given up
    MaxStorErrors    \* bound on the errors of the provider

Targets == 0 .. TargetCount - 1

ASSUME StorVscAssumption ==
    /\ TargetCount \in Nat \ {0}
    /\ Capacity \in [Targets -> Nat]
    /\ SectorBlocks \in Nat \ {0} /\ MaxAttempts \in Nat \ {0}
    /\ MaxStorCalls \in Nat /\ MaxStorLate \in Nat /\ MaxStorErrors \in Nat

VARIABLES
    s_at,          \* what the driver waits for
    s_out,         \* requests in the outbound ring
    s_in,          \* completions in the inbound ring
    s_probe,       \* vsp_probe_buf, as the size that is read from it
    s_buffer,      \* vsp_sector_buf, as blocks
    s_table,       \* storage_devices
    s_disk,        \* s_disk[t][b]: the blocks of the targets
    s_answer,      \* what the last transfer returned
    s_expected,    \* the blocks as the transfers that returned left them
    s_accepts,     \* the versions the provider accepts
    s_late,        \* requests given up
    s_errors,      \* errors of the provider
    s_calls        \* transfers so far

storVars == <<s_at, s_out, s_in, s_probe, s_buffer, s_table, s_disk, s_answer, s_expected,
              s_accepts, s_late, s_errors, s_calls>>

(* A cleared buffer says that block 0 is the last one; with the answer to  *)
(* an INQUIRY in it, its blocks are too large for a device to be made.     *)
Cleared == 1
Useless == 0

Idle == [step |-> "idle"]
Down == [step |-> "down"]
Off == [step |-> "off"]

(* vsp_ring_send, vsp_ring_send_gpa and vsp_signal                         *)
Send(request, at) ==
    /\ s_out' = Append(s_out, request)
    /\ s_at' = at

(* vsp_ring_recv: the first completion in the ring                         *)
Waiting == s_at.step \notin {"idle", "down", "off"}
Arrived == Waiting /\ s_in # << >>
Answer == Head(s_in)
Receive == s_in' = Tail(s_in)

-----------------------------------------------------------------------------
(* hyperv_vsp_initialize                                                   *)

Handshake == << "begin", "version", "properties", "end" >>

SendHandshake(n, tried) ==
    Send([op |-> Handshake[n], version |-> IF n = 2 THEN Versions[tried] ELSE "none"],
         [step |-> "handshake", n |-> n, tried |-> tried])

VspInitialize ==
    /\ s_at = Off
    /\ SendHandshake(1, 1)
    /\ UNCHANGED <<s_in, s_probe, s_buffer, s_table, s_disk, s_answer, s_expected, s_accepts,
                   s_late, s_errors, s_calls>>

(* A version that is refused leads to the next one; anything but a         *)
(* completion ends the handshake.                                          *)
HandshakeAnswer ==
    /\ Arrived /\ s_at.step = "handshake"
    /\ Receive
    /\ CASE s_at.n = 2 /\ Answer.status # 0 /\ s_at.tried < Len(Versions) ->
               SendHandshake(2, s_at.tried + 1)
         [] s_at.n = 2 /\ Answer.status # 0 /\ s_at.tried = Len(Versions) ->
               s_at' = Down /\ UNCHANGED s_out
         [] s_at.n = 4 -> s_at' = Idle /\ UNCHANGED s_out
         [] OTHER -> SendHandshake(s_at.n + 1, s_at.tried)
    /\ UNCHANGED <<s_probe, s_buffer, s_table, s_disk, s_answer, s_expected, s_accepts, s_late,
                   s_errors, s_calls>>

-----------------------------------------------------------------------------
(* hyperv_storage_probe_devices, hyperv_storage_rescan_devices,            *)
(* hyperv_storage_probe_one                                                *)

Inquiry(t) ==
    /\ s_probe' = Cleared
    /\ Send([op |-> "inquiry", target |-> t], [step |-> "inquiry", target |-> t])

(* The next target, or the end of the probe                                *)
ProbeNext(t) ==
    IF t + 1 = TargetCount THEN s_at' = Idle /\ UNCHANGED <<s_out, s_probe>> ELSE Inquiry(t + 1)

Probe ==
    /\ s_at = Idle
    /\ s_calls < MaxStorCalls
    /\ s_calls' = s_calls + 1
    /\ s_table' = << >>
    /\ Inquiry(0)
    /\ UNCHANGED <<s_in, s_buffer, s_disk, s_answer, s_expected, s_accepts, s_late, s_errors>>

(* A good answer to INQUIRY: the device is there, and is asked its size.   *)
InquiryAnswer ==
    /\ Arrived /\ s_at.step = "inquiry"
    /\ Receive
    /\ IF Answer.status = 0 /\ Answer.srb = 1 /\ Answer.scsi = 0
       THEN /\ s_probe' = Cleared
            /\ Send([op |-> "capacity", target |-> s_at.target],
                    [step |-> "capacity", target |-> s_at.target])
       ELSE ProbeNext(s_at.target)
    /\ UNCHANGED <<s_buffer, s_table, s_disk, s_answer, s_expected, s_accepts, s_late, s_errors,
                   s_calls>>

(* The table gets the device, with no blocks if the size is not known.     *)
Noted(t, count) == Append(s_table, [target |-> t, count |-> count])

CapacityAnswer ==
    /\ Arrived /\ s_at.step = "capacity"
    /\ Receive
    /\ s_table' = Noted(s_at.target,
                        IF Answer.status = 0 /\ Answer.srb = 1 /\ Answer.scsi = 0
                        THEN s_probe ELSE 0)
    /\ ProbeNext(s_at.target)
    /\ UNCHANGED <<s_buffer, s_disk, s_answer, s_expected, s_accepts, s_late, s_errors, s_calls>>

-----------------------------------------------------------------------------
(* hyperv_storage_transfer, called by hyperv_block_read and                *)
(* hyperv_block_write for as much as the buffer holds                      *)

Piece(call) == IF call.left > SectorBlocks THEN SectorBlocks ELSE call.left

SendTransfer(call) ==
    Send([op |-> call.op, target |-> call.target, lba |-> call.lba, count |-> Piece(call)],
         [call EXCEPT !.step = "transfer"])

(* The first attempt at a piece fills or clears the buffer.                *)
StartPiece(call) ==
    /\ s_buffer' = IF call.op = "write"
                   THEN SubSeq(call.data, call.done + 1, call.done + Piece(call))
                   ELSE [i \in 1 .. Piece(call) |-> 0]
    /\ SendTransfer([call EXCEPT !.attempt = 1])

StorCall(op, entry, lba, count, data) ==
    /\ s_at = Idle
    /\ s_calls < MaxStorCalls
    /\ s_calls' = s_calls + 1
    /\ lba < entry.count /\ count <= entry.count - lba
    /\ StartPiece([step |-> "transfer", op |-> op, target |-> entry.target, first |-> lba,
                   lba |-> lba, left |-> count, done |-> 0, data |-> data, attempt |-> 1])
    /\ UNCHANGED <<s_in, s_probe, s_table, s_disk, s_answer, s_expected, s_accepts, s_late,
                   s_errors>>

(* After a write that failed the blocks are what the provider made of      *)
(* them.                                                                   *)
StorReturn(call, ok) ==
    /\ s_answer' = [op |-> call.op, ok |-> ok, target |-> call.target, first |-> call.first,
                    data |-> call.data]
    /\ s_expected' =
          IF call.op # "write" THEN s_expected
          ELSE IF ~ok THEN s_disk
          ELSE [s_expected EXCEPT ![call.target] =
                   [b \in DOMAIN @ |->
                       IF b \in call.first .. call.first + Len(call.data) - 1
                       THEN call.data[b - call.first + 1] ELSE @[b]]]
    /\ s_at' = Idle

Moved(call) ==
    [call EXCEPT !.lba = @ + Piece(call), !.left = @ - Piece(call), !.done = @ + Piece(call),
                 !.data = IF call.op = "read" THEN @ \o s_buffer ELSE @]

(* A SCSI error is tried again, in place; an SRB error is not.             *)
Retry(answer, attempt) == answer.srb = 1 /\ answer.scsi # 0 /\ attempt < MaxAttempts

Good(answer) == answer.status = 0 /\ answer.srb = 1 /\ answer.scsi = 0

(* Faulty variant: the next attempt goes out before the answer is taken.   *)
TransferRetryUnread ==
    /\ Arrived /\ s_at.step = "transfer"
    /\ ~Good(Answer) /\ Answer.status = 0 /\ Retry(Answer, s_at.attempt)
    /\ SendTransfer([s_at EXCEPT !.attempt = @ + 1])
    /\ UNCHANGED <<s_in, s_probe, s_buffer, s_table, s_disk, s_answer, s_expected, s_accepts,
                   s_late, s_errors, s_calls>>

TransferRetry ==
    /\ Arrived /\ s_at.step = "transfer"
    /\ ~Good(Answer) /\ Answer.status = 0 /\ Retry(Answer, s_at.attempt)
    /\ Receive
    /\ SendTransfer([s_at EXCEPT !.attempt = @ + 1])
    /\ UNCHANGED <<s_probe, s_buffer, s_table, s_disk, s_answer, s_expected, s_accepts, s_late,
                   s_errors, s_calls>>

TransferNextPiece ==
    /\ Arrived /\ s_at.step = "transfer" /\ Good(Answer)
    /\ Receive
    /\ \E call \in {Moved(s_at)} : call.left > 0 /\ StartPiece(call)
    /\ UNCHANGED <<s_probe, s_table, s_disk, s_answer, s_expected, s_accepts, s_late, s_errors,
                   s_calls>>

TransferReturn ==
    /\ Arrived /\ s_at.step = "transfer"
    /\ Receive
    /\ IF Good(Answer)
       THEN \E call \in {Moved(s_at)} : call.left = 0 /\ StorReturn(call, TRUE)
       ELSE ~(Answer.status = 0 /\ Retry(Answer, s_at.attempt)) /\ StorReturn(s_at, FALSE)
    /\ UNCHANGED <<s_out, s_probe, s_buffer, s_table, s_disk, s_accepts, s_late, s_errors, s_calls>>

-----------------------------------------------------------------------------
(* The wait for a completion runs out.                                     *)
StorTimeout ==
    /\ Waiting /\ s_in = << >> /\ s_late < MaxStorLate
    /\ s_late' = s_late + 1
    /\ CASE s_at.step = "handshake" ->
               s_at' = Down /\ UNCHANGED <<s_out, s_probe, s_table, s_answer, s_expected>>
         [] s_at.step = "inquiry" ->
               ProbeNext(s_at.target) /\ UNCHANGED <<s_table, s_answer, s_expected>>
         [] s_at.step = "capacity" ->
               /\ s_table' = Noted(s_at.target, 0)
               /\ ProbeNext(s_at.target) /\ UNCHANGED <<s_answer, s_expected>>
         [] s_at.step = "transfer" ->
               StorReturn(s_at, FALSE) /\ UNCHANGED <<s_out, s_probe, s_table>>
    /\ UNCHANGED <<s_in, s_buffer, s_disk, s_accepts, s_errors, s_calls>>

-----------------------------------------------------------------------------
(* The storage provider                                                    *)

Completion(status, srb, scsi) == [status |-> status, srb |-> srb, scsi |-> scsi]

(* Every completion of a transfer may be an error instead.                 *)
Errors == {Completion(1, 1, 0), Completion(0, 4, 0), Completion(0, 1, 2)}

Serve ==
    LET request == Head(s_out)
        op == request.op
    IN /\ s_out # << >>
       /\ s_out' = Tail(s_out)
       /\ \/ /\ op \in {"begin", "version", "properties", "end"}
             /\ s_in' = Append(s_in, Completion(
                     IF op = "version" /\ request.version \notin s_accepts THEN 1 ELSE 0, 1, 0))
             /\ UNCHANGED <<s_probe, s_buffer, s_disk, s_errors>>
          \/ /\ op \in {"inquiry", "capacity"}
             /\ IF Capacity[request.target] = 0
                THEN s_in' = Append(s_in, Completion(0, 32, 0)) /\ UNCHANGED s_probe
                ELSE /\ s_in' = Append(s_in, Completion(0, 1, 0))
                     /\ s_probe' = IF op = "inquiry" THEN Useless ELSE Capacity[request.target]
             /\ UNCHANGED <<s_buffer, s_disk, s_errors>>
          \/ /\ op \in {"read", "write"}
             /\ request.lba + request.count <= Capacity[request.target]
             /\ s_in' = Append(s_in, Completion(0, 1, 0))
             /\ IF op = "read"
                THEN /\ s_buffer' = [i \in DOMAIN s_buffer |->
                                        IF i <= request.count
                                        THEN s_disk[request.target][request.lba + i - 1]
                                        ELSE s_buffer[i]]
                     /\ UNCHANGED s_disk
                ELSE /\ s_disk' = [s_disk EXCEPT ![request.target] =
                            [b \in DOMAIN @ |->
                                IF b \in request.lba .. request.lba + request.count - 1
                                   /\ b - request.lba + 1 \in DOMAIN s_buffer
                                THEN s_buffer[b - request.lba + 1] ELSE @[b]]]
                     /\ UNCHANGED s_buffer
             /\ UNCHANGED <<s_probe, s_errors>>
          \/ /\ op \in {"read", "write"}
             /\ request.lba + request.count > Capacity[request.target]
             /\ s_in' = Append(s_in, Completion(0, 4, 0))
             /\ UNCHANGED <<s_probe, s_buffer, s_disk, s_errors>>
          \/ /\ op \in {"read", "write"} /\ s_errors < MaxStorErrors
             /\ s_errors' = s_errors + 1
             /\ \E error \in Errors : s_in' = Append(s_in, error)
             /\ UNCHANGED <<s_probe, s_buffer, s_disk>>
       /\ UNCHANGED <<s_at, s_table, s_answer, s_expected, s_accepts, s_late, s_calls>>

StorInit ==
    /\ s_at = Off
    /\ s_out = << >> /\ s_in = << >>
    /\ s_probe = Cleared /\ s_buffer = << >>
    /\ s_table = << >>
    /\ s_disk = [t \in Targets |-> [b \in 0 .. Capacity[t] - 1 |-> 0]]
    /\ s_answer = [op |-> "none", ok |-> FALSE]
    /\ s_expected = s_disk
    /\ \E n \in 1 .. Len(Versions) + 1 : s_accepts = {Versions[i] : i \in n .. Len(Versions)}
    /\ s_late = 0 /\ s_errors = 0 /\ s_calls = 0

StorNext ==
    \/ VspInitialize \/ HandshakeAnswer
    \/ Probe \/ InquiryAnswer \/ CapacityAnswer
    \/ \E i \in DOMAIN s_table :
          \E lba \in 0 .. s_table[i].count - 1 : \E count \in 1 .. s_table[i].count - lba :
             \/ StorCall("read", s_table[i], lba, count, << >>)
             \/ \E d \in StorData :
                   StorCall("write", s_table[i], lba, count, [k \in 1 .. count |-> d])
    \/ TransferRetry \/ TransferNextPiece \/ TransferReturn
    \/ StorTimeout
    \/ Serve

StorSpec == StorInit /\ [][StorNext]_storVars

-----------------------------------------------------------------------------
(* As long as no request has been given up, the disks hold what the        *)
(* transfers say, a read that succeeded has returned its blocks, also      *)
(* after attempts that failed, and a probe that has ended has found just   *)
(* the targets there are, with their sizes.                                *)
StorAnswersTrue ==
    s_late = 0 /\ s_at = Idle =>
        /\ s_disk = s_expected
        /\ s_answer.op = "read" /\ s_answer.ok =>
              \A i \in DOMAIN s_answer.data :
                  s_answer.data[i] = s_expected[s_answer.target][s_answer.first + i - 1]
        /\ \A i \in DOMAIN s_table : s_table[i].count = Capacity[s_table[i].target]
        /\ s_table # << >> =>
              {s_table[i].target : i \in DOMAIN s_table} = {t \in Targets : Capacity[t] > 0}

(* The driver is exactly as many completions behind as it gave up waits:   *)
(* it never catches up, and never takes two for one.                       *)
StorBehind ==
    Len(s_out) + Len(s_in) = s_late + (IF Waiting THEN 1 ELSE 0)

=============================================================================
