---------------------------- MODULE VirtioBlock ----------------------------
(***************************************************************************)
(* The VirtIO block driver, src/kernel/virtio_block.c.  One request at a   *)
(* time: its header, its status byte and descriptors 0 to 2 are always the *)
(* same memory, the data goes straight to and from the caller's buffer.    *)
(* The driver polls the used index a bounded number of times and then      *)
(* gives the request up; the device does not know.                         *)
(*                                                                         *)
(* A device reads the descriptors when it takes a request up, at any time  *)
(* after the notification, and finishes requests in order.  The index of   *)
(* the rings is counted modulo IndexLimit.                                 *)
(***************************************************************************)
EXTENDS Naturals, Sequences

CONSTANTS
    VirtioBlocks,   \* logical blocks of the device: block_count
    Factor,         \* sectors of a logical block
    VirtioData,     \* what a sector may hold
    IndexLimit,     \* 2^16
    MaxCalls,       \* bound on the calls
    MaxWaits        \* bound on the requests given up

ASSUME VirtioAssumption ==
    /\ 0 \notin VirtioData
    /\ VirtioBlocks \in Nat \ {0} /\ Factor \in Nat \ {0}
    /\ IndexLimit \in Nat \ {0, 1} /\ MaxCalls \in Nat /\ MaxWaits \in Nat

VARIABLES
    v_disk,       \* v_disk[s]: sector s of the device
    v_ring,       \* the memory shared with the device
    v_device,     \* requests the device has not taken up, the one it is at
    v_call,       \* the call in progress
    v_answer,     \* what the last call returned
    v_expected,   \* the sectors as the calls that returned left them
    v_given_up,   \* requests given up so far
    v_calls       \* calls so far

virtioVars == <<v_disk, v_ring, v_device, v_call, v_answer, v_expected, v_given_up, v_calls>>

VirtioSectors == 0 .. VirtioBlocks * Factor - 1
Unwritten == 0

NoRequest == [kind |-> "none"]
NoAnswer == [kind |-> "none"]

(* The sectors that a transfer of count blocks from a sector on is about   *)
Span(sector, count) == [i \in 1 .. count * Factor |-> sector + i - 1]

-----------------------------------------------------------------------------
(* virtio_block_transfer                                                   *)

(* Header, descriptors and status are filled in, the chain is made         *)
(* available and the device notified.  The buffers of calls are told apart *)
(* by number; the staging block is buffer 0.                               *)
Submitted(type, sector, count, buffer, id) ==
    /\ v_ring' = [v_ring EXCEPT !.type = type, !.sector = sector, !.count = count,
                                !.buffer = buffer, !.id = id, !.status = 255]
    /\ v_device' = [v_device EXCEPT !.waiting = @ + 1]

(* used->index as it was when the request was made                         *)
BeginTransfer(call, type, sector, count, buffer) ==
    /\ Submitted(type, sector, count, buffer,
                 IF call.staged THEN 0 ELSE v_calls + 1)
    /\ v_call' = [call EXCEPT !.before = v_ring.used]

(* The used index has moved: the status byte decides.                      *)
TransferDone == v_call # NoRequest /\ v_ring.used # v_call.before
TransferOk == v_ring.status = 0

-----------------------------------------------------------------------------
(* The calls                                                               *)

Call(kind, sector, count, data) ==
    [kind |-> kind, sector |-> sector, count |-> count, data |-> data, phase |-> "transfer",
     staged |-> kind \in {"read sector", "write sector"} /\ Factor > 1, before |-> 0]

(* A read starts from whatever is in the buffer.                           *)
Blank(count) == [i \in 1 .. count * Factor |-> Unwritten]

(* virtio_direct_read, virtio_direct_write                                 *)
DirectCall(kind, lba, count, data) ==
    /\ v_call = NoRequest /\ v_calls < MaxCalls
    /\ v_calls' = v_calls + 1
    /\ BeginTransfer(Call(kind, lba * Factor, count, data), kind, lba * Factor, count, data)
    /\ UNCHANGED <<v_disk, v_answer, v_expected, v_given_up>>

(* virtio_block_read_sector, virtio_block_write_sector: a sector of a      *)
(* larger block goes through legacy_sector_staging.  A write reads the     *)
(* block first.                                                            *)
SectorCall(kind, sector, data) ==
    LET start == sector - (sector % Factor)
        type == IF kind = "write sector" /\ Factor = 1 THEN "write" ELSE "read"
    IN /\ v_call = NoRequest /\ v_calls < MaxCalls
       /\ v_calls' = v_calls + 1
       /\ BeginTransfer([Call(kind, sector, 1, data) EXCEPT
                            !.phase = IF kind = "write sector" /\ Factor > 1
                                      THEN "fill" ELSE "transfer"],
                        type, start, 1, IF type = "write" THEN data ELSE Blank(1))
       /\ UNCHANGED <<v_disk, v_answer, v_expected, v_given_up>>

(* The block has been read: the sector is replaced and the block written.  *)
WriteBack ==
    LET start == v_call.sector - (v_call.sector % Factor)
        block == [v_ring.buffer EXCEPT ![v_call.sector - start + 1] = v_call.data[1]]
    IN /\ TransferDone /\ v_call.phase = "fill" /\ TransferOk
       /\ BeginTransfer([v_call EXCEPT !.phase = "transfer"], "write", start, 1, block)
       /\ UNCHANGED <<v_disk, v_answer, v_expected, v_given_up, v_calls>>

(* What a call has to say of the sectors it was about                      *)
Target(call) ==
    IF call.kind \in {"read sector", "write sector"} THEN << call.sector >>
    ELSE Span(call.sector, call.count)

Result(call) ==
    CASE call.kind = "read" -> v_ring.buffer
      [] call.kind = "read sector" -> << v_ring.buffer[(call.sector % Factor) + 1] >>
      [] OTHER -> call.data

Writes(call) == call.kind \in {"write", "write sector"}

(* After a write that failed the sectors are what the device made of them. *)
Finish(call, ok) ==
    LET target == Target(call) IN
    /\ v_answer' = [kind |-> call.kind, ok |-> ok, sectors |-> target,
                    data |-> IF ok THEN Result(call) ELSE << >>]
    /\ v_expected' =
          IF ~Writes(call) THEN v_expected
          ELSE IF ~ok THEN v_disk
          ELSE [s \in VirtioSectors |->
                   IF \E i \in DOMAIN target : target[i] = s
                   THEN call.data[CHOOSE i \in DOMAIN target : target[i] = s]
                   ELSE v_expected[s]]
    /\ v_call' = NoRequest

VirtioReturn ==
    /\ TransferDone
    /\ v_call.phase = "transfer" \/ ~TransferOk
    /\ Finish(v_call, TransferOk)
    /\ UNCHANGED <<v_disk, v_ring, v_device, v_given_up, v_calls>>

(* The polling loop ends without an answer.                                *)
VirtioTimeout ==
    /\ v_call # NoRequest /\ ~TransferDone /\ v_given_up < MaxWaits
    /\ v_given_up' = v_given_up + 1
    /\ Finish(v_call, FALSE)
    /\ UNCHANGED <<v_disk, v_ring, v_device, v_calls>>

-----------------------------------------------------------------------------
(* The device                                                              *)

(* It takes the next request up: what the descriptors say now.             *)
DeviceTakes ==
    /\ v_device.waiting > 0 /\ v_device.at = NoRequest
    /\ v_device' = [waiting |-> v_device.waiting - 1,
                    at |-> [kind |-> v_ring.type, sector |-> v_ring.sector,
                            count |-> v_ring.count, id |-> v_ring.id,
                            data |-> v_ring.buffer]]
    /\ UNCHANGED <<v_disk, v_ring, v_call, v_answer, v_expected, v_given_up, v_calls>>

(* It moves the data, writes the status and counts the used index up; or   *)
(* it fails.                                                               *)
DeviceDone(status) ==
    LET at == v_device.at
        span == Span(at.sector, at.count)
        current == at.id = v_ring.id /\ Len(v_ring.buffer) = Len(span)
        data == IF current THEN v_ring.buffer ELSE at.data
    IN /\ at # NoRequest
       /\ v_ring' = [v_ring EXCEPT !.buffer = IF current /\ at.kind = "read" /\ status = 0
                                              THEN [i \in DOMAIN span |-> v_disk[span[i]]] ELSE @,
                                   !.status = status, !.used = (@ + 1) % IndexLimit]
       /\ v_disk' = IF at.kind = "write" /\ status = 0
                    THEN [s \in VirtioSectors |->
                             IF \E i \in DOMAIN span : span[i] = s
                             THEN data[CHOOSE i \in DOMAIN span : span[i] = s] ELSE v_disk[s]]
                    ELSE v_disk
       /\ v_device' = [v_device EXCEPT !.at = NoRequest]
       /\ UNCHANGED <<v_call, v_answer, v_expected, v_given_up, v_calls>>

(* After virtio_block_initialize: an empty queue                           *)
VirtioInit ==
    /\ v_disk = [s \in VirtioSectors |-> Unwritten]
    /\ v_ring = [type |-> "none", sector |-> 0, count |-> 0, buffer |-> << >>, id |-> 0, status |-> 0,
                 used |-> 0]
    /\ v_device = [waiting |-> 0, at |-> NoRequest]
    /\ v_call = NoRequest /\ v_answer = NoAnswer
    /\ v_expected = v_disk
    /\ v_given_up = 0 /\ v_calls = 0

VirtioNext ==
    \/ \E lba \in 0 .. VirtioBlocks - 1 : \E count \in 1 .. VirtioBlocks - lba :
          \/ DirectCall("read", lba, count, Blank(count))
          \/ \E d \in VirtioData : DirectCall("write", lba, count,
                                              [i \in 1 .. count * Factor |-> d])
    \/ \E sector \in VirtioSectors :
          \/ SectorCall("read sector", sector, Blank(1))
          \/ \E d \in VirtioData : SectorCall("write sector", sector, << d >>)
    \/ WriteBack \/ VirtioReturn \/ VirtioTimeout
    \/ DeviceTakes \/ \E status \in {0, 1} : DeviceDone(status)

VirtioSpec == VirtioInit /\ [][VirtioNext]_virtioVars

-----------------------------------------------------------------------------
(* As long as no request has been given up, the device holds what the      *)
(* calls say: a write that reported success is on it and has changed       *)
(* nothing else, also when one sector of a larger block was replaced, and  *)
(* a read that reported success has returned its sectors.                  *)
VirtioAnswersTrue ==
    v_given_up = 0 /\ v_call = NoRequest =>
        /\ v_disk = v_expected
        /\ v_answer.kind \in {"read", "read sector"} /\ v_answer.ok =>
              v_answer.data = [i \in DOMAIN v_answer.sectors |-> v_expected[v_answer.sectors[i]]]

=============================================================================
