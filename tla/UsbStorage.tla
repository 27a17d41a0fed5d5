----------------------------- MODULE UsbStorage -----------------------------
(***************************************************************************)
(* The USB storage device, src/kernel/xhci.c: commands of the bulk-only    *)
(* protocol (a command block out, data, a status block in), each part one  *)
(* TRB in one of two rings that end in a link.  The driver looks only at   *)
(* the slot of a completion, its status blocks all have the same tag, and  *)
(* after a failure neither the rings nor the device are set back.          *)
(***************************************************************************)
EXTENDS Naturals, Sequences

CONSTANTS
    UsbBlocks,       \* storage_sector_count
    UsbPartBlocks,   \* USB_STORAGE_MAX_TRANSFER, in blocks
    UsbData,         \* what a block may hold, 0 for nothing
    LinkIndex,       \* 255: where the link TRB is
    MaxUsbCalls,     \* bound on the calls
    MaxUsbFailures   \* bound on transfers given up and commands refused

ASSUME UsbStorageAssumption ==
    /\ {UsbBlocks, UsbPartBlocks} \subseteq Nat \ {0} /\ LinkIndex \in Nat \ {0, 1}
    /\ {MaxUsbCalls, MaxUsbFailures} \subseteq Nat

VARIABLES
    u_disk,      \* the blocks of the device
    u_sector,    \* storage_sector_data
    u_cbw,       \* storage_cbw
    u_csw,       \* storage_csw
    u_rings,     \* per direction: the TRBs, the enqueue index and the cycle bit
    u_hc,        \* per direction: where the controller is, its cycle bit, halted
    u_device,    \* what the device expects next
    u_events,    \* completions not taken
    u_call,      \* the call in progress
    u_answer,    \* what the last call returned
    u_expected,  \* the blocks as the calls that returned left them
    u_counts     \* calls, transfers given up and commands refused so far

usbVars == <<u_disk, u_sector, u_cbw, u_csw, u_rings, u_hc, u_device, u_events, u_call, u_answer,
             u_expected, u_counts>>

UsbBlockNumbers == 0 .. UsbBlocks - 1
Directions == {"in", "out"}
NoUsbCall == [op |-> "none"]
NoCbw == [op |-> "none", lba |-> 0, count |-> 0]
ExpectsCommand == [phase |-> "cbw", cbw |-> NoCbw, ok |-> TRUE]
Unused == [kind |-> "none", cycle |-> 0]

-----------------------------------------------------------------------------
(* The driver                                                              *)

UsbPart(call) == IF call.left > UsbPartBlocks THEN UsbPartBlocks ELSE call.left

(* Which way a part goes, and what comes after it                          *)
DirectionOf(call, at) ==
    IF at = "csw" \/ (at = "data" /\ call.op = "read") THEN "in" ELSE "out"

AfterStage(call) ==
    CASE call.at = "cbw" -> IF call.op = "flush" THEN "csw" ELSE "data"
      [] call.at = "data" -> "csw"
      [] OTHER -> "end"

(* The head of storage_bulk_transfer: a TRB at the enqueue index, the link *)
(* behind the last one with the same cycle bit                             *)
Enqueued(ring, kind) ==
    [ring EXCEPT
        !.trbs = [i \in 0 .. LinkIndex |->
                     IF i = ring.enqueue THEN [kind |-> kind, cycle |-> ring.cycle]
                     ELSE IF i = LinkIndex /\ ring.enqueue = LinkIndex - 1
                     THEN [kind |-> "link", cycle |-> ring.cycle]
                     ELSE ring.trbs[i]],
        !.enqueue = @ + 1]

PostBulk(call) ==
    \E d \in {DirectionOf(call, call.at)} :
       /\ u_rings' = [u_rings EXCEPT ![d] = Enqueued(@, call.at)]
       /\ u_call' = call

(* Faulty variant: the cycle bit stays when the ring begins again.         *)
WrappedNoToggle(ring) == IF ring.enqueue = LinkIndex THEN [ring EXCEPT !.enqueue = 0] ELSE ring

(* The end of storage_bulk_transfer                                        *)
Wrapped(ring) ==
    IF ring.enqueue = LinkIndex THEN [ring EXCEPT !.enqueue = 0, !.cycle = 1 - @] ELSE ring

(* xhci_storage_transfer for one part, and storage_bot_command             *)
BeginPart(call) ==
    /\ u_sector' = CASE call.op = "write" -> SubSeq(call.data, call.done + 1, call.done + UsbPart(call))
                     [] call.op = "read" -> [i \in 1 .. UsbPart(call) |-> 0]
                     [] OTHER -> u_sector
    /\ u_cbw' = [op |-> call.op, lba |-> call.lba, count |-> UsbPart(call)]
    /\ u_csw' = "cleared"
    /\ PostBulk([call EXCEPT !.at = "cbw"])

(* xhci_storage_read_blocks, _write_blocks, _flush.  After a failure has   *)
(* left the enqueue index at the link, the next TRB replaces the link and  *)
(* the ones after it are beyond the ring: calls are followed up to there.  *)
WithinRings == \A d \in Directions : u_rings[d].enqueue < LinkIndex

UsbCall(op, lba, count, data) ==
    /\ u_call = NoUsbCall /\ u_counts.calls < MaxUsbCalls /\ WithinRings
    /\ u_counts' = [u_counts EXCEPT !.calls = @ + 1]
    /\ BeginPart([op |-> op, first |-> lba, lba |-> lba, left |-> count, done |-> 0,
                  data |-> data, at |-> "cbw"])
    /\ UNCHANGED <<u_disk, u_hc, u_device, u_events, u_answer, u_expected>>

UsbRead(lba, count) == UsbCall("read", lba, count, << >>)
UsbWrite(lba, count, d) == UsbCall("write", lba, count, [i \in 1 .. count |-> d])
UsbFlush == UsbCall("flush", 0, 0, << >>)

UsbFinish(call, ok) ==
    /\ u_call' = NoUsbCall
    /\ u_answer' = [op |-> call.op, ok |-> ok, first |-> call.first, data |-> call.data]
    /\ u_expected' =
          IF call.op # "write" THEN u_expected
          ELSE IF ~ok THEN u_disk
          ELSE [b \in UsbBlockNumbers |->
                   IF b \in call.first .. call.first + Len(call.data) - 1
                   THEN call.data[b - call.first + 1] ELSE u_expected[b]]

(* A transfer has ended well, and it was not the status block.             *)
NextStage ==
    /\ u_call # NoUsbCall /\ u_call.at # "csw" /\ u_events # << >> /\ Head(u_events)
    /\ u_events' = Tail(u_events)
    /\ \E d \in {DirectionOf(u_call, u_call.at)}, next \in {[u_call EXCEPT !.at = AfterStage(u_call)]} :
       \E rings \in {[u_rings EXCEPT ![d] = Wrapped(@)]}, e \in {DirectionOf(next, next.at)} :
          u_rings' = [rings EXCEPT ![e] = Enqueued(@, next.at)] /\ u_call' = next
    /\ UNCHANGED <<u_disk, u_sector, u_cbw, u_csw, u_hc, u_device, u_answer, u_expected, u_counts>>

(* The status block is there: what was read is copied out, and the next    *)
(* part begins or the call returns.                                        *)
Status ==
    LET served == [u_call EXCEPT !.lba = @ + UsbPart(u_call), !.left = @ - UsbPart(u_call),
                                 !.done = @ + UsbPart(u_call),
                                 !.data = IF u_call.op = "read" THEN @ \o u_sector ELSE @]
        rings == [u_rings EXCEPT !["in"] = Wrapped(@)]
    IN /\ u_call # NoUsbCall /\ u_call.at = "csw" /\ u_events # << >> /\ Head(u_events)
       /\ u_events' = Tail(u_events)
       /\ IF u_csw = "passed" /\ served.left > 0
          THEN /\ u_sector' = IF u_call.op = "write"
                              THEN SubSeq(served.data, served.done + 1, served.done + UsbPart(served))
                              ELSE [i \in 1 .. UsbPart(served) |-> 0]
               /\ u_cbw' = [op |-> served.op, lba |-> served.lba, count |-> UsbPart(served)]
               /\ u_csw' = "cleared"
               /\ u_rings' = [rings EXCEPT !["out"] = Enqueued(@, "cbw")]
               /\ u_call' = [served EXCEPT !.at = "cbw"]
               /\ UNCHANGED <<u_answer, u_expected>>
          ELSE /\ UsbFinish(IF u_csw = "passed" THEN served ELSE u_call, u_csw = "passed")
               /\ u_rings' = rings
               /\ UNCHANGED <<u_sector, u_cbw, u_csw>>
       /\ UNCHANGED <<u_disk, u_hc, u_device, u_counts>>

(* The transfer has failed, or the wait for it has run out.                *)
TransferFails ==
    /\ u_call # NoUsbCall /\ u_events # << >> /\ ~Head(u_events)
    /\ u_events' = Tail(u_events)
    /\ UsbFinish(u_call, FALSE)
    /\ UNCHANGED <<u_disk, u_sector, u_cbw, u_csw, u_rings, u_hc, u_device, u_counts>>

GiveUp ==
    /\ u_call # NoUsbCall /\ u_events = << >> /\ u_counts.failures < MaxUsbFailures
    /\ u_counts' = [u_counts EXCEPT !.failures = @ + 1]
    /\ UsbFinish(u_call, FALSE)
    /\ UNCHANGED <<u_disk, u_sector, u_cbw, u_csw, u_rings, u_hc, u_device, u_events>>

-----------------------------------------------------------------------------
(* The controller and the device                                           *)

(* The TRB the controller would take next, past the link if it is there    *)
AtLink(d) == LET trb == u_rings[d].trbs[u_hc[d].at] IN trb.kind = "link" /\ trb.cycle = u_hc[d].cycle
Position(d) == IF AtLink(d) THEN [u_hc[d] EXCEPT !.at = 0, !.cycle = 1 - @] ELSE u_hc[d]
Ready(d) ==
    LET trb == u_rings[d].trbs[Position(d).at]
    IN trb.cycle = Position(d).cycle /\ trb.kind \notin {"none", "link"}

(* The device does what it is asked for in its phase, or stalls; the       *)
(* endpoint is halted then.  A command it refuses has a status of its own. *)
Moves(kind, refuse) ==
    LET cbw == u_device.cbw IN
    CASE u_device.phase = "cbw" /\ kind = "cbw" ->
           /\ u_device' = [phase |-> IF u_cbw.op = "flush" THEN "csw" ELSE "data", cbw |-> u_cbw,
                           ok |-> ~refuse]
           /\ UNCHANGED <<u_disk, u_sector, u_csw>>
      [] u_device.phase = "data" /\ kind = "data" /\ cbw.op = "write" ->
           /\ u_disk' = IF ~u_device.ok THEN u_disk
                        ELSE [b \in UsbBlockNumbers |->
                                 IF b \in cbw.lba .. cbw.lba + cbw.count - 1 /\ b - cbw.lba < Len(u_sector)
                                 THEN u_sector[b - cbw.lba + 1] ELSE u_disk[b]]
           /\ u_device' = [u_device EXCEPT !.phase = "csw"]
           /\ UNCHANGED <<u_sector, u_csw>>
      [] u_device.phase = "data" /\ kind = "data" /\ cbw.op = "read" ->
           /\ u_sector' = IF ~u_device.ok THEN u_sector
                          ELSE [i \in DOMAIN u_sector |->
                                   IF i <= cbw.count THEN u_disk[cbw.lba + i - 1] ELSE u_sector[i]]
           /\ u_device' = [u_device EXCEPT !.phase = "csw"]
           /\ UNCHANGED <<u_disk, u_csw>>
      [] OTHER ->
           /\ u_csw' = IF u_device.ok THEN "passed" ELSE "failed"
           /\ u_device' = ExpectsCommand
           /\ UNCHANGED <<u_disk, u_sector>>

(* The part that the device expects next                                   *)
Expected(d, kind) ==
    /\ kind = u_device.phase
    /\ kind = "data" => d = (IF u_device.cbw.op = "read" THEN "in" ELSE "out")

Transfer(d, refuse) ==
    /\ ~u_hc[d].halted /\ Ready(d)
    /\ LET kind == u_rings[d].trbs[Position(d).at].kind IN
       /\ refuse => kind = "cbw" /\ Expected(d, kind) /\ u_counts.failures < MaxUsbFailures
       /\ IF Expected(d, kind)
          THEN Moves(kind, refuse) /\ u_events' = Append(u_events, TRUE)
          ELSE u_events' = Append(u_events, FALSE) /\ UNCHANGED <<u_disk, u_sector, u_csw, u_device>>
       /\ u_hc' = [u_hc EXCEPT ![d] = [at |-> Position(d).at + 1, cycle |-> Position(d).cycle,
                                       halted |-> ~Expected(d, kind)]]
       /\ u_counts' = [u_counts EXCEPT !.failures = IF refuse THEN @ + 1 ELSE @]
    /\ UNCHANGED <<u_cbw, u_rings, u_call, u_answer, u_expected>>

-----------------------------------------------------------------------------
(* The rings as configure_storage_bulk_endpoints leaves them.  The four    *)
(* commands of initialize_storage_scsi that come next, and its checks of   *)
(* the block size and the signature, are not modelled.                     *)
EmptyRing == [trbs |-> [i \in 0 .. LinkIndex |-> IF i = LinkIndex THEN [kind |-> "link", cycle |-> 1]
                                                 ELSE Unused],
              enqueue |-> 0, cycle |-> 1]

UsbInit ==
    /\ u_disk = [b \in UsbBlockNumbers |-> 0]
    /\ u_sector = << >> /\ u_cbw = NoCbw /\ u_csw = "cleared"
    /\ u_rings = [d \in Directions |-> EmptyRing]
    /\ u_hc = [d \in Directions |-> [at |-> 0, cycle |-> 1, halted |-> FALSE]]
    /\ u_device = ExpectsCommand
    /\ u_events = << >>
    /\ u_call = NoUsbCall
    /\ u_answer = [op |-> "none", ok |-> FALSE, first |-> 0, data |-> << >>]
    /\ u_expected = u_disk
    /\ u_counts = [calls |-> 0, failures |-> 0]

UsbNext ==
    \/ \E lba \in UsbBlockNumbers :
          \/ \E count \in 1 .. UsbBlocks - lba : UsbRead(lba, count)
          \/ \E count \in 1 .. UsbBlocks - lba, d \in UsbData : UsbWrite(lba, count, d)
    \/ UsbFlush
    \/ NextStage \/ Status \/ TransferFails \/ GiveUp
    \/ \E d \in Directions, refuse \in BOOLEAN : Transfer(d, refuse)

UsbSpec == UsbInit /\ [][UsbNext]_usbVars

-----------------------------------------------------------------------------
(* As long as nothing has failed, the device holds what the writes that    *)
(* reported success put there, and a read has returned it.                 *)
UsbAnswersTrue ==
    u_counts.failures = 0 /\ u_call = NoUsbCall =>
        /\ u_disk = u_expected
        /\ u_answer.op = "read" /\ u_answer.ok =>
              \A i \in DOMAIN u_answer.data : u_answer.data[i] = u_disk[u_answer.first + i - 1]

(* As long as nothing has failed, both rings begin again in step: between  *)
(* calls the controller is where the driver writes next, has nothing left  *)
(* to take there, and no endpoint is halted.                               *)
UsbRingsInStep ==
    u_counts.failures = 0 =>
        \A d \in Directions :
           /\ ~u_hc[d].halted
           /\ u_rings[d].enqueue <= LinkIndex
           /\ u_call = NoUsbCall => /\ Position(d).at = u_rings[d].enqueue
                                    /\ Position(d).cycle = u_rings[d].cycle
                                    /\ ~Ready(d)

=============================================================================
