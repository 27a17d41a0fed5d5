-------------------------------- MODULE Ahci --------------------------------
(***************************************************************************)
(* Commands of the AHCI driver, src/kernel/ahci.c.  Every command uses     *)
(* slot 0 of the first port with a drive and one buffer, ahci_dma_sector.  *)
(* Before each command the port is stopped and started again, which ends   *)
(* one that was given up; but data to write is put into the buffer before  *)
(* that, and the result of the stop is not looked at.                      *)
(***************************************************************************)
EXTENDS Naturals, Sequences

CONSTANTS
    AhciSectors,     \* ahci_sector_count
    BufferSectors,   \* AHCI_DMA_BUFFER_SIZE, in sectors
    AhciData,        \* what a sector may hold, 0 for nothing
    MaxAhciCalls,    \* bound on the calls
    MaxAhciTimeouts  \* bound on the commands given up

ASSUME AhciAssumption ==
    /\ AhciSectors \in Nat \ {0} /\ BufferSectors \in Nat \ {0}
    /\ MaxAhciCalls \in Nat /\ MaxAhciTimeouts \in Nat

VARIABLES
    a_disk,       \* a_disk[s]: sector s of the drive
    ahci_dma,     \* ahci_dma_sector
    port,         \* command_issue, interrupt_status and the command that runs
    a_call,       \* the call in progress
    a_answer,     \* what the last call returned
    a_expected,   \* the sectors as the calls that returned left them
    a_given_up,   \* commands given up
    a_calls       \* calls so far

ahciVars == <<a_disk, ahci_dma, port, a_call, a_answer, a_expected, a_given_up, a_calls>>

SectorNumbers == 0 .. AhciSectors - 1
NoAhciCall == [op |-> "none"]
NoCommand == [op |-> "none"]

ZeroSectors(count) == [i \in 1 .. count |-> 0]

-----------------------------------------------------------------------------
(* The driver                                                              *)

(* ahci_block_read and ahci_block_write: as much as fits into the buffer,  *)
(* then the rest                                                           *)
Part(call) == IF call.left > BufferSectors THEN BufferSectors ELSE call.left

(* The head of ahci_command and ahci_write_sector: the buffer is filled or *)
(* cleared.  ahci_read_sector leaves it to StopPort.                       *)
Prepare(call) ==
    /\ a_call' = [call EXCEPT !.at = "stop"]
    /\ ahci_dma' = CASE call.op = "write" ->
                          SubSeq(call.data, call.done + 1, call.done + Part(call))
                     [] call.op = "flush" -> ZeroSectors(1)
                     [] call.op = "read" /\ call.legacy -> ahci_dma
                     [] OTHER -> ZeroSectors(Part(call))

(* The calls of the block layer; ahci_read_sector and ahci_write_sector    *)
(* are about one sector and do by themselves what ahci_command does.       *)
AhciCall(op, lba, count, data, legacy) ==
    /\ a_call = NoAhciCall /\ a_calls < MaxAhciCalls
    /\ a_calls' = a_calls + 1
    /\ Prepare([op |-> op, first |-> lba, lba |-> lba, left |-> count, done |-> 0,
                data |-> data, at |-> "stop", legacy |-> legacy])
    /\ UNCHANGED <<a_disk, port, a_answer, a_expected, a_given_up>>

BlockRead(lba, count) == AhciCall("read", lba, count, << >>, FALSE)
BlockWrite(lba, count, d) == AhciCall("write", lba, count, [i \in 1 .. count |-> d], FALSE)
Flush == AhciCall("flush", 0, 0, << >>, FALSE)
ReadSector(lba) == AhciCall("read", lba, 1, << >>, TRUE)
WriteSector(lba, d) == AhciCall("write", lba, 1, << d >>, TRUE)

(* stop_port, start_port: the command in the port ends, unless the wait    *)
(* runs out first; then it goes on.                                        *)
StopPort(stops) ==
    /\ a_call # NoAhciCall /\ a_call.at = "stop"
    /\ stops \/ port.running # NoCommand
    /\ port' = IF stops THEN [issue |-> FALSE, error |-> FALSE, running |-> NoCommand]
               ELSE [port EXCEPT !.error = FALSE]
    /\ a_call' = [a_call EXCEPT !.at = "issue"]
    /\ ahci_dma' = IF a_call.legacy /\ a_call.op = "read" THEN ZeroSectors(BufferSectors)
                   ELSE ahci_dma
    /\ UNCHANGED <<a_disk, a_answer, a_expected, a_given_up, a_calls>>

(* The drive is not busy: header, command table and FIS are filled in and  *)
(* the command issued.  A port with an error does nothing before it has    *)
(* been stopped.                                                           *)
IssueCommand ==
    /\ a_call # NoAhciCall /\ a_call.at = "issue"
    /\ port.running = NoCommand
    /\ port' = [port EXCEPT
                   !.issue = TRUE,
                   !.running = IF port.error THEN NoCommand
                               ELSE [op |-> a_call.op, lba |-> a_call.lba,
                                     count |-> Part(a_call), moved |-> 0]]
    /\ a_call' = [a_call EXCEPT !.at = "wait"]
    /\ UNCHANGED <<a_disk, ahci_dma, a_answer, a_expected, a_given_up, a_calls>>

(* After a write that failed the sectors are what the drive made of them.  *)
AhciFinish(call, ok) ==
    /\ a_answer' = [op |-> call.op, ok |-> ok, first |-> call.first, data |-> call.data]
    /\ a_expected' =
          IF call.op # "write" THEN a_expected
          ELSE IF ~ok THEN a_disk
          ELSE [s \in SectorNumbers |->
                   IF s \in call.first .. call.first + Len(call.data) - 1
                   THEN call.data[s - call.first + 1] ELSE a_expected[s]]
    /\ a_call' = NoAhciCall

(* The drive stays busy (wait_clear), or the command is never done.        *)
AhciTimeout ==
    /\ a_call # NoAhciCall /\ a_given_up < MaxAhciTimeouts
    /\ a_call.at = "issue" \/ (a_call.at = "wait" /\ port.issue)
    /\ a_given_up' = a_given_up + 1
    /\ AhciFinish(a_call, FALSE)
    /\ UNCHANGED <<a_disk, ahci_dma, port, a_calls>>

(* command_issue is clear: the error bit is looked at, and what was read   *)
(* copied out.                                                             *)
Served(call) ==
    [call EXCEPT !.lba = @ + Part(call), !.left = @ - Part(call), !.done = @ + Part(call),
                 !.data = IF call.op = "read" THEN @ \o SubSeq(ahci_dma, 1, Part(call)) ELSE @]

AhciNextPart ==
    /\ a_call # NoAhciCall /\ a_call.at = "wait" /\ ~port.issue /\ ~port.error
    /\ \E call \in {Served(a_call)} : call.left > 0 /\ Prepare(call)
    /\ UNCHANGED <<a_disk, port, a_answer, a_expected, a_given_up, a_calls>>

AhciReturn ==
    /\ a_call # NoAhciCall /\ a_call.at = "wait" /\ ~port.issue
    /\ \E call \in {IF port.error THEN a_call ELSE Served(a_call)} :
          (port.error \/ call.left = 0) /\ AhciFinish(call, ~port.error)
    /\ UNCHANGED <<a_disk, ahci_dma, port, a_given_up, a_calls>>

-----------------------------------------------------------------------------
(* The drive                                                               *)

(* The next sector of the running command goes over.                       *)
MoveSector ==
    LET run == port.running
        here == run.lba + run.moved
        slot == run.moved + 1
    IN /\ run # NoCommand /\ run.op # "flush" /\ run.moved < run.count
       /\ slot \in DOMAIN ahci_dma
       /\ IF run.op = "write"
          THEN a_disk' = [a_disk EXCEPT ![here] = ahci_dma[slot]] /\ UNCHANGED ahci_dma
          ELSE ahci_dma' = [ahci_dma EXCEPT ![slot] = a_disk[here]] /\ UNCHANGED a_disk
       /\ port' = [port EXCEPT !.running.moved = @ + 1]
       /\ UNCHANGED <<a_call, a_answer, a_expected, a_given_up, a_calls>>

(* The command is done, or it fails at any point: the drive may leave the  *)
(* issue bit set then.                                                     *)
EndCommand(error) ==
    LET run == port.running IN
    /\ run # NoCommand
    /\ error \/ run.moved = run.count \/ run.op = "flush"
    /\ \E issue \in {FALSE} \union (IF error THEN {port.issue} ELSE {}) :
          port' = [issue |-> issue, error |-> error, running |-> NoCommand]
    /\ UNCHANGED <<a_disk, ahci_dma, a_call, a_answer, a_expected, a_given_up, a_calls>>

(* After ahci_initialize: the first port with a drive, which was           *)
(* identified                                                              *)
AhciInit ==
    /\ a_disk = [s \in SectorNumbers |-> 0]
    /\ ahci_dma = << >>
    /\ port = [issue |-> FALSE, error |-> FALSE, running |-> NoCommand]
    /\ a_call = NoAhciCall
    /\ a_answer = [op |-> "none", ok |-> FALSE, first |-> 0, data |-> << >>]
    /\ a_expected = a_disk
    /\ a_given_up = 0 /\ a_calls = 0

AhciNext ==
    \/ \E lba \in SectorNumbers :
          \/ \E count \in 1 .. AhciSectors - lba : BlockRead(lba, count)
          \/ \E count \in 1 .. AhciSectors - lba, d \in AhciData : BlockWrite(lba, count, d)
          \/ ReadSector(lba)
          \/ \E d \in AhciData : WriteSector(lba, d)
    \/ Flush
    \/ \E stops \in BOOLEAN : StopPort(stops)
    \/ IssueCommand \/ AhciTimeout \/ AhciNextPart \/ AhciReturn
    \/ MoveSector \/ \E error \in BOOLEAN : EndCommand(error)

AhciSpec == AhciInit /\ [][AhciNext]_ahciVars

-----------------------------------------------------------------------------
(* A read that reports success has returned what is on the drive, even     *)
(* after commands that were given up and stops that did not end them: a    *)
(* late transfer is over before the next command begins.                   *)
AhciReadsTrue ==
    a_call = NoAhciCall /\ a_answer.op = "read" /\ a_answer.ok =>
        \A i \in DOMAIN a_answer.data : a_answer.data[i] = a_disk[a_answer.first + i - 1]

(* As long as no command has been given up, the drive holds what the       *)
(* writes that reported success put there, and nothing else has changed.   *)
AhciWritesTrue == a_given_up = 0 /\ a_call = NoAhciCall => a_disk = a_expected

=============================================================================
