-------------------------------- MODULE Nvme --------------------------------
(***************************************************************************)
(* The I/O queue pair of the NVMe driver, src/kernel/nvme.c: a submission  *)
(* ring the driver fills and a completion ring it polls, whose entries     *)
(* carry a phase bit that changes with every round.  All transfers go      *)
(* through one page of memory, a call of several pages through several     *)
(* commands.  The wait for a completion is bounded; a command that was     *)
(* given up stays with the controller, and its completion with the ring.   *)
(*                                                                         *)
(* The controller executes commands in order and never fills the           *)
(* completion ring beyond the head it was told of.                         *)
(***************************************************************************)
EXTENDS Naturals, Sequences

CONSTANTS
    NvmeBlocks,      \* nvme_block_count
    PageBlocks,      \* blocks of a page: 4096 / nvme_block_size
    NvmeData,        \* what a block may hold, 0 for nothing
    QueueEntries,    \* NVME_QUEUE_ENTRIES
    MaxNvmeCalls,    \* bound on the calls
    MaxNvmeTimeouts  \* bound on the commands given up

ASSUME NvmeAssumption ==
    /\ NvmeBlocks \in Nat \ {0} /\ PageBlocks \in Nat \ {0}
    /\ QueueEntries \in Nat \ {0, 1}
    /\ MaxNvmeCalls \in Nat /\ MaxNvmeTimeouts \in Nat

VARIABLES
    n_medium,      \* n_medium[b]: block b
    n_page,        \* nvme_dma_sector, as blocks
    io_sq,         \* the submission ring
    io_sq_tail,
    io_cq,         \* the completion ring: phase and status of each entry
    io_cq_head,
    io_phase,
    controller,    \* how far it is in the two rings, and its phase
    n_call,        \* the call in progress
    n_answer,      \* what the last call returned
    n_expected,    \* the blocks as the calls that returned left them
    n_timeouts,    \* commands given up
    n_calls        \* calls so far

nvmeVars == <<n_medium, n_page, io_sq, io_sq_tail, io_cq, io_cq_head, io_phase, controller,
              n_call, n_answer, n_expected, n_timeouts, n_calls>>

NvmeSlots == 0 .. QueueEntries - 1
BlockNumbers == 0 .. NvmeBlocks - 1
NoNvmeCall == [op |-> "none"]

Zeros(count) == [i \in 1 .. count |-> 0]

-----------------------------------------------------------------------------
(* The driver                                                              *)

(* nvme_transfer, up to the doorbell: the page is filled or cleared, the   *)
(* command put into the ring.  The doorbells tell the controller at once.  *)
NvmeTransfer(op, lba, count, data) ==
    /\ lba < NvmeBlocks /\ count <= NvmeBlocks - lba
    /\ n_page' = IF op = "write" THEN data ELSE Zeros(count)
    /\ io_sq' = [io_sq EXCEPT ![io_sq_tail] = [op |-> op, lba |-> lba, count |-> count]]
    /\ io_sq_tail' = (io_sq_tail + 1) % QueueEntries

(* nvme_device_read, nvme_device_write: the next page of the call          *)
Chunk(call) == IF call.left > PageBlocks THEN PageBlocks ELSE call.left

SendChunk(call) ==
    NvmeTransfer(call.op, call.lba, Chunk(call),
                 IF call.op = "read" THEN << >>
                 ELSE SubSeq(call.data, call.done + 1, call.done + Chunk(call)))

NvmeCall(op, lba, count, data) ==
    LET call == [op |-> op, first |-> lba, lba |-> lba, left |-> count, done |-> 0,
                 data |-> data]
    IN /\ n_call = NoNvmeCall /\ n_calls < MaxNvmeCalls
       /\ n_calls' = n_calls + 1
       /\ n_call' = call
       /\ SendChunk(call)
       /\ UNCHANGED <<n_medium, io_cq, io_cq_head, io_phase, controller, n_answer, n_expected,
                      n_timeouts>>

(* wait_completion, ring_cq: the entry at the head is of this round.       *)
Completed == n_call # NoNvmeCall /\ io_cq[io_cq_head].phase = io_phase

(* Faulty variant: the phase is never changed.                             *)
TakeCompletionSamePhase ==
    /\ io_cq_head' = (io_cq_head + 1) % QueueEntries
    /\ io_phase' = io_phase

TakeCompletion ==
    /\ io_cq_head' = (io_cq_head + 1) % QueueEntries
    /\ io_phase' = IF io_cq_head' = 0 THEN 1 - io_phase ELSE io_phase

(* What a chunk has brought, and the call that is left                     *)
Advanced(call) ==
    LET chunk == Chunk(call) IN
    [call EXCEPT !.lba = @ + chunk, !.left = @ - chunk, !.done = @ + chunk,
                 !.data = IF call.op = "read" THEN @ \o n_page ELSE @]

NvmeNextChunk ==
    /\ Completed /\ io_cq[io_cq_head].status = 0
    /\ TakeCompletion
    /\ \E call \in {Advanced(n_call)} :
          call.left > 0 /\ n_call' = call /\ SendChunk(call)
    /\ UNCHANGED <<n_medium, io_cq, controller, n_answer, n_expected, n_timeouts, n_calls>>

(* The call returns.  After a write that failed the blocks are what the    *)
(* controller made of them.                                                *)
NvmeFinish(call, ok) ==
    /\ n_answer' = [op |-> call.op, ok |-> ok, first |-> call.first, data |-> call.data]
    /\ n_expected' =
          IF call.op = "read" THEN n_expected
          ELSE IF ~ok THEN n_medium
          ELSE [b \in BlockNumbers |->
                   IF b \in call.first .. call.first + Len(call.data) - 1
                   THEN call.data[b - call.first + 1] ELSE n_expected[b]]
    /\ n_call' = NoNvmeCall

NvmeReturn ==
    /\ Completed
    /\ \E call \in {Advanced(n_call)}, ok \in {io_cq[io_cq_head].status = 0} :
          /\ ~ok \/ call.left = 0
          /\ NvmeFinish(IF ok THEN call ELSE n_call, ok)
    /\ TakeCompletion
    /\ UNCHANGED <<n_medium, n_page, io_sq, io_sq_tail, io_cq, controller, n_timeouts, n_calls>>

NvmeTimeout ==
    /\ n_call # NoNvmeCall /\ ~Completed /\ n_timeouts < MaxNvmeTimeouts
    /\ n_timeouts' = n_timeouts + 1
    /\ NvmeFinish(n_call, FALSE)
    /\ UNCHANGED <<n_medium, n_page, io_sq, io_sq_tail, io_cq, io_cq_head, io_phase, controller,
                   n_calls>>

-----------------------------------------------------------------------------
(* The controller                                                          *)

(* The next command is executed on the page as it is now, and answered.    *)
Execute(status) ==
    LET command == io_sq[controller.sq_head]
        span == command.lba .. command.lba + command.count - 1
        full == (controller.cq_tail + 1) % QueueEntries = io_cq_head
    IN /\ controller.sq_head # io_sq_tail /\ ~full
       /\ n_page' = IF command.op = "read" /\ status = 0 /\ Len(n_page) >= command.count
                    THEN [i \in DOMAIN n_page |->
                             IF i <= command.count THEN n_medium[command.lba + i - 1]
                             ELSE n_page[i]]
                    ELSE n_page
       /\ n_medium' = IF command.op = "write" /\ status = 0
                      THEN [b \in BlockNumbers |->
                               IF b \in span /\ b - command.lba + 1 \in DOMAIN n_page
                               THEN n_page[b - command.lba + 1] ELSE n_medium[b]]
                      ELSE n_medium
       /\ io_cq' = [io_cq EXCEPT ![controller.cq_tail] = [phase |-> controller.phase,
                                                         status |-> status]]
       /\ controller' = [controller EXCEPT
             !.sq_head = (@ + 1) % QueueEntries, !.cq_tail = (@ + 1) % QueueEntries,
             !.phase = IF controller.cq_tail + 1 = QueueEntries THEN 1 - @ ELSE @]
       /\ UNCHANGED <<io_sq, io_sq_tail, io_cq_head, io_phase, n_call, n_answer, n_expected,
                      n_timeouts, n_calls>>

(* After nvme_initialize: the namespace identified, the two rings created  *)
(* and cleared, the phase at 1                                             *)
NvmeInit ==
    /\ n_medium = [b \in BlockNumbers |-> 0]
    /\ n_page = << >>
    /\ io_sq = [i \in NvmeSlots |-> [op |-> "none", lba |-> 0, count |-> 0]]
    /\ io_sq_tail = 0
    /\ io_cq = [i \in NvmeSlots |-> [phase |-> 0, status |-> 0]]
    /\ io_cq_head = 0
    /\ io_phase = 1
    /\ controller = [sq_head |-> 0, cq_tail |-> 0, phase |-> 1]
    /\ n_call = NoNvmeCall
    /\ n_answer = [op |-> "none", ok |-> FALSE, first |-> 0, data |-> << >>]
    /\ n_expected = n_medium
    /\ n_timeouts = 0
    /\ n_calls = 0

NvmeNext ==
    \/ \E lba \in BlockNumbers : \E count \in 1 .. NvmeBlocks - lba :
          \/ NvmeCall("read", lba, count, << >>)
          \/ \E d \in NvmeData : NvmeCall("write", lba, count, [i \in 1 .. count |-> d])
    \/ NvmeNextChunk \/ NvmeReturn \/ NvmeTimeout
    \/ \E status \in {0, 1} : Execute(status)

NvmeSpec == NvmeInit /\ [][NvmeNext]_nvmeVars

-----------------------------------------------------------------------------
(* As long as no command has been given up, across every wrap of the rings *)
(* and change of the phase, a completion is taken once and for the command *)
(* that is waited for: the medium holds what the calls say, and a read     *)
(* that reported success has returned the blocks, however many pages.      *)
NvmeAnswersTrue ==
    n_timeouts = 0 /\ n_call = NoNvmeCall =>
        /\ n_medium = n_expected
        /\ n_answer.op = "read" /\ n_answer.ok =>
              \A i \in DOMAIN n_answer.data : n_answer.data[i] = n_expected[n_answer.first + i - 1]

(* Commands that were given up are never lost sight of altogether: the     *)
(* driver is exactly as many completions behind as it gave up waits, as    *)
(* long as they are fewer than the ring has places.                        *)
Behind == (io_sq_tail + QueueEntries - io_cq_head) % QueueEntries
NvmeBehind ==
    n_timeouts + 1 < QueueEntries =>
        Behind = n_timeouts + (IF n_call = NoNvmeCall THEN 0 ELSE 1)

=============================================================================
