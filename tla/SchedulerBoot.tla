--------------------------- MODULE SchedulerBoot ---------------------------
(***************************************************************************)
(* The boot sequence that tests the scheduler: main.c calls                *)
(* scheduler_self_test and scheduler_preemption_self_test and panics when  *)
(* either returns 0.  The threads they create are scheduler_test_worker,   *)
(* preemption_busy_worker and preemption_signal_worker.  The scheduler is  *)
(* the one of module Scheduler; here the code of the threads is given.     *)
(***************************************************************************)
EXTENDS Scheduler

VARIABLES
    self_test_counter,        \* TRUE once it holds the worker's mark
    preemption_test_complete

tests == <<self_test_counter, preemption_test_complete>>
bootVars == <<vars, tests>>

(* Where the boot thread is: it creates the worker, yields, checks, then   *)
(* creates the two threads of the second test, turns preemption on, yields *)
(* and checks again.                                                       *)
BootInit ==
    /\ Init
    /\ self_test_counter = FALSE
    /\ preemption_test_complete = FALSE

Creates(from, to) ==
    /\ At("code", from)
    /\ Call(to, "create", "lock")
    /\ UNCHANGED <<table, preemption_enabled, scheduler_lock_value, processor,
                   tests>>

(* The entry function the boot thread passes, by where it continues.       *)
EntryPassed ==
    LET caller == stack[cpu][Len(stack[cpu]) - 1].at IN
    CASE caller = "self_test" -> "worker"
      [] caller = "busy_created" -> "busy"
      [] caller = "signal_created" -> "signal"

Yields(from, to) == At("code", from) /\ CallYield(to) /\ UNCHANGED tests

Checks(from, passed, to) ==
    /\ At("code", from)
    /\ Goto(IF passed THEN to ELSE "panic")
    /\ UNCHANGED <<table, preemption_enabled, scheduler_lock_value, processor,
                   tests>>

EnablePreemption ==
    /\ At("code", "signal_created")
    /\ preemption_enabled' = TRUE
    /\ Goto("preemption_test")
    /\ UNCHANGED <<table, scheduler_lock_value, processor, tests>>

BootThread ==
    \/ Creates("run", "self_test")
    \/ Yields("self_test", "self_test_done")
    \/ Checks("self_test_done", self_test_counter, "self_test_passed")
    \/ Creates("self_test_passed", "busy_created")
    \/ Creates("busy_created", "signal_created")
    \/ EnablePreemption
    \/ Yields("preemption_test", "preemption_test_done")
    \/ Checks("preemption_test_done", preemption_test_complete, "passed")

TestWorker ==
    \/ /\ At("code", "worker")
       /\ self_test_counter' = TRUE
       /\ CallYield("worker_done")
       /\ UNCHANGED preemption_test_complete
    \/ EntryReturned("worker_done") /\ UNCHANGED tests

BusyWorker ==
    /\ preemption_test_complete
    /\ EntryReturned("busy")
    /\ UNCHANGED tests

SignalWorker ==
    \/ /\ At("code", "signal")
       /\ preemption_test_complete' = TRUE
       /\ Goto("signal_done")
       /\ UNCHANGED <<table, preemption_enabled, scheduler_lock_value, processor,
                      self_test_counter>>
    \/ EntryReturned("signal_done") /\ UNCHANGED tests

Kernel ==
    /\ \/ Yielding
       \/ CreateLock \/ CreateFail \/ CreateUnlock
       \/ At("create", "build") /\ CreateBuild(EntryPassed)
       \/ BootstrapStart(entry[current_thread])
       \/ ExitYield
       \/ Interrupting \/ TickYields
    /\ UNCHANGED tests

BootNext == Kernel \/ BootThread \/ TestWorker \/ BusyWorker \/ SignalWorker

BootSpec == BootInit /\ [][BootNext]_bootVars

(* main.c panics unless both self tests succeed, and the boot test waits   *)
(* for the lines it logs after them: a self test neither fails nor gets    *)
(* stuck in a handler that waits for a lock nobody can release.            *)
SelfTestsPass ==
    /\ stack[0] # << >> => stack[0][1].at # "panic"
    /\ HandlerNeverWaits
=============================================================================
