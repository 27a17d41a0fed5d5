----------------------------- MODULE MCThreads -----------------------------
(* The calls of the message queue, the threads of the boot processor       *)
(* without preemption, and the startup of the application processors, one  *)
(* at a time: what must go on for ever and what must end.                  *)
EXTENDS Ipc, Scheduler, Smp

VARIABLE part

ThreadsInit ==
    /\ part \in {"messages", "threads", "startup"}
    /\ IpcInit /\ Init /\ SmpInit

(* The processors that are up halt, and so does one that failed to start.  *)
StartupOver ==
    /\ at \in {"failed", "succeeded"}
    /\ UNCHANGED smpVars

Messaging(action) == part = "messages" /\ action /\ UNCHANGED <<part, vars, smpVars>>
Threads(action) == part = "threads" /\ action /\ UNCHANGED <<part, ipcVars, smpVars>>
Startup(action) == part = "startup" /\ action /\ UNCHANGED <<part, ipcVars, vars>>

ThreadsNext ==
    \/ Messaging(IpcNext)
    \/ Threads(CooperativeNext)
    \/ Startup(SmpNext) \/ Startup(StartupOver)

allVars == <<part, ipcVars, vars, smpVars>>

(* The fairness of FairIpc, FairCooperative and SmpSpec                    *)
ThreadsSpec ==
    /\ ThreadsInit /\ [][ThreadsNext]_allVars
    /\ \A t \in Callers : WF_allVars(Messaging(Running(t)))
    /\ WF_allVars(Threads(TickIgnored \/ InterruptReturn))
    /\ SF_allVars(Threads(Yielding \/ Creating \/ BootstrapStart("run") \/ ExitYield))
    /\ SF_allVars(Threads(CodeYields))
    /\ WF_allVars(Startup(Bsp))

(* Starting the processors always ends, whoever answers.                   *)
StartupAlwaysEnds == part = "startup" => StartupEnds

=============================================================================
