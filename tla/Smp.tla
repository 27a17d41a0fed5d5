--------------------------------- MODULE Smp ---------------------------------
(***************************************************************************)
(* Starting the application processors, src/kernel/smp.c.  The boot        *)
(* processor puts the stack for the next processor in the one trampoline   *)
(* that all of them start from, sends INIT and STARTUP, and waits with a   *)
(* bounded spin for the count of online processors to rise.  A started     *)
(* processor may run the trampoline at any later time, also after the boot *)
(* processor has given up on it.                                           *)
(***************************************************************************)
EXTENDS Naturals, FiniteSets

CONSTANTS
    Count,     \* processors->count
    Skipped    \* entries that are the boot processor's or have an id over 255

ASSUME SmpAssumption == Count \in Nat \ {0} /\ Skipped \subseteq 0 .. Count - 1
                           /\ Skipped # {}

VARIABLES
    index,               \* loop index of smp_start_secondary_processors
    at,                  \* where the boot processor is in the loop
    trampoline_stack,    \* the index of the stack in the trampoline
    expected_count,
    online_processors,
    ap,                  \* ap[i]: what processor i is doing
    ap_stack             \* ap_stack[i]: the stack it loaded, Count for none

smpVars == <<index, at, trampoline_stack, expected_count, online_processors,
          ap, ap_stack>>

Processors == 0 .. Count - 1

SmpInit ==
    /\ index = 0
    /\ at = "next"
    /\ trampoline_stack = Count
    /\ expected_count = 1
    /\ online_processors = 1
    /\ ap = [i \in Processors |-> "off"]
    /\ ap_stack = [i \in Processors |-> Count]

SkipEntry ==
    /\ at = "next"
    /\ index < Count
    /\ index \in Skipped
    /\ index' = index + 1
    /\ UNCHANGED <<at, trampoline_stack, expected_count, online_processors,
                   ap, ap_stack>>

(* The stack is written, then apic_start_processor sends the IPIs.         *)
StartProcessor ==
    /\ at = "next"
    /\ index < Count
    /\ index \notin Skipped
    /\ trampoline_stack' = index
    /\ expected_count' = expected_count + 1
    /\ ap' = [ap EXCEPT ![index] = "started"]
    /\ at' = "waiting"
    /\ UNCHANGED <<index, online_processors, ap_stack>>

SeesOnline ==
    /\ at = "waiting"
    /\ online_processors >= expected_count
    /\ index' = index + 1
    /\ at' = "next"
    /\ UNCHANGED <<trampoline_stack, expected_count, online_processors, ap,
                   ap_stack>>

(* Faulty variants: the next processor is started anyway; the spin has no  *)
(* bound.                                                                  *)
TimesOutAndGoesOn ==
    /\ at = "waiting"
    /\ online_processors < expected_count
    /\ index' = index + 1
    /\ at' = "next"
    /\ UNCHANGED <<trampoline_stack, expected_count, online_processors, ap,
                   ap_stack>>

TimesOutNever ==
    /\ at = "waiting"
    /\ online_processors < expected_count
    /\ UNCHANGED smpVars

(* The spin runs out: the function returns 0 and starts nobody else.       *)
TimesOut ==
    /\ at = "waiting"
    /\ online_processors < expected_count
    /\ at' = "failed"
    /\ UNCHANGED <<index, trampoline_stack, expected_count, online_processors,
                   ap, ap_stack>>

ReturnsOnline ==
    /\ at = "next"
    /\ index = Count
    /\ at' = "succeeded"
    /\ UNCHANGED <<index, trampoline_stack, expected_count, online_processors,
                   ap, ap_stack>>

(* A started processor loads the stack the trampoline holds at that time.  *)
LoadStack(i) ==
    /\ ap[i] = "started"
    /\ ap_stack' = [ap_stack EXCEPT ![i] = trampoline_stack]
    /\ ap' = [ap EXCEPT ![i] = "loaded"]
    /\ UNCHANGED <<index, at, trampoline_stack, expected_count,
                   online_processors>>

(* ap_main                                                                 *)
ApMain(i) ==
    /\ ap[i] = "loaded"
    /\ online_processors' = online_processors + 1
    /\ ap' = [ap EXCEPT ![i] = "halted"]
    /\ UNCHANGED <<index, at, trampoline_stack, expected_count, ap_stack>>

Bsp == SkipEntry \/ StartProcessor \/ SeesOnline \/ TimesOut \/ ReturnsOnline

Ap(i) == LoadStack(i) \/ ApMain(i)

SmpNext == Bsp \/ \E i \in Processors : Ap(i)

(* Every processor keeps executing; a processor that never answers its     *)
(* STARTUP is the case where only its own fairness fails, so none is       *)
(* assumed for the application processors.                                 *)
SmpSpec == SmpInit /\ [][SmpNext]_smpVars /\ WF_smpVars(Bsp)

-----------------------------------------------------------------------------
(* Properties.                                                             *)

(* Type correctness.                                                       *)
SmpTypeOK ==
    /\ index \in 0 .. Count
    /\ at \in {"next", "waiting", "failed", "succeeded"}
    /\ trampoline_stack \in 0 .. Count
    /\ expected_count \in 1 .. Count
    /\ online_processors \in 1 .. Count
    /\ ap \in [Processors -> {"off", "started", "loaded", "halted"}]
    /\ ap_stack \in [Processors -> 0 .. Count]

(* No processor runs on a stack that another one was given, even when one  *)
(* answers after the boot processor stopped waiting for it.                *)
StacksDistinct ==
    \A i \in Processors : ap[i] \in {"loaded", "halted"} => ap_stack[i] = i

(* The function reports success only when every processor it was to start  *)
(* is online.                                                              *)
SuccessMeansAllOnline ==
    at = "succeeded" => \A i \in Processors \ Skipped : ap[i] = "halted"

(* Starting always ends: a processor that does not answer cannot keep the  *)
(* boot processor waiting for ever.                                        *)
StartupEnds == <>(at \in {"failed", "succeeded"})

(* A processor that answers late harms nobody: it has a stack of its own,  *)
(* and it has been counted before success is reported.                     *)
StartupSound == SmpTypeOK /\ StacksDistinct /\ SuccessMeansAllOnline
=============================================================================
