----------------------------- MODULE Scheduler -----------------------------
(***************************************************************************)
(* The thread scheduler, src/kernel/scheduler.c, with the two pieces of    *)
(* assembly it depends on: context_switch and the timer interrupt entry of *)
(* src/kernel/x86_64.asm.  Threads run on one processor (the application   *)
(* processors only halt), so the whole machine state is one instruction    *)
(* stream that the timer interrupt may divert at any point where the       *)
(* interrupt flag is set.                                                  *)
(*                                                                         *)
(* A thread's stack is the sequence of its active procedure frames, the    *)
(* last one on top.  A stack pointer names a stack and a depth in it, so   *)
(* that a context saved in the wrong thread table entry, or restored from  *)
(* it, is visible.  context_switch saves no flags: the interrupt flag      *)
(* belongs to the processor and goes with the switch.                      *)
(***************************************************************************)
EXTENDS Naturals, Sequences, SequencesExt

CONSTANTS
    MaxThreads,     \* MAX_THREADS
    Entries,        \* thread entry functions
    Returning,      \* those of Entries that may return
    MaxDepth        \* bound on nested timer interrupts, in frames

ASSUME SchedulerAssumption ==
    /\ MaxThreads \in Nat \ {0}
    /\ Returning \subseteq Entries
    /\ MaxDepth \in Nat

VARIABLES
    stack_pointer,  \* threads[i].stack_pointer
    entry,          \* threads[i].entry
    active,         \* threads[i].active
    current_thread,
    thread_count,
    preemption_enabled,
    scheduler_lock_value,
    stack,          \* the frames on thread_stacks[i]; 0 is the boot stack
    cpu,            \* the stack the processor is running on
    interrupt_flag  \* RFLAGS.IF

table == <<stack_pointer, entry, active, current_thread, thread_count>>
processor == <<cpu, interrupt_flag>>
vars == <<table, preemption_enabled, scheduler_lock_value, stack, processor>>

ThreadIds == 0 .. MaxThreads - 1

NoEntry == "none"

-----------------------------------------------------------------------------
(* Frames.  next, previous and target are the locals of scheduler_yield.   *)

Frame(fn, at) == [fn |-> fn, at |-> at, next |-> 0, previous |-> 0,
                  target |-> [stack |-> 0, depth |-> 0]]

Top == Last(stack[cpu])

At(fn, label) == Top.fn = fn /\ Top.at = label

Replace(frame) == stack' = [stack EXCEPT ![cpu] = Append(Front(@), frame)]

Goto(label) == Replace([Top EXCEPT !.at = label])

(* The caller continues at label when the procedure it calls returns.      *)
Call(label, fn, start) ==
    stack' = [stack EXCEPT ![cpu] =
                Front(@) \o << [Top EXCEPT !.at = label], Frame(fn, start) >>]

Return == stack' = [stack EXCEPT ![cpu] = Front(@)]

StackTop(s) == [stack |-> s, depth |-> Len(stack[s])]

(* What the processor finds under a stack pointer it loads: the frames up  *)
(* to that depth, or memory that holds no frame of a thread at all.        *)
Restored(frames, depth) ==
    IF depth \in 1 .. Len(frames) THEN SubSeq(frames, 1, depth)
                                  ELSE << Frame("wild", "lost") >>

(* scheduler_initialize, reached with interrupts on.                       *)
Init ==
    /\ stack_pointer = [i \in ThreadIds |-> [stack |-> 0, depth |-> 0]]
    /\ entry = [i \in ThreadIds |-> NoEntry]
    /\ active = [i \in ThreadIds |-> i = 0]
    /\ current_thread = 0
    /\ thread_count = 1
    /\ preemption_enabled = FALSE
    /\ scheduler_lock_value = 0
    /\ stack = [i \in ThreadIds |->
                  IF i = 0 THEN << Frame("code", "run") >> ELSE << >>]
    /\ cpu = 0
    /\ interrupt_flag = TRUE

-----------------------------------------------------------------------------
(* scheduler_yield.  The lock is a spin lock: a step past "lock" needs it  *)
(* free.                                                                   *)

CallYield(label) ==
    /\ Call(label, "yield", "enter")
    /\ UNCHANGED <<table, preemption_enabled, scheduler_lock_value, processor>>

YieldEnter ==
    /\ At("yield", "enter")
    /\ Replace([Top EXCEPT !.next = current_thread, !.at = "lock"])
    /\ UNCHANGED <<table, preemption_enabled, scheduler_lock_value, processor>>

(* Faulty variant: the exchange does not look at what it finds.            *)
YieldLockTaken ==
    /\ At("yield", "lock")
    /\ scheduler_lock_value' = 1
    /\ Goto("pick")
    /\ UNCHANGED <<table, preemption_enabled, processor>>

YieldLock ==
    /\ At("yield", "lock")
    /\ scheduler_lock_value = 0
    /\ scheduler_lock_value' = 1
    /\ Goto("pick")
    /\ UNCHANGED <<table, preemption_enabled, processor>>

(* Faulty variant: every search starts at the beginning of the table.      *)
SuccessorOfZero(start, n) == n % thread_count

(* The first active thread in round-robin order after start, over one full *)
(* turn of the table, which start itself ends.                             *)
Successor(start, n) == (start + n) % thread_count

RoundRobin(start) ==
    LET turns == {n \in 1 .. thread_count : active[Successor(start, n)]} IN
    IF turns = {} THEN {}
    ELSE {Successor(start, CHOOSE n \in turns : \A m \in turns : n <= m)}

(* Nobody else to run: the lock is released and the caller continues.      *)
YieldStay ==
    /\ At("yield", "pick")
    /\ RoundRobin(Top.next) \subseteq {current_thread}
    /\ scheduler_lock_value' = 0
    /\ Return
    /\ UNCHANGED <<table, preemption_enabled, processor>>

YieldPick ==
    /\ At("yield", "pick")
    /\ \E n \in RoundRobin(Top.next) \ {current_thread} :
          /\ Replace([Top EXCEPT !.next = n, !.previous = current_thread,
                                 !.at = "unlock"])
          /\ current_thread' = n
    /\ UNCHANGED <<stack_pointer, entry, active, thread_count,
                   preemption_enabled, scheduler_lock_value, processor>>

YieldUnlock ==
    /\ At("yield", "unlock")
    /\ scheduler_lock_value' = 0
    /\ Goto("arguments")
    /\ UNCHANGED <<table, preemption_enabled, processor>>

(* The second argument of context_switch is read before the call.          *)
YieldArguments ==
    /\ At("yield", "arguments")
    /\ Replace([Top EXCEPT !.target = stack_pointer[Top.next], !.at = "switch"])
    /\ UNCHANGED <<table, preemption_enabled, scheduler_lock_value, processor>>

(* Faulty variant: the old stack pointer is saved in the next thread.      *)
ContextSwitchMisplaced ==
    LET to == Top.target
        suspended == [stack EXCEPT ![cpu] =
                         Append(Front(@), Frame("yield", "return"))]
    IN
    /\ At("yield", "switch")
    /\ stack_pointer' = [stack_pointer EXCEPT ![Top.next] = StackTop(cpu)]
    /\ stack' = [suspended EXCEPT ![to.stack] = Restored(@, to.depth)]
    /\ cpu' = to.stack
    /\ UNCHANGED <<entry, active, current_thread, thread_count,
                   preemption_enabled, scheduler_lock_value, interrupt_flag>>

(* context_switch: the caller will return to "return" when somebody        *)
(* restores the stack pointer saved here.  Frames above a restored stack   *)
(* pointer are abandoned.                                                  *)
ContextSwitch ==
    LET to == Top.target
        suspended == [stack EXCEPT ![cpu] =
                         Append(Front(@), Frame("yield", "return"))]
    IN
    /\ At("yield", "switch")
    /\ stack_pointer' = [stack_pointer EXCEPT ![Top.previous] = StackTop(cpu)]
    /\ stack' = [suspended EXCEPT ![to.stack] = Restored(@, to.depth)]
    /\ cpu' = to.stack
    /\ UNCHANGED <<entry, active, current_thread, thread_count,
                   preemption_enabled, scheduler_lock_value, interrupt_flag>>

YieldReturn ==
    /\ At("yield", "return")
    /\ Return
    /\ UNCHANGED <<table, preemption_enabled, scheduler_lock_value, processor>>

Yielding ==
    \/ YieldEnter \/ YieldLock \/ YieldStay \/ YieldPick \/ YieldUnlock
    \/ YieldArguments \/ ContextSwitch \/ YieldReturn

-----------------------------------------------------------------------------
(* scheduler_create_thread, called by the boot thread.                     *)

CreateLock ==
    /\ At("create", "lock")
    /\ scheduler_lock_value = 0
    /\ scheduler_lock_value' = 1
    /\ Goto("build")
    /\ UNCHANGED <<table, preemption_enabled, processor>>

FreeThreads == {i \in ThreadIds \ {0} : ~active[i]}

(* The first inactive entry gets a fresh stack that starts in              *)
(* thread_bootstrap.                                                       *)
CreateBuild(e) ==
    /\ At("create", "build")
    /\ FreeThreads # {}
    /\ LET i == CHOOSE i \in FreeThreads : \A j \in FreeThreads : i <= j IN
          /\ stack_pointer' =
                [stack_pointer EXCEPT ![i] = [stack |-> i, depth |-> 1]]
          /\ stack' = [stack EXCEPT ![i] = << Frame("bootstrap", "start") >>,
                                    ![cpu] = Append(Front(@),
                                               [Top EXCEPT !.at = "unlock"])]
          /\ entry' = [entry EXCEPT ![i] = e]
          /\ active' = [active EXCEPT ![i] = TRUE]
          /\ thread_count' = IF i >= thread_count THEN i + 1 ELSE thread_count
    /\ UNCHANGED <<current_thread, preemption_enabled, scheduler_lock_value,
                   processor>>

CreateFail ==
    /\ At("create", "build")
    /\ FreeThreads = {}
    /\ Goto("unlock")
    /\ UNCHANGED <<table, preemption_enabled, scheduler_lock_value, processor>>

CreateUnlock ==
    /\ At("create", "unlock")
    /\ scheduler_lock_value' = 0
    /\ Return
    /\ UNCHANGED <<table, preemption_enabled, processor>>

Creating ==
    CreateLock \/ (\E e \in Entries : CreateBuild(e)) \/ CreateFail \/ CreateUnlock

-----------------------------------------------------------------------------
(* thread_bootstrap                                                        *)

(* It reads its entry function through current_thread and turns interrupts *)
(* on, whoever switched to it.                                             *)
BootstrapStart(label) ==
    /\ At("bootstrap", "start")
    /\ Replace(Frame("code", label))
    /\ interrupt_flag' = TRUE
    /\ UNCHANGED <<table, preemption_enabled, scheduler_lock_value, cpu>>

EntryReturned(label) ==
    /\ At("code", label)
    /\ active' = [active EXCEPT ![current_thread] = FALSE]
    /\ Goto("exited")
    /\ UNCHANGED <<stack_pointer, entry, current_thread, thread_count,
                   preemption_enabled, scheduler_lock_value, processor>>

(* The loop of a finished thread; "halt" is where it goes on if anybody    *)
(* ever switches back to it.                                               *)
ExitYield ==
    /\ At("code", "exited")
    /\ CallYield("halt")

-----------------------------------------------------------------------------
(* The timer interrupt, taken at any point where the interrupt flag is     *)
(* set.  It turns the flag off until its iretq.                            *)

Tick ==
    /\ interrupt_flag
    /\ Len(stack[cpu]) + 1 <= MaxDepth
    /\ stack' = [stack EXCEPT ![cpu] = Append(@, Frame("irq", "handler"))]
    /\ interrupt_flag' = FALSE
    /\ UNCHANGED <<table, preemption_enabled, scheduler_lock_value, cpu>>

(* scheduler_on_timer_tick                                                 *)
TickIgnored ==
    /\ At("irq", "handler")
    /\ ~preemption_enabled
    /\ Goto("iretq")
    /\ UNCHANGED <<table, preemption_enabled, scheduler_lock_value, processor>>

TickYields ==
    /\ At("irq", "handler")
    /\ preemption_enabled
    /\ CallYield("iretq")

InterruptReturn ==
    /\ At("irq", "iretq")
    /\ Return
    /\ interrupt_flag' = TRUE
    /\ UNCHANGED <<table, preemption_enabled, scheduler_lock_value, cpu>>

-----------------------------------------------------------------------------
(* What the code of the threads does: yield, end (the entries that may),   *)
(* and, on the boot thread, create threads and switch preemption.          *)

CodeYields == At("code", "run") /\ CallYield("run")

CodeCreates ==
    /\ At("code", "run")
    /\ cpu = 0
    /\ Call("run", "create", "lock")
    /\ UNCHANGED <<table, preemption_enabled, scheduler_lock_value, processor>>

CodeReturns ==
    /\ cpu # 0
    /\ entry[cpu] \in Returning
    /\ EntryReturned("run")

SetPreemption(on) ==
    /\ At("code", "run")
    /\ cpu = 0
    /\ preemption_enabled' = on
    /\ UNCHANGED <<table, scheduler_lock_value, stack, processor>>

Interrupting == Tick \/ TickIgnored \/ InterruptReturn

CooperativeNext ==
    \/ Yielding \/ Creating \/ BootstrapStart("run") \/ ExitYield
    \/ CodeYields \/ CodeCreates \/ CodeReturns \/ Interrupting

PreemptiveNext ==
    \/ CooperativeNext \/ TickYields
    \/ \E on \in BOOLEAN : SetPreemption(on)

(* Preemption is off (main.c turns it off before the shell and the GUI     *)
(* run, and leaves it off without a local APIC timer).                     *)
Cooperative == Init /\ [][CooperativeNext]_vars

(* Preemption may be turned on and off at any time.                        *)
Preemptive == Init /\ [][PreemptiveNext]_vars

(* The code between two timer interrupts makes progress (they are 10 ms    *)
(* apart), and a thread's code yields again and again, as                  *)
(* gui_thread_entry and shell_interactive_worker do.                       *)
FairCooperative ==
    /\ Cooperative
    /\ WF_vars(TickIgnored \/ InterruptReturn)
    /\ SF_vars(Yielding \/ Creating \/ BootstrapStart("run") \/ ExitYield)
    /\ SF_vars(CodeYields)

-----------------------------------------------------------------------------
(* Properties.                                                             *)

Frames ==
    [fn : {"code", "yield", "create", "bootstrap", "irq", "wild"},
     at : {"run", "exited", "halt", "enter", "lock", "pick", "unlock",
           "arguments", "switch", "return", "build", "start", "handler",
           "iretq", "lost"},
     next : ThreadIds, previous : ThreadIds,
     target : [stack : ThreadIds, depth : Nat]]

(* Type correctness of the thread table, the stacks and the processor.     *)
TypeOK ==
    /\ stack_pointer \in [ThreadIds -> [stack : ThreadIds, depth : Nat]]
    /\ entry \in [ThreadIds -> Entries \union {NoEntry}]
    /\ active \in [ThreadIds -> BOOLEAN]
    /\ current_thread \in ThreadIds
    /\ thread_count \in 1 .. MaxThreads
    /\ preemption_enabled \in BOOLEAN
    /\ scheduler_lock_value \in {0, 1}
    /\ \A i \in ThreadIds : \A k \in DOMAIN stack[i] : stack[i][k] \in Frames
    /\ cpu \in ThreadIds
    /\ interrupt_flag \in BOOLEAN

Suspended(i) ==
    /\ stack[i] # << >>
    /\ \/ Last(stack[i]).fn = "yield" /\ Last(stack[i]).at = "return"
       \/ Last(stack[i]).fn = "bootstrap"

(* Every active thread that is not running can be resumed exactly where it *)
(* stopped: its saved stack pointer is the top of its own stack, which is  *)
(* inside context_switch or still in thread_bootstrap.                     *)
ContextsIntact ==
    \A i \in ThreadIds \ {cpu} :
        active[i] => stack_pointer[i] = StackTop(i) /\ Suspended(i)

(* current_thread names the thread that is running, except inside the      *)
(* switch itself: code that uses it, as thread_bootstrap does on a         *)
(* thread's first and last steps, sees its own entry.                      *)
CurrentIsRunning ==
    (\A k \in DOMAIN stack[cpu] :
        stack[cpu][k].fn = "yield" =>
            stack[cpu][k].at \notin {"unlock", "arguments", "switch"})
    => current_thread = cpu

(* A thread whose entry function has returned never runs again, so its     *)
(* stack can be given to a new thread.                                     *)
EndedNeverResumes == ~At("code", "halt")

(* Code never runs with interrupts off: no switch leaks the flag of an     *)
(* interrupt handler into a thread that yielded by itself.                 *)
CodeRunsInterruptible == Top.fn = "code" => interrupt_flag

InLock(f) ==
    \/ f.fn = "yield" /\ f.at \in {"pick", "unlock"}
    \/ f.fn = "create" /\ f.at \in {"build", "unlock"}

Holders == {p \in UNION {{i} \X DOMAIN stack[i] : i \in ThreadIds} :
                InLock(stack[p[1]][p[2]])}

(* At most one procedure activation is between the lock and the unlock,    *)
(* exactly when the lock word says so, whatever the timer does.            *)
LockProtects ==
    /\ \A p, q \in Holders : p = q
    /\ scheduler_lock_value = 1 <=> Holders # {}

(* The interrupt handler never waits for a lock that the code it           *)
(* interrupted holds: with interrupts off nobody would ever release it.    *)
HandlerNeverWaits ==
    ~(At("yield", "lock") /\ ~interrupt_flag /\ scheduler_lock_value = 1)

(* Round robin leaves nobody out: an active thread runs again and again    *)
(* until it ends.                                                          *)
NobodyStarves ==
    \A i \in ThreadIds : []<>(active[i] => cpu = i)

(* Without preemption a switch neither loses nor mixes up anything: the    *)
(* contexts, the current thread, the threads that have ended, the          *)
(* interrupt flag and the lock.                                            *)
SwitchesSound ==
    /\ TypeOK /\ ContextsIntact /\ CurrentIsRunning /\ EndedNeverResumes
    /\ CodeRunsInterruptible /\ HandlerNeverWaits
=============================================================================
