-------------------------- MODULE SchedulerProofs --------------------------
(***************************************************************************)
(* Proofs about the thread scheduler of module Scheduler, for every size   *)
(* of the thread table and every depth of nested interrupts, and about the *)
(* startup of the application processors of module Smp, for every number   *)
(* of processors and every choice of skipped entries.                      *)
(***************************************************************************)
EXTENDS Scheduler, Smp, SequenceTheorems, WellFoundedInduction, TLAPS

-----------------------------------------------------------------------------
(* Facts about the operators the model is built from.                      *)

(* A non-empty set of numbers has a least one: both searches of the thread *)
(* table find an entry when there is one.                                  *)
LEMMA LeastExists ==
    ASSUME NEW T, T \subseteq Nat, T # {}
    PROVE  \E n \in T : \A m \in T : n <= m
<1>1. PICK n \in T : \A m \in T : ~ (<<m, n>> \in OpToRel(<, Nat))
  BY NatLessThanWellFounded, WFMin
<1>2. \A m \in T : ~ (m < n)
  BY <1>1 DEF OpToRel
<1> QED
  BY <1>2

(* What is left of a stack when its top frame is taken off.                *)
LEMMA FrontProperties ==
    ASSUME NEW S, NEW s \in Seq(S), s # << >>
    PROVE  /\ Len(s) \in Nat \ {0}
           /\ Last(s) = s[Len(s)]
           /\ Last(s) \in S
           /\ Front(s) \in Seq(S)
           /\ Len(Front(s)) = Len(s) - 1
           /\ \A k \in 1 .. Len(s) - 1 : Front(s)[k] = s[k]
<1>1. Len(s) \in Nat \ {0}
  BY EmptySeq
<1>2. PICK n \in Nat : n = Len(s) - 1
  BY <1>1
<1>3. \A k \in 1 .. n : s[k] \in S
  BY <1>1, <1>2
<1>4. /\ Front(s) \in Seq(S)
      /\ Len(Front(s)) = IF 1 <= n THEN n - 1 + 1 ELSE 0
      /\ \A k \in 1 .. n - 1 + 1 : Front(s)[k] = s[1 + k - 1]
  BY <1>2, <1>3, SubSeqProperties, Z3 DEF Front
<1>5. n - 1 + 1 = n /\ (~(1 <= n) => n = 0) /\ \A k \in 1 .. n : 1 + k - 1 = k
  OBVIOUS
<1>6. Last(s) = s[Len(s)] /\ s[Len(s)] \in S
  BY <1>1 DEF Last
<1> QED
  BY <1>1, <1>2, <1>4, <1>5, <1>6

(* Replacing the top frame leaves the ones under it.                       *)
LEMMA ReplaceProperties ==
    ASSUME NEW S, NEW s \in Seq(S), s # << >>, NEW f \in S
    PROVE  /\ Append(Front(s), f) \in Seq(S)
           /\ Len(Append(Front(s), f)) = Len(s)
           /\ \A k \in 1 .. Len(s) - 1 : Append(Front(s), f)[k] = s[k]
           /\ Append(Front(s), f)[Len(s)] = f
<1>1. /\ Front(s) \in Seq(S)
      /\ Len(s) \in Nat \ {0}
      /\ Len(Front(s)) = Len(s) - 1
      /\ \A k \in 1 .. Len(s) - 1 : Front(s)[k] = s[k]
  BY FrontProperties
<1> QED
  BY <1>1, AppendProperties

(* A call replaces the caller's frame and puts the callee's on top.        *)
LEMMA CallProperties ==
    ASSUME NEW S, NEW s \in Seq(S), s # << >>, NEW g \in S, NEW f \in S
    PROVE  /\ Front(s) \o << g, f >> \in Seq(S)
           /\ Len(Front(s) \o << g, f >>) = Len(s) + 1
           /\ \A k \in 1 .. Len(s) - 1 : (Front(s) \o << g, f >>)[k] = s[k]
           /\ (Front(s) \o << g, f >>)[Len(s)] = g
           /\ (Front(s) \o << g, f >>)[Len(s) + 1] = f
<1>1. /\ Front(s) \in Seq(S)
      /\ Len(s) \in Nat \ {0}
      /\ Len(Front(s)) = Len(s) - 1
      /\ \A k \in 1 .. Len(s) - 1 : Front(s)[k] = s[k]
  BY FrontProperties
<1>2. << g, f >> \in Seq(S) /\ Len(<< g, f >>) = 2
  OBVIOUS
<1> QED
  BY <1>1, <1>2, ConcatProperties

(* What is found under a stack pointer is a part of the stack, from its    *)
(* base up, or no frame of a thread at all.                                *)
LEMMA RestoredProperties ==
    ASSUME NEW S, NEW s \in Seq(S), NEW d \in Nat
    PROVE  \/ Restored(s, d) = << Frame("wild", "lost") >>
           \/ /\ Restored(s, d) \in Seq(S)
              /\ d \in 1 .. Len(s)
              /\ Len(Restored(s, d)) = d
              /\ \A k \in 1 .. d : Restored(s, d)[k] = s[k]
<1>1. CASE d \in 1 .. Len(s)
  <2>1. \A k \in 1 .. d : s[k] \in S
    BY <1>1
  <2>2. /\ SubSeq(s, 1, d) \in Seq(S)
        /\ Len(SubSeq(s, 1, d)) = IF 1 <= d THEN d - 1 + 1 ELSE 0
        /\ \A k \in 1 .. d - 1 + 1 : SubSeq(s, 1, d)[k] = s[1 + k - 1]
    BY <1>1, <2>1, SubSeqProperties, Z3
  <2> QED
    BY <1>1, <2>2 DEF Restored
<1> QED
  BY <1>1 DEF Restored

(* A round-robin search over a turn of the table finds an active thread,   *)
(* or there is none.                                                       *)
LEMMA RoundRobinProperties ==
    ASSUME TypeOK, NEW start \in ThreadIds
    PROVE  /\ \A n \in RoundRobin(start) :
                  n \in 0 .. thread_count - 1 /\ active[n]
           /\ start < thread_count /\ active[0] => RoundRobin(start) # {}
<1> DEFINE turns == {n \in 1 .. thread_count : active[Successor(start, n)]}
           least == CHOOSE n \in turns : \A m \in turns : n <= m
<1>1. thread_count \in Nat \ {0} /\ start \in Nat
  BY SchedulerAssumption DEF TypeOK, ThreadIds
<1>2. \A n \in Nat : Successor(start, n) \in 0 .. thread_count - 1
  BY <1>1, Z3 DEF Successor
<1>3. CASE turns = {}
  <2>1. RoundRobin(start) = {}
    BY <1>3 DEF RoundRobin
  <2>2. CASE start < thread_count /\ active[0]
    <3>1. Successor(start, thread_count - start) = 0
      BY <1>1, <2>2, Z3 DEF Successor
    <3>2. thread_count - start \in 1 .. thread_count
      BY <1>1, <2>2
    <3> QED
      BY <1>3, <2>2, <3>1, <3>2
  <2> QED
    BY <2>1, <2>2
<1>4. CASE turns # {}
  <2>1. turns \subseteq Nat
    BY <1>1
  <2>2. \E n \in turns : \A m \in turns : n <= m
    BY <1>4, <2>1, LeastExists
  <2>3. least \in turns
    BY <2>2
  <2>4. RoundRobin(start) = {Successor(start, least)}
    BY <1>4 DEF RoundRobin
  <2> QED
    BY <1>1, <1>2, <2>3, <2>4
<1> QED
  BY <1>3, <1>4

-----------------------------------------------------------------------------
(* What a step does to the stacks, for stacks of frames of which the       *)
(* running one is not empty and no base frame can return.                  *)

(* The function at the base of a thread's stack has no caller.             *)
BaseStays ==
    \A i \in ThreadIds :
        stack[i] # << >> => stack[i][1].fn \in {"code", "bootstrap", "wild"}

(* Only the boot thread creates threads.                                   *)
CreatorIsBoot ==
    \A i \in ThreadIds : \A k \in 1 .. Len(stack[i]) :
        stack[i][k].fn = "create" => i = 0

WellFormed ==
    /\ TypeOK
    /\ stack \in [ThreadIds -> Seq(Frames)]
    /\ stack[cpu] # << >>
    /\ BaseStays
    /\ CreatorIsBoot

Procedures == {"code", "yield", "create", "bootstrap", "irq", "wild"}

Labels ==
    {"run", "exited", "halt", "enter", "lock", "pick", "unlock", "arguments",
     "switch", "return", "build", "start", "handler", "iretq", "lost"}

(* A fresh frame is a frame.                                               *)
LEMMA FrameType ==
    ASSUME NEW fn \in Procedures, NEW label \in Labels
    PROVE  /\ Frame(fn, label) \in Frames
           /\ Frame(fn, label).fn = fn
           /\ Frame(fn, label).at = label
BY SchedulerAssumption DEF Procedures, Labels, Frames, Frame, ThreadIds

(* The running procedure moves on inside its frame.                        *)
LEMMA MovedFrameType ==
    ASSUME NEW f \in Frames, NEW label \in Labels
    PROVE  /\ [f EXCEPT !.at = label] \in Frames
           /\ [f EXCEPT !.at = label].fn = f.fn
           /\ [f EXCEPT !.at = label].at = label
           /\ [f EXCEPT !.at = label].next = f.next
           /\ [f EXCEPT !.at = label].previous = f.previous
           /\ [f EXCEPT !.at = label].target = f.target
BY DEF Labels, Frames

(* The running frame is a frame, the last one of the running stack.        *)
LEMMA TopProperties ==
    ASSUME WellFormed
    PROVE  /\ cpu \in ThreadIds
           /\ stack[cpu] \in Seq(Frames)
           /\ Len(stack[cpu]) \in Nat \ {0}
           /\ Top = stack[cpu][Len(stack[cpu])]
           /\ Top \in Frames
           /\ Top.fn \in {"yield", "create", "irq"} => Len(stack[cpu]) > 1
<1>1. cpu \in ThreadIds /\ stack[cpu] \in Seq(Frames) /\ stack[cpu] # << >>
  BY DEF WellFormed, TypeOK
<1>2. /\ Len(stack[cpu]) \in Nat \ {0}
      /\ Top = stack[cpu][Len(stack[cpu])]
      /\ Top \in Frames
  BY <1>1, FrontProperties DEF Top
<1>3. Len(stack[cpu]) = 1 => Top.fn \in {"code", "bootstrap", "wild"}
  BY <1>1, <1>2 DEF WellFormed, BaseStays
<1>4. Top.fn \in {"yield", "create", "irq"} => Len(stack[cpu]) # 1
  BY <1>3
<1>5. \A n \in Nat \ {0} : n # 1 => n > 1
  OBVIOUS
<1> QED
  BY <1>1, <1>2, <1>4, <1>5

(* The running frame is replaced.                                          *)
LEMMA ReplaceEffect ==
    ASSUME WellFormed, NEW f \in Frames, Replace(f)
    PROVE  /\ stack' \in [ThreadIds -> Seq(Frames)]
           /\ \A i \in ThreadIds \ {cpu} : stack'[i] = stack[i]
           /\ Len(stack'[cpu]) = Len(stack[cpu])
           /\ \A k \in 1 .. Len(stack[cpu]) - 1 :
                  stack'[cpu][k] = stack[cpu][k]
           /\ stack'[cpu][Len(stack[cpu])] = f
<1>1. stack' = [stack EXCEPT ![cpu] = Append(Front(stack[cpu]), f)]
  BY DEF Replace
<1>2. stack'[cpu] = Append(Front(stack[cpu]), f)
  BY <1>1, TopProperties DEF WellFormed
<1>3. /\ stack'[cpu] \in Seq(Frames)
      /\ Len(stack'[cpu]) = Len(stack[cpu])
      /\ \A k \in 1 .. Len(stack[cpu]) - 1 : stack'[cpu][k] = stack[cpu][k]
      /\ stack'[cpu][Len(stack[cpu])] = f
  BY <1>2, TopProperties, ReplaceProperties DEF WellFormed
<1> QED
  BY <1>1, <1>3, TopProperties DEF WellFormed

(* The running procedure calls another one.                                *)
LEMMA CallEffect ==
    ASSUME WellFormed, NEW label \in Labels, NEW fn \in Procedures,
           NEW start \in Labels, Call(label, fn, start)
    PROVE  /\ stack' \in [ThreadIds -> Seq(Frames)]
           /\ \A i \in ThreadIds \ {cpu} : stack'[i] = stack[i]
           /\ Len(stack'[cpu]) = Len(stack[cpu]) + 1
           /\ \A k \in 1 .. Len(stack[cpu]) - 1 :
                  stack'[cpu][k] = stack[cpu][k]
           /\ stack'[cpu][Len(stack[cpu])] = [Top EXCEPT !.at = label]
           /\ stack'[cpu][Len(stack[cpu]) + 1] = Frame(fn, start)
<1> DEFINE g == [Top EXCEPT !.at = label]
           f == Frame(fn, start)
<1>1. stack' = [stack EXCEPT ![cpu] = Front(stack[cpu]) \o << g, f >>]
  BY DEF Call
<1>2. stack'[cpu] = Front(stack[cpu]) \o << g, f >>
  BY <1>1, TopProperties DEF WellFormed
<1>3. g \in Frames /\ f \in Frames
  BY TopProperties, MovedFrameType, FrameType
<1> DEFINE s == stack[cpu]
<1>s. s \in Seq(Frames) /\ s # << >>
  BY TopProperties DEF WellFormed
<1> HIDE DEF f, g, s
<1>c. /\ Front(s) \o << g, f >> \in Seq(Frames)
      /\ Len(Front(s) \o << g, f >>) = Len(s) + 1
      /\ \A k \in 1 .. Len(s) - 1 : (Front(s) \o << g, f >>)[k] = s[k]
      /\ (Front(s) \o << g, f >>)[Len(s)] = g
      /\ (Front(s) \o << g, f >>)[Len(s) + 1] = f
  BY <1>3, <1>s, CallProperties
<1>4. /\ stack'[cpu] \in Seq(Frames)
      /\ Len(stack'[cpu]) = Len(stack[cpu]) + 1
      /\ \A k \in 1 .. Len(stack[cpu]) - 1 : stack'[cpu][k] = stack[cpu][k]
      /\ stack'[cpu][Len(stack[cpu])] = g
      /\ stack'[cpu][Len(stack[cpu]) + 1] = f
  BY <1>2, <1>c DEF s
<1>5. stack' \in [ThreadIds -> Seq(Frames)]
  BY <1>1, <1>2, <1>4, TopProperties DEF WellFormed
<1> QED
  BY <1>1, <1>4, <1>5, TopProperties DEF WellFormed, f, g

(* The running procedure returns to its caller, which exists.              *)
LEMMA ReturnEffect ==
    ASSUME WellFormed, Return, Top.fn \in {"yield", "create", "irq"}
    PROVE  /\ stack' \in [ThreadIds -> Seq(Frames)]
           /\ \A i \in ThreadIds \ {cpu} : stack'[i] = stack[i]
           /\ Len(stack[cpu]) > 1
           /\ Len(stack'[cpu]) = Len(stack[cpu]) - 1
           /\ \A k \in 1 .. Len(stack[cpu]) - 1 :
                  stack'[cpu][k] = stack[cpu][k]
<1>1. stack' = [stack EXCEPT ![cpu] = Front(stack[cpu])]
  BY DEF Return
<1>2. stack'[cpu] = Front(stack[cpu])
  BY <1>1, TopProperties DEF WellFormed
<1>3. /\ stack'[cpu] \in Seq(Frames)
      /\ Len(stack'[cpu]) = Len(stack[cpu]) - 1
      /\ \A k \in 1 .. Len(stack[cpu]) - 1 : stack'[cpu][k] = stack[cpu][k]
  BY <1>2, TopProperties, FrontProperties, ZenonT(30) DEF WellFormed
<1> QED
  BY <1>1, <1>3, TopProperties DEF WellFormed

(* The timer interrupt puts its frame on top.                              *)
LEMMA TickEffect ==
    ASSUME WellFormed, Tick
    PROVE  /\ stack' \in [ThreadIds -> Seq(Frames)]
           /\ \A i \in ThreadIds \ {cpu} : stack'[i] = stack[i]
           /\ Len(stack'[cpu]) = Len(stack[cpu]) + 1
           /\ \A k \in 1 .. Len(stack[cpu]) : stack'[cpu][k] = stack[cpu][k]
           /\ stack'[cpu][Len(stack[cpu]) + 1] = Frame("irq", "handler")
<1> DEFINE f == Frame("irq", "handler")
<1>1. stack' = [stack EXCEPT ![cpu] = Append(stack[cpu], f)]
  BY DEF Tick
<1>2. stack'[cpu] = Append(stack[cpu], f)
  BY <1>1, TopProperties DEF WellFormed
<1>3. f \in Frames
  BY FrameType DEF Procedures, Labels
<1> HIDE DEF f
<1>4. /\ stack'[cpu] \in Seq(Frames)
      /\ Len(stack'[cpu]) = Len(stack[cpu]) + 1
      /\ \A k \in 1 .. Len(stack[cpu]) : stack'[cpu][k] = stack[cpu][k]
      /\ stack'[cpu][Len(stack[cpu]) + 1] = f
  BY <1>2, <1>3, TopProperties, AppendProperties
<1> QED
  BY <1>1, <1>4, TopProperties DEF WellFormed, f

-----------------------------------------------------------------------------
(* The stacks stay well formed.                                            *)

(* The types of everything but the stacks.                                 *)
TableTypes ==
    /\ stack_pointer \in [ThreadIds -> [stack : ThreadIds, depth : Nat]]
    /\ entry \in [ThreadIds -> Entries \union {NoEntry}]
    /\ active \in [ThreadIds -> BOOLEAN]
    /\ current_thread \in ThreadIds
    /\ thread_count \in 1 .. MaxThreads
    /\ preemption_enabled \in BOOLEAN
    /\ scheduler_lock_value \in {0, 1}
    /\ cpu \in ThreadIds
    /\ interrupt_flag \in BOOLEAN

Bases == {"code", "bootstrap", "wild"}

(* A step that changes only the running stack, and keeps a base frame      *)
(* there, keeps the stacks well formed.                                    *)
LEMMA WellFormedAfter ==
    ASSUME WellFormed, TableTypes', cpu' = cpu,
           stack' \in [ThreadIds -> Seq(Frames)],
           \A i \in ThreadIds \ {cpu} : stack'[i] = stack[i],
           stack'[cpu] # << >>,
           stack'[cpu][1].fn \in Bases,
           \A k \in 1 .. Len(stack'[cpu]) :
               stack'[cpu][k].fn = "create" => cpu = 0
    PROVE  WellFormed'
<1>1. \A i \in ThreadIds : \A k \in DOMAIN stack'[i] : stack'[i][k] \in Frames
  OBVIOUS
<1>2. TypeOK'
  BY <1>1 DEF TypeOK, TableTypes
<1>3. BaseStays'
  BY DEF WellFormed, BaseStays, Bases
<1>4. CreatorIsBoot'
  BY DEF WellFormed, CreatorIsBoot
<1> QED
  BY <1>2, <1>3, <1>4 DEF WellFormed

(* The running procedure moves on, or bootstrap enters the thread's code.  *)
LEMMA ReplaceKeeps ==
    ASSUME WellFormed, NEW f \in Frames, Replace(f), TableTypes', cpu' = cpu,
           f.fn = Top.fn \/ (Top.fn = "bootstrap" /\ f.fn = "code")
    PROVE  WellFormed'
<1>n. PICK n \in Nat \ {0} : n = Len(stack[cpu])
  BY TopProperties
<1>1. /\ stack' \in [ThreadIds -> Seq(Frames)]
      /\ \A i \in ThreadIds \ {cpu} : stack'[i] = stack[i]
      /\ Len(stack'[cpu]) = n
      /\ \A k \in 1 .. n - 1 : stack'[cpu][k] = stack[cpu][k]
      /\ stack'[cpu][n] = f
  BY <1>n, ReplaceEffect
<1>2. cpu \in ThreadIds /\ Top = stack[cpu][n]
  BY <1>n, TopProperties
<1>3. stack'[cpu] # << >>
  BY <1>1, <1>2, EmptySeq
<1>4. stack'[cpu][1].fn \in Bases
  <2>1. stack[cpu][1].fn \in Bases
    BY <1>2 DEF WellFormed, BaseStays, Bases
  <2>2. CASE n = 1
    BY <1>1, <1>2, <2>1, <2>2 DEF Bases
  <2>3. CASE n # 1
    <3>1. 1 \in 1 .. n - 1
      BY <2>3
    <3> QED
      BY <1>1, <2>1, <3>1
  <2> QED
    BY <2>2, <2>3
<1>5. \A k \in 1 .. Len(stack'[cpu]) : stack'[cpu][k].fn = "create" => cpu = 0
  <2> SUFFICES ASSUME NEW k \in 1 .. n, stack'[cpu][k].fn = "create"
               PROVE  cpu = 0
    BY <1>1
  <2>1. stack[cpu][k].fn = "create"
    <3>1. CASE k = n
      BY <1>1, <1>2, <3>1
    <3>2. CASE k # n
      BY <1>1, <3>2
    <3> QED
      BY <3>1, <3>2
  <2> QED
    BY <1>n, <1>2, <2>1 DEF WellFormed, CreatorIsBoot
<1> QED
  BY <1>1, <1>3, <1>4, <1>5, WellFormedAfter

(* A call.                                                                 *)
LEMMA CallKeeps ==
    ASSUME WellFormed, NEW label \in Labels, NEW fn \in Procedures,
           NEW start \in Labels, Call(label, fn, start), TableTypes',
           cpu' = cpu, fn = "create" => cpu = 0
    PROVE  WellFormed'
<1>n. PICK n \in Nat \ {0} : n = Len(stack[cpu])
  BY TopProperties
<1>1. /\ stack' \in [ThreadIds -> Seq(Frames)]
      /\ \A i \in ThreadIds \ {cpu} : stack'[i] = stack[i]
      /\ Len(stack'[cpu]) = n + 1
      /\ \A k \in 1 .. n - 1 : stack'[cpu][k] = stack[cpu][k]
      /\ stack'[cpu][n] = [Top EXCEPT !.at = label]
      /\ stack'[cpu][n + 1] = Frame(fn, start)
  BY <1>n, CallEffect
<1>f. stack'[cpu][n].fn = Top.fn /\ stack'[cpu][n + 1].fn = fn
  BY <1>1, TopProperties, MovedFrameType, FrameType
<1>m. \A k \in 1 .. n + 1 : k = n + 1 \/ k = n \/ k \in 1 .. n - 1
  OBVIOUS
<1>2. cpu \in ThreadIds /\ Top = stack[cpu][n]
  BY <1>n, TopProperties
<1>3. stack'[cpu] # << >>
  BY <1>1, <1>2, EmptySeq
<1>4. stack'[cpu][1].fn \in Bases
  <2>1. stack[cpu][1].fn \in Bases
    BY <1>2 DEF WellFormed, BaseStays, Bases
  <2>2. CASE n = 1
    BY <1>f, <1>2, <2>1, <2>2
  <2>3. CASE n # 1
    <3>1. 1 \in 1 .. n - 1
      BY <2>3
    <3> QED
      BY <1>1, <2>1, <3>1
  <2> QED
    BY <2>2, <2>3
<1>5. \A k \in 1 .. Len(stack'[cpu]) : stack'[cpu][k].fn = "create" => cpu = 0
  <2> SUFFICES ASSUME NEW k \in 1 .. n + 1, stack'[cpu][k].fn = "create"
               PROVE  cpu = 0
    BY <1>1
  <2>1. CASE k = n + 1
    BY <1>f, <2>1
  <2>2. CASE k = n \/ k \in 1 .. n - 1
    <3>1. stack[cpu][k].fn = "create"
      BY <1>1, <1>f, <1>2, <2>2
    <3>2. k \in 1 .. n
      BY <2>2
    <3> QED
      BY <1>n, <1>2, <3>1, <3>2 DEF WellFormed, CreatorIsBoot
  <2> QED
    BY <1>m, <2>1, <2>2
<1> QED
  BY <1>1, <1>3, <1>4, <1>5, WellFormedAfter

(* A return.                                                               *)
LEMMA ReturnKeeps ==
    ASSUME WellFormed, Return, Top.fn \in {"yield", "create", "irq"},
           TableTypes', cpu' = cpu
    PROVE  WellFormed'
<1>n. PICK n \in Nat \ {0} : n = Len(stack[cpu])
  BY TopProperties
<1>1. /\ stack' \in [ThreadIds -> Seq(Frames)]
      /\ \A i \in ThreadIds \ {cpu} : stack'[i] = stack[i]
      /\ n > 1
      /\ Len(stack'[cpu]) = n - 1
      /\ \A k \in 1 .. n - 1 : stack'[cpu][k] = stack[cpu][k]
  BY <1>n, ReturnEffect
<1>2. cpu \in ThreadIds
  BY TopProperties
<1>3. stack'[cpu] # << >>
  BY <1>1, <1>2, EmptySeq
<1>4. stack'[cpu][1].fn \in Bases
  <2>1. stack[cpu][1].fn \in Bases
    BY <1>2 DEF WellFormed, BaseStays, Bases
  <2>2. 1 \in 1 .. n - 1
    BY <1>1
  <2> QED
    BY <1>1, <2>1, <2>2
<1>5. \A k \in 1 .. Len(stack'[cpu]) : stack'[cpu][k].fn = "create" => cpu = 0
  <2> SUFFICES ASSUME NEW k \in 1 .. n - 1, stack'[cpu][k].fn = "create"
               PROVE  cpu = 0
    BY <1>1
  <2>1. stack[cpu][k].fn = "create" /\ k \in 1 .. n
    BY <1>1
  <2> QED
    BY <1>n, <1>2, <2>1 DEF WellFormed, CreatorIsBoot
<1> QED
  BY <1>1, <1>3, <1>4, <1>5, WellFormedAfter

(* The timer interrupt.                                                    *)
LEMMA TickKeeps ==
    ASSUME WellFormed, Tick
    PROVE  WellFormed'
<1>n. PICK n \in Nat \ {0} : n = Len(stack[cpu])
  BY TopProperties
<1>1. /\ stack' \in [ThreadIds -> Seq(Frames)]
      /\ \A i \in ThreadIds \ {cpu} : stack'[i] = stack[i]
      /\ Len(stack'[cpu]) = n + 1
      /\ \A k \in 1 .. n : stack'[cpu][k] = stack[cpu][k]
      /\ stack'[cpu][n + 1].fn = "irq"
  BY <1>n, TickEffect, FrameType DEF Procedures, Labels
<1>2. cpu \in ThreadIds
  BY TopProperties
<1>3. stack'[cpu] # << >>
  BY <1>1, <1>2, EmptySeq
<1>4. stack'[cpu][1].fn \in Bases
  <2>1. stack[cpu][1].fn \in Bases
    BY <1>2 DEF WellFormed, BaseStays, Bases
  <2>2. 1 \in 1 .. n
    OBVIOUS
  <2> QED
    BY <1>1, <2>1, <2>2
<1>5. \A k \in 1 .. Len(stack'[cpu]) : stack'[cpu][k].fn = "create" => cpu = 0
  <2> SUFFICES ASSUME NEW k \in 1 .. n + 1, stack'[cpu][k].fn = "create"
               PROVE  cpu = 0
    BY <1>1
  <2>1. stack[cpu][k].fn = "create" /\ k \in 1 .. n
    BY <1>1
  <2> QED
    BY <1>n, <1>2, <2>1 DEF WellFormed, CreatorIsBoot
<1>6. TableTypes' /\ cpu' = cpu
  BY DEF Tick, WellFormed, TypeOK, TableTypes, table
<1> QED
  BY <1>1, <1>3, <1>4, <1>5, <1>6, WellFormedAfter

(* scheduler_create_thread gives the first free entry a fresh stack; it    *)
(* is never the one it runs on.                                            *)
LEMMA CreateBuildEffect ==
    ASSUME WellFormed, NEW e \in Entries, CreateBuild(e)
    PROVE  /\ cpu = 0
           /\ stack' \in [ThreadIds -> Seq(Frames)]
           /\ Len(stack'[cpu]) = Len(stack[cpu])
           /\ \A k \in 1 .. Len(stack[cpu]) - 1 :
                  stack'[cpu][k] = stack[cpu][k]
           /\ stack'[cpu][Len(stack[cpu])] = [Top EXCEPT !.at = "unlock"]
           /\ \E i \in ThreadIds \ {0} :
                 /\ ~active[i]
                 /\ \A j \in ThreadIds \ {cpu, i} : stack'[j] = stack[j]
                 /\ stack'[i] = << Frame("bootstrap", "start") >>
                 /\ stack_pointer' = [stack_pointer EXCEPT
                                         ![i] = [stack |-> i, depth |-> 1]]
                 /\ entry' = [entry EXCEPT ![i] = e]
                 /\ active' = [active EXCEPT ![i] = TRUE]
                 /\ thread_count' = IF i >= thread_count THEN i + 1
                                                         ELSE thread_count
<1> DEFINE i == CHOOSE i \in FreeThreads : \A j \in FreeThreads : i <= j
           f == [Top EXCEPT !.at = "unlock"]
           b == Frame("bootstrap", "start")
<1>1. i \in FreeThreads
  <2>1. FreeThreads \subseteq Nat /\ FreeThreads # {}
    BY SchedulerAssumption DEF FreeThreads, ThreadIds, CreateBuild
  <2>2. \E m \in FreeThreads : \A j \in FreeThreads : m <= j
    BY <2>1, LeastExists
  <2> QED
    BY <2>2
<1>2. i \in ThreadIds \ {0} /\ ~active[i]
  BY <1>1 DEF FreeThreads
<1>n. PICK n \in Nat \ {0} : n = Len(stack[cpu])
  BY TopProperties
<1>3. cpu \in ThreadIds /\ cpu = 0
  <2>1. cpu \in ThreadIds /\ Top = stack[cpu][n] /\ n \in 1 .. n
    BY <1>n, TopProperties
  <2>2. Top.fn = "create"
    BY DEF CreateBuild, At
  <2> QED
    BY <1>n, <2>1, <2>2 DEF WellFormed, CreatorIsBoot
<1>4. /\ stack_pointer' = [stack_pointer EXCEPT
                             ![i] = [stack |-> i, depth |-> 1]]
      /\ entry' = [entry EXCEPT ![i] = e]
      /\ active' = [active EXCEPT ![i] = TRUE]
      /\ thread_count' = IF i >= thread_count THEN i + 1 ELSE thread_count
      /\ stack' = [stack EXCEPT ![i] = << b >>,
                                ![cpu] = Append(Front(@), f)]
  BY DEF CreateBuild
<1>5. f \in Frames
  BY TopProperties, MovedFrameType DEF Labels
<1>6. << b >> \in Seq(Frames)
  <2>1. b \in Frames
    BY FrameType DEF Procedures, Labels
  <2> HIDE DEF b
  <2> QED
    BY <2>1
<1> HIDE DEF i, f, b
<1>7. stack'[cpu] = Append(Front(stack[cpu]), f)
  BY <1>2, <1>3, <1>4 DEF WellFormed
<1>8. stack'[i] = << b >> /\ \A j \in ThreadIds \ {cpu, i} : stack'[j] = stack[j]
  BY <1>2, <1>3, <1>4 DEF WellFormed
<1>9. stack[cpu] \in Seq(Frames) /\ stack[cpu] # << >>
  BY TopProperties DEF WellFormed
<1>10. /\ stack'[cpu] \in Seq(Frames)
       /\ Len(stack'[cpu]) = Len(stack[cpu])
       /\ \A k \in 1 .. Len(stack[cpu]) - 1 : stack'[cpu][k] = stack[cpu][k]
       /\ stack'[cpu][Len(stack[cpu])] = f
  BY <1>5, <1>7, <1>9, ReplaceProperties
<1>11. stack' \in [ThreadIds -> Seq(Frames)]
  <2>1. \A j \in ThreadIds : stack'[j] \in Seq(Frames)
    BY <1>6, <1>8, <1>10 DEF WellFormed
  <2>2. stack' = [j \in ThreadIds |-> stack'[j]]
    BY <1>4 DEF WellFormed
  <2> QED
    BY <2>1, <2>2
<1>12. stack'[cpu][Len(stack[cpu])] = [Top EXCEPT !.at = "unlock"]
  BY <1>10 DEF f
<1>13. stack'[i] = << Frame("bootstrap", "start") >>
  BY <1>8 DEF b
<1> QED
  BY <1>2, <1>3, <1>4, <1>8, <1>10, <1>11, <1>12, <1>13

(* After a switch every frame is one that was there, the suspended one of  *)
(* the caller, or no frame of a thread.                                    *)
LEMMA SwitchEffect ==
    ASSUME WellFormed, ContextSwitch
    PROVE  /\ cpu' \in ThreadIds
           /\ stack' \in [ThreadIds -> Seq(Frames)]
           /\ stack'[cpu'] # << >>
           /\ \A i \in ThreadIds : \A k \in 1 .. Len(stack'[i]) :
                 \/ stack'[i][k] = Frame("wild", "lost")
                 \/ stack'[i][k] = Frame("yield", "return") /\ k > 1
                 \/ k \in 1 .. Len(stack[i]) /\ stack'[i][k] = stack[i][k]
<1> DEFINE to == Top.target
           s == [stack EXCEPT ![cpu] = Append(Front(@), Frame("yield", "return"))]
           f == Frame("yield", "return")
           w == Frame("wild", "lost")
<1>1. /\ stack' = [s EXCEPT ![to.stack] = Restored(@, to.depth)]
      /\ cpu' = to.stack
      /\ Top.fn = "yield"
  BY DEF ContextSwitch, At
<1>2. to.stack \in ThreadIds /\ to.depth \in Nat
  BY TopProperties DEF Frames
<1>3. f \in Frames /\ w \in Frames
  BY FrameType DEF Procedures, Labels
<1>n. PICK n \in Nat \ {0} : n = Len(stack[cpu])
  BY TopProperties
<1>4. /\ cpu \in ThreadIds
      /\ stack \in [ThreadIds -> Seq(Frames)]
      /\ stack[cpu] \in Seq(Frames)
      /\ stack[cpu] # << >>
      /\ n > 1
  BY <1>1, <1>n, TopProperties DEF WellFormed
<1>5. s[cpu] = Append(Front(stack[cpu]), f)
  BY <1>4
<1> HIDE DEF f, w
<1>6. /\ s[cpu] \in Seq(Frames)
      /\ Len(s[cpu]) = n
      /\ \A k \in 1 .. n - 1 : s[cpu][k] = stack[cpu][k]
      /\ s[cpu][n] = f
  BY <1>3, <1>4, <1>5, <1>n, ReplaceProperties
<1>7. \A i \in ThreadIds \ {cpu} : s[i] = stack[i]
  BY <1>4
<1>8. s \in [ThreadIds -> Seq(Frames)]
  <2>1. \A i \in ThreadIds : s[i] \in Seq(Frames)
    BY <1>4, <1>6, <1>7
  <2>2. s = [i \in ThreadIds |-> s[i]]
    BY <1>4
  <2> HIDE DEF s
  <2> QED
    BY <2>1, <2>2
<1>9. \A i \in ThreadIds : \A k \in 1 .. Len(s[i]) :
         \/ s[i][k] = f /\ k > 1
         \/ k \in 1 .. Len(stack[i]) /\ s[i][k] = stack[i][k]
  <2> SUFFICES ASSUME NEW i \in ThreadIds, NEW k \in 1 .. Len(s[i])
               PROVE  \/ s[i][k] = f /\ k > 1
                      \/ k \in 1 .. Len(stack[i]) /\ s[i][k] = stack[i][k]
    OBVIOUS
  <2>1. CASE i = cpu
    <3>1. k \in 1 .. n
      BY <1>6, <2>1
    <3>2. k = n \/ k \in 1 .. n - 1
      BY <3>1
    <3>3. n > 1
      BY <1>4
    <3> HIDE DEF s
    <3>4. CASE k = n
      BY <1>6, <2>1, <3>3, <3>4
    <3>5. CASE k \in 1 .. n - 1
      BY <1>6, <1>n, <2>1, <3>1, <3>5
    <3> QED
      BY <3>2, <3>4, <3>5
  <2>2. CASE i # cpu
    BY <1>7, <2>2
  <2> QED
    BY <2>1, <2>2
<1> HIDE DEF s, to
<1>10. \/ Restored(s[to.stack], to.depth) = << w >>
       \/ /\ Restored(s[to.stack], to.depth) \in Seq(Frames)
          /\ to.depth \in 1 .. Len(s[to.stack])
          /\ Len(Restored(s[to.stack], to.depth)) = to.depth
          /\ \A k \in 1 .. to.depth :
                Restored(s[to.stack], to.depth)[k] = s[to.stack][k]
  BY <1>2, <1>8, RestoredProperties DEF w
<1>11. stack'[to.stack] = Restored(s[to.stack], to.depth)
  BY <1>1, <1>2, <1>8
<1>12. \A i \in ThreadIds \ {to.stack} : stack'[i] = s[i]
  BY <1>1, <1>2, <1>8
<1>13. stack'[to.stack] \in Seq(Frames) /\ stack'[to.stack] # << >>
  <2>1. << w >> \in Seq(Frames) /\ << w >> # << >>
    BY <1>3
  <2>2. to.depth \in 1 .. Len(s[to.stack]) => to.depth # 0
    BY <1>2
  <2> QED
    BY <1>10, <1>11, <2>1, <2>2, EmptySeq
<1>14. stack' \in [ThreadIds -> Seq(Frames)]
  <2>1. \A i \in ThreadIds : stack'[i] \in Seq(Frames)
    BY <1>8, <1>12, <1>13
  <2>2. stack' = [i \in ThreadIds |-> stack'[i]]
    BY <1>1, <1>8
  <2> QED
    BY <2>1, <2>2
<1>15. ASSUME NEW i \in ThreadIds, NEW k \in 1 .. Len(stack'[i])
       PROVE  \/ stack'[i][k] = w
              \/ k \in 1 .. Len(s[i]) /\ stack'[i][k] = s[i][k]
  <2>1. CASE i # to.stack
    BY <1>12, <2>1
  <2>2. CASE i = to.stack
    <3>1. CASE stack'[i] = << w >>
      <4>1. k = 1
        <5>1. Len(<< w >>) = 1
          OBVIOUS
        <5> QED
          BY <3>1, <5>1
      <4> QED
        BY <3>1, <4>1
    <3>2. CASE /\ to.depth \in 1 .. Len(s[to.stack])
               /\ Len(stack'[i]) = to.depth
               /\ \A m \in 1 .. to.depth : stack'[i][m] = s[to.stack][m]
      <4>1. s[i] \in Seq(Frames)
        BY <1>8
      <4>2. Len(s[i]) \in Nat
        BY <4>1
      <4>3. PICK l \in Nat : l = Len(s[i])
        BY <4>2
      <4>4. to.depth \in 1 .. l
        BY <2>2, <3>2, <4>3
      <4>5. k \in 1 .. to.depth
        BY <3>2
      <4>6. k \in 1 .. l
        BY <1>2, <4>4, <4>5
      <4> QED
        BY <2>2, <3>2, <4>3, <4>5, <4>6
    <3> QED
      BY <1>10, <1>11, <2>2, <3>1, <3>2
  <2> QED
    BY <2>1, <2>2
<1>16. \A i \in ThreadIds : \A k \in 1 .. Len(stack'[i]) :
          \/ stack'[i][k] = w
          \/ stack'[i][k] = f /\ k > 1
          \/ k \in 1 .. Len(stack[i]) /\ stack'[i][k] = stack[i][k]
  BY <1>9, <1>15
<1> QED
  BY <1>1, <1>2, <1>13, <1>14, <1>16 DEF f, w

(* scheduler_initialize leaves the boot thread's stack and empty ones.     *)
LEMMA WellFormedInit == Init => WellFormed
<1> SUFFICES ASSUME Init
             PROVE  WellFormed
  OBVIOUS
<1> DEFINE f == Frame("code", "run")
<1>1. f \in Frames /\ f.fn = "code"
  BY FrameType DEF Procedures, Labels
<1>2. stack = [i \in ThreadIds |-> IF i = 0 THEN << f >> ELSE << >>]
  BY DEF Init
<1>3. cpu = 0 /\ 0 \in ThreadIds
  BY SchedulerAssumption DEF Init, ThreadIds
<1>4. TableTypes
  <2>1. stack_pointer \in [ThreadIds -> [stack : ThreadIds, depth : Nat]]
    BY <1>3 DEF Init
  <2>2. entry \in [ThreadIds -> Entries \union {NoEntry}]
    BY DEF Init
  <2>3. active \in [ThreadIds -> BOOLEAN]
    BY Zenon DEF Init
  <2>4. thread_count \in 1 .. MaxThreads
    BY SchedulerAssumption DEF Init
  <2> QED
    BY <1>3, <2>1, <2>2, <2>3, <2>4 DEF Init, TableTypes
<1> HIDE DEF f
<1>5. << f >> \in Seq(Frames) /\ << f >> # << >> /\ Len(<< f >>) = 1
      /\ << f >>[1] = f /\ << >> \in Seq(Frames) /\ Len(<< >>) = 0
  BY <1>1
<1>6. stack \in [ThreadIds -> Seq(Frames)]
  BY <1>2, <1>5
<1>7. \A i \in ThreadIds : \A k \in 1 .. Len(stack[i]) : stack[i][k] = f
  BY <1>2, <1>5
<1>8. stack[cpu] # << >>
  BY <1>2, <1>3, <1>5
<1>9. BaseStays
  BY <1>1, <1>2, <1>5 DEF BaseStays
<1>10. CreatorIsBoot
  BY <1>1, <1>7 DEF CreatorIsBoot
<1>11. TypeOK
  BY <1>4, <1>6 DEF TypeOK, TableTypes
<1> QED
  BY <1>6, <1>8, <1>9, <1>10, <1>11 DEF WellFormed

(* The frames scheduler_yield writes.                                      *)
LEMMA YieldFrameTypes ==
    ASSUME WellFormed, NEW n \in ThreadIds
    PROVE  /\ [Top EXCEPT !.next = n, !.at = "lock"] \in Frames
           /\ [Top EXCEPT !.next = n, !.previous = current_thread,
                          !.at = "unlock"] \in Frames
           /\ [Top EXCEPT !.target = stack_pointer[Top.next],
                          !.at = "switch"] \in Frames
           /\ [Top EXCEPT !.next = n, !.at = "lock"].fn = Top.fn
           /\ [Top EXCEPT !.next = n, !.previous = current_thread,
                          !.at = "unlock"].fn = Top.fn
           /\ [Top EXCEPT !.target = stack_pointer[Top.next],
                          !.at = "switch"].fn = Top.fn
<1>1. PICK f \in Frames : f = Top
  BY TopProperties
<1>2. current_thread \in ThreadIds
  BY DEF WellFormed, TypeOK
<1>3. PICK t \in [stack : ThreadIds, depth : Nat] : t = stack_pointer[f.next]
  <2>1. f.next \in ThreadIds
    BY DEF Frames
  <2> QED
    BY <2>1 DEF WellFormed, TypeOK
<1>4. /\ [f EXCEPT !.next = n, !.at = "lock"] \in Frames
      /\ [f EXCEPT !.next = n, !.previous = current_thread,
                   !.at = "unlock"] \in Frames
      /\ [f EXCEPT !.target = t, !.at = "switch"] \in Frames
  BY <1>2 DEF Frames
<1>5. /\ [f EXCEPT !.next = n, !.at = "lock"].fn = f.fn
      /\ [f EXCEPT !.next = n, !.previous = current_thread,
                   !.at = "unlock"].fn = f.fn
      /\ [f EXCEPT !.target = t, !.at = "switch"].fn = f.fn
  BY DEF Frames
<1> QED
  BY <1>1, <1>3, <1>4, <1>5

(* A step that leaves the table and the processor alone keeps their types. *)
LEMMA TypesKept ==
    ASSUME WellFormed, UNCHANGED table, preemption_enabled' \in BOOLEAN,
           scheduler_lock_value' \in {0, 1}, cpu' = cpu,
           interrupt_flag' \in BOOLEAN
    PROVE  TableTypes'
BY DEF WellFormed, TypeOK, TableTypes, table

(* scheduler_yield and the switch keep the stacks well formed.             *)
LEMMA WellFormedYielding == WellFormed /\ Yielding => WellFormed'
<1> SUFFICES ASSUME WellFormed, Yielding
             PROVE  WellFormed'
  OBVIOUS
<1>t. /\ preemption_enabled \in BOOLEAN
      /\ scheduler_lock_value \in {0, 1}
      /\ interrupt_flag \in BOOLEAN
      /\ current_thread \in ThreadIds
      /\ Top \in Frames
  BY TopProperties DEF WellFormed, TypeOK
<1>1. CASE YieldEnter
  <2>1. TableTypes' /\ cpu' = cpu
    BY <1>1, <1>t, TypesKept DEF YieldEnter, processor
  <2>2. Replace([Top EXCEPT !.next = current_thread, !.at = "lock"])
    BY <1>1 DEF YieldEnter
  <2> QED
    BY <1>t, <2>1, <2>2, YieldFrameTypes, ReplaceKeeps
<1>2. CASE YieldLock
  <2>1. TableTypes' /\ cpu' = cpu
    BY <1>2, <1>t, TypesKept DEF YieldLock, processor
  <2>2. Replace([Top EXCEPT !.at = "pick"])
    BY <1>2 DEF YieldLock, Goto
  <2>3. /\ [Top EXCEPT !.at = "pick"] \in Frames
        /\ [Top EXCEPT !.at = "pick"].fn = Top.fn
    BY <1>t, MovedFrameType DEF Labels
  <2> QED
    BY <2>1, <2>2, <2>3, ReplaceKeeps
<1>3. CASE YieldStay
  <2>1. TableTypes' /\ cpu' = cpu
    BY <1>3, <1>t, TypesKept DEF YieldStay, processor
  <2>2. Return /\ Top.fn = "yield"
    BY <1>3 DEF YieldStay, At
  <2> QED
    BY <2>1, <2>2, ReturnKeeps
<1>4. CASE YieldPick
  <2>1. PICK n \in RoundRobin(Top.next) \ {current_thread} :
           /\ Replace([Top EXCEPT !.next = n, !.previous = current_thread,
                                  !.at = "unlock"])
           /\ current_thread' = n
    BY <1>4 DEF YieldPick
  <2>2. n \in ThreadIds
    <3>1. Top.next \in ThreadIds
      BY <1>t DEF Frames
    <3>2. n \in 0 .. thread_count - 1
      BY <2>1, <3>1, RoundRobinProperties DEF WellFormed
    <3> QED
      BY <3>2, SchedulerAssumption DEF ThreadIds, WellFormed, TypeOK
  <2>3. TableTypes' /\ cpu' = cpu
    BY <1>4, <1>t, <2>1, <2>2
    DEF YieldPick, WellFormed, TypeOK, TableTypes, processor
  <2> QED
    BY <2>1, <2>2, <2>3, YieldFrameTypes, ReplaceKeeps
<1>5. CASE YieldUnlock
  <2>1. TableTypes' /\ cpu' = cpu
    BY <1>5, <1>t, TypesKept DEF YieldUnlock, processor
  <2>2. Replace([Top EXCEPT !.at = "arguments"])
    BY <1>5 DEF YieldUnlock, Goto
  <2>3. /\ [Top EXCEPT !.at = "arguments"] \in Frames
        /\ [Top EXCEPT !.at = "arguments"].fn = Top.fn
    BY <1>t, MovedFrameType DEF Labels
  <2> QED
    BY <2>1, <2>2, <2>3, ReplaceKeeps
<1>6. CASE YieldArguments
  <2>1. TableTypes' /\ cpu' = cpu
    BY <1>6, <1>t, TypesKept DEF YieldArguments, processor
  <2>2. Replace([Top EXCEPT !.target = stack_pointer[Top.next], !.at = "switch"])
    BY <1>6 DEF YieldArguments
  <2> QED
    BY <1>t, <2>1, <2>2, YieldFrameTypes, ReplaceKeeps
<1>7. CASE ContextSwitch
  <2>1. /\ cpu' \in ThreadIds
        /\ stack' \in [ThreadIds -> Seq(Frames)]
        /\ stack'[cpu'] # << >>
        /\ \A i \in ThreadIds : \A k \in 1 .. Len(stack'[i]) :
              \/ stack'[i][k] = Frame("wild", "lost")
              \/ stack'[i][k] = Frame("yield", "return") /\ k > 1
              \/ k \in 1 .. Len(stack[i]) /\ stack'[i][k] = stack[i][k]
    BY <1>7, SwitchEffect
  <2>2. Frame("wild", "lost").fn = "wild" /\ Frame("yield", "return").fn = "yield"
    BY FrameType DEF Procedures, Labels
  <2>3. TableTypes'
    <3>1. StackTop(cpu) \in [stack : ThreadIds, depth : Nat]
      BY TopProperties DEF StackTop
    <3>2. Top.previous \in ThreadIds
      BY <1>t DEF Frames
    <3> QED
      BY <1>7, <2>1, <3>1, <3>2
      DEF ContextSwitch, WellFormed, TypeOK, TableTypes
  <2>4. \A i \in ThreadIds : \A k \in DOMAIN stack'[i] : stack'[i][k] \in Frames
    BY <2>1
  <2>5. TypeOK'
    BY <2>3, <2>4 DEF TypeOK, TableTypes
  <2>6. CreatorIsBoot'
    <3> SUFFICES ASSUME NEW i \in ThreadIds, NEW k \in 1 .. Len(stack'[i]),
                        stack'[i][k].fn = "create"
                 PROVE  i = 0
      BY DEF CreatorIsBoot
    <3>1. k \in 1 .. Len(stack[i]) /\ stack'[i][k] = stack[i][k]
      BY <2>1, <2>2
    <3> QED
      BY <3>1 DEF WellFormed, CreatorIsBoot
  <2>7. BaseStays'
    <3> SUFFICES ASSUME NEW i \in ThreadIds, stack'[i] # << >>
                 PROVE  stack'[i][1].fn \in Bases
      BY DEF BaseStays, Bases
    <3>1. PICK l \in Nat \ {0} : l = Len(stack'[i])
      BY <2>1, EmptySeq
    <3>2. 1 \in 1 .. l /\ ~(1 > 1)
      OBVIOUS
    <3>3. \/ stack'[i][1] = Frame("wild", "lost")
          \/ 1 \in 1 .. Len(stack[i]) /\ stack'[i][1] = stack[i][1]
      BY <2>1, <3>1, <3>2
    <3>4. 1 \in 1 .. Len(stack[i]) => stack[i] # << >>
      BY EmptySeq
    <3> QED
      BY <2>2, <3>3, <3>4 DEF WellFormed, BaseStays, Bases
  <2> QED
    BY <2>1, <2>5, <2>6, <2>7 DEF WellFormed
<1>8. CASE YieldReturn
  <2>1. TableTypes' /\ cpu' = cpu
    BY <1>8, <1>t, TypesKept DEF YieldReturn, processor
  <2>2. Return /\ Top.fn = "yield"
    BY <1>8 DEF YieldReturn, At
  <2> QED
    BY <2>1, <2>2, ReturnKeeps
<1> QED
  BY <1>1, <1>2, <1>3, <1>4, <1>5, <1>6, <1>7, <1>8 DEF Yielding

(* So do scheduler_create_thread, the threads' code and the interrupt.     *)
LEMMA WellFormedOthers ==
    ASSUME WellFormed, NEW on \in BOOLEAN,
           \/ Creating \/ BootstrapStart("run") \/ ExitYield \/ CodeYields
           \/ CodeCreates \/ CodeReturns \/ Interrupting \/ TickYields
           \/ SetPreemption(on)
    PROVE  WellFormed'
<1>t. /\ preemption_enabled \in BOOLEAN
      /\ scheduler_lock_value \in {0, 1}
      /\ interrupt_flag \in BOOLEAN
      /\ current_thread \in ThreadIds
      /\ Top \in Frames
  BY TopProperties DEF WellFormed, TypeOK
<1>m. \A label \in Labels : /\ [Top EXCEPT !.at = label] \in Frames
                            /\ [Top EXCEPT !.at = label].fn = Top.fn
  BY <1>t, MovedFrameType
<1>y. ASSUME NEW label \in Labels, CallYield(label)
      PROVE  WellFormed'
  <2>1. TableTypes' /\ cpu' = cpu
    BY <1>y, <1>t, TypesKept DEF CallYield, processor
  <2>2. Call(label, "yield", "enter")
    BY <1>y DEF CallYield
  <2> QED
    BY <2>1, <2>2, CallKeeps DEF Labels, Procedures
<1>1. CASE CreateLock
  <2>1. TableTypes' /\ cpu' = cpu
    BY <1>1, <1>t, TypesKept DEF CreateLock, processor
  <2>2. Replace([Top EXCEPT !.at = "build"]) /\ "build" \in Labels
    BY <1>1 DEF CreateLock, Goto, Labels
  <2> QED
    BY <1>m, <2>1, <2>2, ReplaceKeeps
<1>2. ASSUME NEW e \in Entries, CreateBuild(e)
      PROVE  WellFormed'
  <2> DEFINE b == Frame("bootstrap", "start")
             f == [Top EXCEPT !.at = "unlock"]
  <2>n. PICK n \in Nat \ {0} : n = Len(stack[cpu])
    BY TopProperties
  <2>1. /\ cpu = 0
        /\ stack' \in [ThreadIds -> Seq(Frames)]
        /\ Len(stack'[cpu]) = n
        /\ \A k \in 1 .. n - 1 : stack'[cpu][k] = stack[cpu][k]
        /\ stack'[cpu][n] = f
    BY <1>2, <2>n, CreateBuildEffect
  <2>2. PICK i \in ThreadIds \ {0} :
           /\ \A j \in ThreadIds \ {cpu, i} : stack'[j] = stack[j]
           /\ stack'[i] = << b >>
           /\ stack_pointer' = [stack_pointer EXCEPT
                                   ![i] = [stack |-> i, depth |-> 1]]
           /\ entry' = [entry EXCEPT ![i] = e]
           /\ active' = [active EXCEPT ![i] = TRUE]
           /\ thread_count' = IF i >= thread_count THEN i + 1
                                                   ELSE thread_count
    BY <1>2, CreateBuildEffect
  <2>3. b.fn = "bootstrap" /\ f.fn = Top.fn /\ Top.fn = "create"
    BY <1>2, <1>m, FrameType DEF CreateBuild, At, Procedures, Labels
  <2>4. cpu \in ThreadIds /\ Top = stack[cpu][n]
        /\ (Top.fn \in {"yield", "create", "irq"} => n > 1)
    BY <2>n, TopProperties
  <2>5. TableTypes'
    <3>1. i \in 0 .. MaxThreads - 1 /\ thread_count \in 1 .. MaxThreads
      BY DEF ThreadIds, WellFormed, TypeOK
    <3>2. thread_count' \in 1 .. MaxThreads
      BY <2>2, <3>1, SchedulerAssumption
    <3>3. /\ stack_pointer' \in [ThreadIds -> [stack : ThreadIds, depth : Nat]]
          /\ entry' \in [ThreadIds -> Entries \union {NoEntry}]
      BY <2>2 DEF WellFormed, TypeOK
    <3>4. active' \in [ThreadIds -> BOOLEAN]
      BY <2>2 DEF WellFormed, TypeOK
    <3> QED
      BY <1>2, <3>2, <3>3, <3>4
      DEF CreateBuild, WellFormed, TypeOK, TableTypes, processor
  <2> HIDE DEF b, f
  <2>6. \A k \in 1 .. Len(stack'[i]) : stack'[i][k] = b
    BY <2>2
  <2>7. stack'[i] # << >> /\ stack'[i][1] = b
    BY <2>2
  <2>8. stack'[cpu] # << >> /\ stack'[cpu][1] = stack[cpu][1]
    <3>1. n > 1
      BY <2>3, <2>4
    <3>2. 1 \in 1 .. n - 1
      BY <3>1
    <3> QED
      BY <2>1, <2>4, <3>2, EmptySeq
  <2>9. BaseStays'
    <3>1. stack[cpu][1].fn \in Bases
      BY <2>4 DEF WellFormed, BaseStays, Bases
    <3>2. ASSUME NEW j \in ThreadIds, stack'[j] # << >>
          PROVE  stack'[j][1].fn \in Bases
      <4>1. CASE j = cpu
        BY <2>8, <3>1, <4>1
      <4>2. CASE j = i
        BY <2>3, <2>7, <4>2 DEF Bases
      <4>3. CASE j # cpu /\ j # i
        BY <2>2, <3>2, <4>3 DEF WellFormed, BaseStays, Bases
      <4> QED
        BY <4>1, <4>2, <4>3
    <3> QED
      BY <3>2 DEF BaseStays, Bases
  <2>10. CreatorIsBoot'
    <3> SUFFICES ASSUME NEW j \in ThreadIds, NEW k \in 1 .. Len(stack'[j]),
                        stack'[j][k].fn = "create"
                 PROVE  j = 0
      BY DEF CreatorIsBoot
    <3>1. j # i
      BY <2>3, <2>6
    <3>2. CASE j # cpu
      BY <2>2, <3>1, <3>2 DEF WellFormed, CreatorIsBoot
    <3> QED
      BY <2>1, <3>2
  <2>11. \A j \in ThreadIds : \A k \in DOMAIN stack'[j] : stack'[j][k] \in Frames
    BY <2>1
  <2>12. TypeOK' /\ cpu' = cpu
    BY <1>2, <2>5, <2>11 DEF TypeOK, TableTypes, CreateBuild, processor
  <2> QED
    BY <2>1, <2>8, <2>9, <2>10, <2>12 DEF WellFormed
<1>3. CASE CreateFail
  <2>1. TableTypes' /\ cpu' = cpu
    BY <1>3, <1>t, TypesKept DEF CreateFail, processor
  <2>2. Replace([Top EXCEPT !.at = "unlock"]) /\ "unlock" \in Labels
    BY <1>3 DEF CreateFail, Goto, Labels
  <2> QED
    BY <1>m, <2>1, <2>2, ReplaceKeeps
<1>4. CASE CreateUnlock
  <2>1. TableTypes' /\ cpu' = cpu
    BY <1>4, <1>t, TypesKept DEF CreateUnlock, processor
  <2>2. Return /\ Top.fn = "create"
    BY <1>4 DEF CreateUnlock, At
  <2> QED
    BY <2>1, <2>2, ReturnKeeps
<1>5. CASE BootstrapStart("run")
  <2>1. TableTypes' /\ cpu' = cpu
    BY <1>5, <1>t, TypesKept DEF BootstrapStart
  <2>2. Replace(Frame("code", "run")) /\ Top.fn = "bootstrap"
    BY <1>5 DEF BootstrapStart, At
  <2>3. Frame("code", "run") \in Frames /\ Frame("code", "run").fn = "code"
    BY FrameType DEF Procedures, Labels
  <2> QED
    BY <2>1, <2>2, <2>3, ReplaceKeeps
<1>6. CASE ExitYield
  BY <1>6, <1>y DEF ExitYield, Labels
<1>7. CASE CodeYields
  BY <1>7, <1>y DEF CodeYields, Labels
<1>8. CASE CodeCreates
  <2>1. TableTypes' /\ cpu' = cpu
    BY <1>8, <1>t, TypesKept DEF CodeCreates, processor
  <2>2. Call("run", "create", "lock") /\ cpu = 0
    BY <1>8 DEF CodeCreates
  <2> QED
    BY <2>1, <2>2, CallKeeps DEF Labels, Procedures
<1>9. CASE CodeReturns
  <2>1. active' \in [ThreadIds -> BOOLEAN]
    BY <1>9 DEF CodeReturns, EntryReturned, WellFormed, TypeOK
  <2>2. TableTypes' /\ cpu' = cpu
    BY <1>9, <2>1
    DEF CodeReturns, EntryReturned, WellFormed, TypeOK, TableTypes, processor
  <2>3. Replace([Top EXCEPT !.at = "exited"]) /\ "exited" \in Labels
    BY <1>9 DEF CodeReturns, EntryReturned, Goto, Labels
  <2> QED
    BY <1>m, <2>2, <2>3, ReplaceKeeps
<1>10. CASE Tick
  BY <1>10, TickKeeps
<1>11. CASE TickIgnored
  <2>1. TableTypes' /\ cpu' = cpu
    BY <1>11, <1>t, TypesKept DEF TickIgnored, processor
  <2>2. Replace([Top EXCEPT !.at = "iretq"]) /\ "iretq" \in Labels
    BY <1>11 DEF TickIgnored, Goto, Labels
  <2> QED
    BY <1>m, <2>1, <2>2, ReplaceKeeps
<1>12. CASE InterruptReturn
  <2>1. TableTypes' /\ cpu' = cpu
    BY <1>12, <1>t, TypesKept DEF InterruptReturn
  <2>2. Return /\ Top.fn = "irq"
    BY <1>12 DEF InterruptReturn, At
  <2> QED
    BY <2>1, <2>2, ReturnKeeps
<1>13. CASE TickYields
  BY <1>13, <1>y DEF TickYields, Labels
<1>14. CASE SetPreemption(on)
  <2>1. TableTypes' /\ cpu' = cpu /\ stack' = stack
    BY <1>14, <1>t, TypesKept DEF SetPreemption, processor
  <2> QED
    BY <2>1
    DEF WellFormed, TypeOK, TableTypes, BaseStays, CreatorIsBoot
<1> QED
  BY <1>1, <1>2, <1>3, <1>4, <1>5, <1>6, <1>7, <1>8, <1>9, <1>10, <1>11,
     <1>12, <1>13, <1>14
  DEF Creating, Interrupting

(* Every step of the scheduler keeps the stacks well formed.               *)
LEMMA WellFormedStep == WellFormed /\ [PreemptiveNext]_vars => WellFormed'
<1> SUFFICES ASSUME WellFormed, [PreemptiveNext]_vars
             PROVE  WellFormed'
  OBVIOUS
<1>1. CASE PreemptiveNext
  BY <1>1, WellFormedYielding, WellFormedOthers
  DEF PreemptiveNext, CooperativeNext
<1>2. CASE UNCHANGED vars
  BY <1>2
  DEF vars, table, processor, WellFormed, TypeOK, BaseStays, CreatorIsBoot
<1> QED
  BY <1>1, <1>2

-----------------------------------------------------------------------------
(* The scheduler lock.                                                     *)

(* What may be on top of a procedure that holds the lock: interrupt        *)
(* handlers, and a yield of theirs that has not got past the lock.         *)
Above(f) == f.fn = "irq" \/ (f.fn = "yield" /\ f.at \in {"enter", "lock"})

Quiet(i) == \A k \in 1 .. Len(stack[i]) : ~InLock(stack[i][k])

(* The one holder is on the running stack, so that no switch can happen    *)
(* before it is on top again and lets the lock go.                         *)
HolderRuns ==
    /\ \A i \in ThreadIds \ {cpu} : Quiet(i)
    /\ \E h \in 1 .. Len(stack[cpu]) :
          /\ InLock(stack[cpu][h])
          /\ \A k \in 1 .. Len(stack[cpu]) :
                /\ k < h => ~InLock(stack[cpu][k])
                /\ k > h => Above(stack[cpu][k])

LockInv ==
    /\ WellFormed
    /\ scheduler_lock_value = 0 => \A i \in ThreadIds : Quiet(i)
    /\ scheduler_lock_value = 1 => HolderRuns

(* A waiting frame is not inside the lock.                                 *)
LEMMA AboveOutside == ASSUME NEW f, Above(f) PROVE ~InLock(f)
BY DEF Above, InLock

(* A procedure inside the lock that runs is its only holder.               *)
LEMMA HolderOnTop ==
    ASSUME LockInv, InLock(Top)
    PROVE  /\ scheduler_lock_value = 1
           /\ \A i \in ThreadIds \ {cpu} : Quiet(i)
           /\ \A k \in 1 .. Len(stack[cpu]) - 1 : ~InLock(stack[cpu][k])
<1>n. PICK n \in Nat \ {0} : n = Len(stack[cpu])
  BY TopProperties DEF LockInv
<1>1. cpu \in ThreadIds /\ Top = stack[cpu][n] /\ n \in 1 .. n
  BY <1>n, TopProperties DEF LockInv
<1>2. scheduler_lock_value = 1
  <2>1. ~Quiet(cpu)
    BY <1>n, <1>1 DEF Quiet
  <2> QED
    BY <1>1, <2>1 DEF LockInv, WellFormed, TypeOK
<1>3. HolderRuns
  BY <1>2 DEF LockInv
<1>4. PICK h \in 1 .. n :
         \A k \in 1 .. n : /\ k < h => ~InLock(stack[cpu][k])
                           /\ k > h => Above(stack[cpu][k])
  BY <1>3, <1>n DEF HolderRuns
<1>5. ~Above(Top)
  BY AboveOutside
<1>6. h = n
  <2>1. CASE n > h
    BY <1>1, <1>4, <1>5, <2>1
  <2> QED
    BY <2>1
<1>7. \A k \in 1 .. n - 1 : ~InLock(stack[cpu][k])
  BY <1>4, <1>6
<1> QED
  BY <1>2, <1>3, <1>7, <1>n DEF HolderRuns

(* Any other procedure that runs, and is no handler's, finds it free.      *)
LEMMA LockFree ==
    ASSUME LockInv, ~InLock(Top), ~Above(Top)
    PROVE  scheduler_lock_value = 0 /\ \A i \in ThreadIds : Quiet(i)
<1>n. PICK n \in Nat \ {0} : n = Len(stack[cpu])
  BY TopProperties DEF LockInv
<1>1. Top = stack[cpu][n] /\ n \in 1 .. n
  BY <1>n, TopProperties DEF LockInv
<1>2. ~HolderRuns
  <2> SUFFICES ASSUME NEW h \in 1 .. n, InLock(stack[cpu][h]),
                      \A k \in 1 .. n : k > h => Above(stack[cpu][k])
               PROVE  FALSE
    BY <1>n DEF HolderRuns
  <2>1. h # n
    BY <1>1
  <2>2. n > h
    BY <2>1
  <2> QED
    BY <1>1, <2>2
<1> QED
  BY <1>2 DEF LockInv, WellFormed, TypeOK

(* A step that leaves the lock word and every frame up to m, and has only  *)
(* waiting frames above, keeps the holder.                                 *)
LEMMA LockUntouched ==
    ASSUME LockInv, WellFormed', cpu' = cpu,
           scheduler_lock_value' = scheduler_lock_value,
           \A i \in ThreadIds \ {cpu} : stack'[i] = stack[i],
           NEW m \in Nat, NEW n \in Nat, NEW l \in Nat,
           n = Len(stack[cpu]), l = Len(stack'[cpu]), m <= n, m <= l,
           \A k \in 1 .. m : stack'[cpu][k] = stack[cpu][k],
           \A k \in 1 .. n : k > m => Above(stack[cpu][k]),
           \A k \in 1 .. l : k > m => Above(stack'[cpu][k])
    PROVE  LockInv'
<1>1. CASE scheduler_lock_value = 0
  <2>1. \A i \in ThreadIds : Quiet(i)
    BY <1>1 DEF LockInv
  <2>2. \A i \in ThreadIds \ {cpu} : Quiet(i)'
    BY <2>1 DEF Quiet
  <2>3. cpu \in ThreadIds
    BY DEF LockInv, WellFormed, TypeOK
  <2>4. \A k \in 1 .. n : ~InLock(stack[cpu][k])
    BY <2>1, <2>3 DEF Quiet
  <2>5. \A k \in 1 .. l : ~InLock(stack'[cpu][k])
    <3> SUFFICES ASSUME NEW k \in 1 .. l
                 PROVE  ~InLock(stack'[cpu][k])
      OBVIOUS
    <3>1. CASE k > m
      BY <3>1, AboveOutside
    <3>2. CASE k <= m
      <4>1. k \in 1 .. m /\ k \in 1 .. n
        BY <3>2
      <4> QED
        BY <2>4, <4>1
    <3> QED
      BY <3>1, <3>2
  <2>6. Quiet(cpu)'
    BY <2>5 DEF Quiet
  <2> QED
    BY <1>1, <2>2, <2>6 DEF LockInv
<1>2. CASE scheduler_lock_value = 1
  <2>1. HolderRuns
    BY <1>2 DEF LockInv
  <2>2. PICK h \in 1 .. n :
           /\ InLock(stack[cpu][h])
           /\ \A k \in 1 .. n : /\ k < h => ~InLock(stack[cpu][k])
                                /\ k > h => Above(stack[cpu][k])
    BY <2>1 DEF HolderRuns
  <2>3. h <= m
    <3>1. CASE h > m
      BY <2>2, <3>1, AboveOutside
    <3> QED
      BY <3>1
  <2>4. h \in 1 .. l /\ h \in 1 .. m
    BY <2>3
  <2>5. InLock(stack'[cpu][h])
    BY <2>2, <2>4
  <2>6. ASSUME NEW k \in 1 .. l
        PROVE  /\ k < h => ~InLock(stack'[cpu][k])
               /\ k > h => Above(stack'[cpu][k])
    <3>1. CASE k > m
      BY <2>3, <3>1
    <3>2. CASE k <= m
      <4>1. k \in 1 .. m /\ k \in 1 .. n
        BY <3>2
      <4>2. stack'[cpu][k] = stack[cpu][k]
        BY <4>1
      <4>3. /\ k < h => ~InLock(stack[cpu][k])
            /\ k > h => Above(stack[cpu][k])
        BY <2>2, <4>1
      <4> QED
        BY <4>2, <4>3
    <3> QED
      BY <3>1, <3>2
  <2>7. \A i \in ThreadIds \ {cpu} : Quiet(i)'
    BY <2>1 DEF HolderRuns, Quiet
  <2>8. HolderRuns'
    BY <2>4, <2>5, <2>6, <2>7 DEF HolderRuns
  <2> QED
    BY <1>2, <2>8 DEF LockInv
<1> QED
  BY <1>1, <1>2 DEF LockInv, WellFormed, TypeOK

(* A step after which the running procedure is the only one inside.        *)
LEMMA LockTaken ==
    ASSUME WellFormed', cpu' = cpu, cpu \in ThreadIds,
           scheduler_lock_value' = 1,
           \A i \in ThreadIds \ {cpu} : Quiet(i)',
           NEW n \in Nat \ {0}, n = Len(stack'[cpu]),
           \A k \in 1 .. n - 1 : ~InLock(stack'[cpu][k]),
           InLock(stack'[cpu][n])
    PROVE  LockInv'
<1>1. n \in 1 .. n /\ \A k \in 1 .. n : (k < n => k \in 1 .. n - 1) /\ ~(k > n)
  OBVIOUS
<1>2. HolderRuns'
  BY <1>1 DEF HolderRuns
<1> QED
  BY <1>2 DEF LockInv

(* A step after which nobody is.                                           *)
LEMMA LockFreed ==
    ASSUME WellFormed', cpu' = cpu, cpu \in ThreadIds,
           scheduler_lock_value' = 0,
           \A i \in ThreadIds \ {cpu} : Quiet(i)', Quiet(cpu)'
    PROVE  LockInv'
BY DEF LockInv

(* A step that only replaces the running frame.                            *)
LEMMA LockReplace ==
    ASSUME LockInv, WellFormed', cpu' = cpu, NEW f \in Frames, Replace(f),
           \/ /\ scheduler_lock_value' = scheduler_lock_value
              /\ Above(Top) /\ Above(f)
           \/ /\ scheduler_lock_value' = scheduler_lock_value
              /\ ~Above(Top) /\ (InLock(Top) <=> InLock(f))
           \/ scheduler_lock_value = 0 /\ scheduler_lock_value' = 1 /\ InLock(f)
           \/ InLock(Top) /\ scheduler_lock_value' = 0 /\ ~InLock(f)
    PROVE  LockInv'
<1>w. WellFormed
  BY DEF LockInv
<1>n. PICK n \in Nat \ {0} : n = Len(stack[cpu])
  BY <1>w, TopProperties
<1>t. cpu \in ThreadIds /\ Top = stack[cpu][n] /\ n \in 1 .. n
  BY <1>w, <1>n, TopProperties
<1>a. \A k \in 1 .. n : k = n \/ k \in 1 .. n - 1
  OBVIOUS
<1>b. n - 1 \in Nat /\ n - 1 <= n /\ \A k \in 1 .. n : k > n - 1 => k = n
  OBVIOUS
<1>c. \A k \in 1 .. n - 1 : k \in 1 .. n
  OBVIOUS
<1>r. /\ \A i \in ThreadIds \ {cpu} : stack'[i] = stack[i]
      /\ Len(stack'[cpu]) = n
      /\ \A k \in 1 .. n - 1 : stack'[cpu][k] = stack[cpu][k]
      /\ stack'[cpu][n] = f
  BY <1>w, <1>n, ReplaceEffect
<1>o. ASSUME \A i \in ThreadIds \ {cpu} : Quiet(i)
      PROVE  \A i \in ThreadIds \ {cpu} : Quiet(i)'
  BY <1>o, <1>r DEF Quiet
<1>q. ASSUME Quiet(cpu)
      PROVE  \A k \in 1 .. n - 1 : ~InLock(stack'[cpu][k])
  <2>1. \A k \in 1 .. n : ~InLock(stack[cpu][k])
    BY <1>q, <1>n DEF Quiet
  <2> QED
    BY <2>1, <1>r, <1>c
<1>h. ASSUME InLock(Top)
      PROVE  /\ scheduler_lock_value = 1
             /\ \A i \in ThreadIds \ {cpu} : Quiet(i)'
             /\ \A k \in 1 .. n - 1 : ~InLock(stack'[cpu][k])
  <2>1. /\ scheduler_lock_value = 1
        /\ \A i \in ThreadIds \ {cpu} : Quiet(i)
        /\ \A k \in 1 .. n - 1 : ~InLock(stack[cpu][k])
    BY <1>h, <1>n, HolderOnTop
  <2> QED
    BY <2>1, <1>o, <1>r
<1>f. ASSUME scheduler_lock_value' = 0, ~InLock(f),
             \A k \in 1 .. n - 1 : ~InLock(stack'[cpu][k]),
             \A i \in ThreadIds \ {cpu} : Quiet(i)'
      PROVE  LockInv'
  <2>1. \A k \in 1 .. n : ~InLock(stack'[cpu][k])
    BY <1>a, <1>r, <1>f
  <2>2. Quiet(cpu)'
    BY <2>1, <1>r DEF Quiet
  <2> QED
    BY <2>2, <1>f, <1>t, LockFreed
<1>1. CASE /\ scheduler_lock_value' = scheduler_lock_value
           /\ Above(Top) /\ Above(f)
  <2>1. \A k \in 1 .. n : k > n - 1 => Above(stack[cpu][k])
    BY <1>1, <1>b, <1>t
  <2>2. \A k \in 1 .. n : k > n - 1 => Above(stack'[cpu][k])
    BY <1>1, <1>b, <1>r
  <2> QED
    BY <1>1, <1>n, <1>r, <1>b, <2>1, <2>2, LockUntouched
<1>2. CASE /\ scheduler_lock_value' = scheduler_lock_value
           /\ ~Above(Top) /\ (InLock(Top) <=> InLock(f))
  <2>1. CASE InLock(Top)
    BY <1>2, <2>1, <1>h, <1>r, <1>t, LockTaken
  <2>2. CASE ~InLock(Top)
    <3>1. scheduler_lock_value = 0 /\ \A i \in ThreadIds : Quiet(i)
      BY <1>2, <2>2, LockFree
    <3> QED
      BY <1>2, <2>2, <3>1, <1>f, <1>o, <1>q, <1>t
  <2> QED
    BY <2>1, <2>2
<1>3. CASE scheduler_lock_value = 0 /\ scheduler_lock_value' = 1 /\ InLock(f)
  <2>1. \A i \in ThreadIds : Quiet(i)
    BY <1>3 DEF LockInv
  <2> QED
    BY <1>3, <2>1, <1>o, <1>q, <1>r, <1>t, LockTaken
<1>4. CASE InLock(Top) /\ scheduler_lock_value' = 0 /\ ~InLock(f)
  BY <1>4, <1>h, <1>f
<1> QED
  BY <1>1, <1>2, <1>3, <1>4

(* A call from outside the lock, or by a handler.                          *)
LEMMA LockCall ==
    ASSUME LockInv, WellFormed', cpu' = cpu, NEW label \in Labels,
           NEW fn \in Procedures, NEW start \in Labels,
           Call(label, fn, start),
           scheduler_lock_value' = scheduler_lock_value,
           \/ Top.fn = "code" /\ start \in {"enter", "lock"}
           \/ Top.fn = "irq" /\ fn = "yield" /\ start = "enter"
    PROVE  LockInv'
<1>w. WellFormed
  BY DEF LockInv
<1>n. PICK n \in Nat \ {0} : n = Len(stack[cpu])
  BY <1>w, TopProperties
<1>t. cpu \in ThreadIds /\ Top = stack[cpu][n] /\ n \in 1 .. n
  BY <1>w, <1>n, TopProperties
<1> DEFINE g == [Top EXCEPT !.at = label]
           f == Frame(fn, start)
<1>r. /\ \A i \in ThreadIds \ {cpu} : stack'[i] = stack[i]
      /\ Len(stack'[cpu]) = n + 1
      /\ \A k \in 1 .. n - 1 : stack'[cpu][k] = stack[cpu][k]
      /\ stack'[cpu][n] = g
      /\ stack'[cpu][n + 1] = f
  BY <1>w, <1>n, CallEffect
<1>g. g.fn = Top.fn /\ f.fn = fn /\ f.at = start
  BY <1>w, TopProperties, MovedFrameType, FrameType
<1> HIDE DEF f, g
<1>a. \A k \in 1 .. n + 1 : k = n \/ k = n + 1 \/ k \in 1 .. n - 1
  OBVIOUS
<1>b. /\ n - 1 \in Nat /\ n + 1 \in Nat /\ n - 1 <= n /\ n - 1 <= n + 1
      /\ \A k \in 1 .. n : k > n - 1 => k = n
      /\ \A k \in 1 .. n + 1 : k > n - 1 => k = n \/ k = n + 1
      /\ \A k \in 1 .. n - 1 : k \in 1 .. n
  OBVIOUS
<1>1. CASE Top.fn = "code" /\ start \in {"enter", "lock"}
  <2>1. ~InLock(Top) /\ ~Above(Top) /\ ~InLock(f) /\ ~InLock(g)
    BY <1>1, <1>g DEF InLock, Above
  <2>2. scheduler_lock_value = 0 /\ \A i \in ThreadIds : Quiet(i)
    BY <2>1, LockFree
  <2>3. \A k \in 1 .. n - 1 : ~InLock(stack[cpu][k])
    BY <2>2, <1>b, <1>n, <1>t DEF Quiet
  <2>4. \A k \in 1 .. n + 1 : ~InLock(stack'[cpu][k])
    BY <2>1, <2>3, <1>a, <1>r
  <2>5. Quiet(cpu)'
    BY <2>4, <1>r DEF Quiet
  <2>6. \A i \in ThreadIds \ {cpu} : Quiet(i)'
    BY <2>2, <1>r DEF Quiet
  <2> QED
    BY <2>2, <2>5, <2>6, <1>t, LockFreed
<1>2. CASE Top.fn = "irq" /\ fn = "yield" /\ start = "enter"
  <2>1. Above(Top) /\ Above(f) /\ Above(g)
    BY <1>2, <1>g DEF Above
  <2>2. \A k \in 1 .. n : k > n - 1 => Above(stack[cpu][k])
    BY <2>1, <1>b, <1>t
  <2>3. \A k \in 1 .. n + 1 : k > n - 1 => Above(stack'[cpu][k])
    BY <2>1, <1>b, <1>r
  <2> QED
    BY <1>n, <1>r, <1>b, <2>2, <2>3, LockUntouched
<1> QED
  BY <1>1, <1>2

(* A return that lets the lock go, or of a procedure that is not inside.   *)
LEMMA LockReturn ==
    ASSUME LockInv, WellFormed', cpu' = cpu, Return,
           Top.fn \in {"yield", "create", "irq"},
           \/ InLock(Top) /\ scheduler_lock_value' = 0
           \/ /\ ~InLock(Top)
              /\ scheduler_lock_value' = scheduler_lock_value
    PROVE  LockInv'
<1>w. WellFormed
  BY DEF LockInv
<1>n. PICK n \in Nat \ {0} : n = Len(stack[cpu])
  BY <1>w, TopProperties
<1>t. cpu \in ThreadIds /\ Top = stack[cpu][n] /\ n \in 1 .. n
  BY <1>w, <1>n, TopProperties
<1>r. /\ \A i \in ThreadIds \ {cpu} : stack'[i] = stack[i]
      /\ Len(stack'[cpu]) = n - 1
      /\ \A k \in 1 .. n - 1 : stack'[cpu][k] = stack[cpu][k]
  BY <1>w, <1>n, ReturnEffect
<1>b. /\ n - 1 \in Nat /\ n - 1 <= n /\ n - 1 <= n - 1
      /\ \A k \in 1 .. n : k > n - 1 => k = n
      /\ \A k \in 1 .. n - 1 : ~(k > n - 1)
      /\ \A k \in 1 .. n - 1 : k \in 1 .. n
  OBVIOUS
<1>f. ASSUME \A i \in ThreadIds \ {cpu} : Quiet(i),
             \A k \in 1 .. n - 1 : ~InLock(stack[cpu][k]),
             scheduler_lock_value' = 0
      PROVE  LockInv'
  <2>1. \A k \in 1 .. n - 1 : ~InLock(stack'[cpu][k])
    BY <1>f, <1>r
  <2>2. Quiet(cpu)' /\ \A i \in ThreadIds \ {cpu} : Quiet(i)'
    BY <1>f, <1>r, <2>1 DEF Quiet
  <2> QED
    BY <2>2, <1>f, <1>t, LockFreed
<1>1. CASE InLock(Top) /\ scheduler_lock_value' = 0
  BY <1>1, <1>f, <1>n, HolderOnTop
<1>2. CASE ~InLock(Top) /\ scheduler_lock_value' = scheduler_lock_value
  <2>1. CASE Above(Top)
    <3>1. \A k \in 1 .. n : k > n - 1 => Above(stack[cpu][k])
      BY <2>1, <1>b, <1>t
    <3> QED
      BY <1>2, <1>n, <1>r, <1>b, <3>1, LockUntouched
  <2>2. CASE ~Above(Top)
    <3>1. scheduler_lock_value = 0 /\ \A i \in ThreadIds : Quiet(i)
      BY <1>2, <2>2, LockFree
    <3>2. \A k \in 1 .. n - 1 : ~InLock(stack[cpu][k])
      BY <3>1, <1>b, <1>n, <1>t DEF Quiet
    <3> QED
      BY <1>2, <3>1, <3>2, <1>f
  <2> QED
    BY <2>1, <2>2
<1> QED
  BY <1>1, <1>2

(* No switch happens while the lock is held, so none can take the holder   *)
(* off the processor.                                                      *)
LEMMA LockSwitch ==
    ASSUME LockInv, WellFormed', ContextSwitch
    PROVE  LockInv'
<1>w. WellFormed
  BY DEF LockInv
<1>1. ~InLock(Top) /\ ~Above(Top) /\ scheduler_lock_value' = scheduler_lock_value
  BY DEF ContextSwitch, At, InLock, Above
<1>2. scheduler_lock_value = 0 /\ \A i \in ThreadIds : Quiet(i)
  BY <1>1, LockFree
<1>3. \A i \in ThreadIds : \A k \in 1 .. Len(stack'[i]) :
         \/ stack'[i][k] = Frame("wild", "lost")
         \/ stack'[i][k] = Frame("yield", "return")
         \/ k \in 1 .. Len(stack[i]) /\ stack'[i][k] = stack[i][k]
  BY <1>w, SwitchEffect
<1>4. ~InLock(Frame("wild", "lost")) /\ ~InLock(Frame("yield", "return"))
  BY FrameType DEF InLock, Procedures, Labels
<1>5. \A i \in ThreadIds : Quiet(i)'
  <2> SUFFICES ASSUME NEW i \in ThreadIds, NEW k \in 1 .. Len(stack'[i])
               PROVE  ~InLock(stack'[i][k])
    BY DEF Quiet
  <2>1. k \in 1 .. Len(stack[i]) => ~InLock(stack[i][k])
    BY <1>2 DEF Quiet
  <2> QED
    BY <1>3, <1>4, <2>1
<1> QED
  BY <1>1, <1>2, <1>5 DEF LockInv

(* A new thread's stack has nothing inside the lock.                       *)
LEMMA LockBuild ==
    ASSUME LockInv, WellFormed', NEW e \in Entries, CreateBuild(e)
    PROVE  LockInv'
<1>w. WellFormed
  BY DEF LockInv
<1>n. PICK n \in Nat \ {0} : n = Len(stack[cpu])
  BY <1>w, TopProperties
<1>t. cpu \in ThreadIds /\ Top \in Frames
  BY <1>w, TopProperties
<1> DEFINE f == [Top EXCEPT !.at = "unlock"]
           b == Frame("bootstrap", "start")
<1>1. /\ Top.fn = "create" /\ Top.at = "build"
      /\ scheduler_lock_value' = scheduler_lock_value /\ cpu' = cpu
  BY DEF CreateBuild, At, processor
<1>2. /\ Len(stack'[cpu]) = n
      /\ \A k \in 1 .. n - 1 : stack'[cpu][k] = stack[cpu][k]
      /\ stack'[cpu][n] = f
  BY <1>w, <1>n, CreateBuildEffect
<1>3. PICK i \in ThreadIds \ {0} :
         /\ \A j \in ThreadIds \ {cpu, i} : stack'[j] = stack[j]
         /\ stack'[i] = << b >>
  BY <1>w, CreateBuildEffect
<1>4. b.fn = "bootstrap" /\ f.fn = "create" /\ f.at = "unlock"
  BY <1>1, <1>t, MovedFrameType, FrameType DEF Procedures, Labels
<1> HIDE DEF f, b
<1>5. InLock(Top) /\ InLock(f) /\ ~InLock(b)
  BY <1>1, <1>4 DEF InLock
<1>6. /\ scheduler_lock_value = 1
      /\ \A j \in ThreadIds \ {cpu} : Quiet(j)
      /\ \A k \in 1 .. n - 1 : ~InLock(stack[cpu][k])
  BY <1>5, <1>n, HolderOnTop
<1>7. \A j \in ThreadIds \ {cpu} : Quiet(j)'
  <2>1. \A k \in 1 .. Len(stack'[i]) : stack'[i][k] = b
    BY <1>3
  <2>2. Quiet(i)'
    BY <1>5, <2>1 DEF Quiet
  <2>3. \A j \in ThreadIds \ {cpu, i} : Quiet(j)'
    BY <1>3, <1>6 DEF Quiet
  <2> QED
    BY <2>2, <2>3
<1> QED
  BY <1>1, <1>2, <1>5, <1>6, <1>7, <1>t, LockTaken

(* Every step keeps the lock's invariant: the timer may divert the holder  *)
(* any number of times, but what it diverts it to waits.                   *)
LEMMA LockStep == LockInv /\ [PreemptiveNext]_vars => LockInv'
<1> SUFFICES ASSUME LockInv, [PreemptiveNext]_vars
             PROVE  LockInv'
  OBVIOUS
<1>w. WellFormed /\ WellFormed'
  BY WellFormedStep DEF LockInv
<1>t. Top \in Frames /\ current_thread \in ThreadIds
  BY <1>w, TopProperties DEF WellFormed, TypeOK
<1>m. \A label \in Labels : /\ [Top EXCEPT !.at = label] \in Frames
                            /\ [Top EXCEPT !.at = label].fn = Top.fn
                            /\ [Top EXCEPT !.at = label].at = label
  BY <1>t, MovedFrameType
<1>1. CASE YieldEnter
  <2> DEFINE f == [Top EXCEPT !.next = current_thread, !.at = "lock"]
  <2>1. f \in Frames /\ f.fn = Top.fn
    BY <1>w, <1>t, YieldFrameTypes
  <2>2. f.at = "lock"
    BY <1>t DEF Frames
  <2>3. /\ Replace(f) /\ Top.fn = "yield" /\ Top.at = "enter" /\ cpu' = cpu
        /\ scheduler_lock_value' = scheduler_lock_value
    BY <1>1 DEF YieldEnter, At, processor
  <2> HIDE DEF f
  <2>4. Above(Top) /\ Above(f)
    BY <2>1, <2>2, <2>3 DEF Above
  <2> QED
    BY <1>w, <2>1, <2>3, <2>4, LockReplace
<1>2. CASE YieldLock
  <2> DEFINE f == [Top EXCEPT !.at = "pick"]
  <2>1. f \in Frames /\ f.fn = Top.fn /\ f.at = "pick"
    BY <1>m DEF Labels
  <2>2. /\ Replace(f) /\ Top.fn = "yield" /\ cpu' = cpu
        /\ scheduler_lock_value = 0 /\ scheduler_lock_value' = 1
    BY <1>2 DEF YieldLock, At, Goto, processor
  <2> HIDE DEF f
  <2>3. InLock(f)
    BY <2>1, <2>2 DEF InLock
  <2> QED
    BY <1>w, <2>1, <2>2, <2>3, LockReplace
<1>3. CASE YieldStay
  <2>1. /\ Return /\ Top.fn = "yield" /\ Top.at = "pick" /\ cpu' = cpu
        /\ scheduler_lock_value' = 0
    BY <1>3 DEF YieldStay, At, processor
  <2>2. InLock(Top)
    BY <2>1 DEF InLock
  <2> QED
    BY <1>w, <2>1, <2>2, LockReturn
<1>4. CASE YieldPick
  <2>1. PICK n \in RoundRobin(Top.next) \ {current_thread} :
           Replace([Top EXCEPT !.next = n, !.previous = current_thread,
                               !.at = "unlock"])
    BY <1>4 DEF YieldPick
  <2>2. n \in ThreadIds
    <3>1. Top.next \in ThreadIds
      BY <1>t DEF Frames
    <3>2. n \in 0 .. thread_count - 1
      BY <1>w, <2>1, <3>1, RoundRobinProperties DEF WellFormed
    <3> QED
      BY <1>w, <3>2, SchedulerAssumption DEF ThreadIds, WellFormed, TypeOK
  <2> DEFINE f == [Top EXCEPT !.next = n, !.previous = current_thread,
                              !.at = "unlock"]
  <2>3. f \in Frames /\ f.fn = Top.fn
    BY <1>w, <2>2, YieldFrameTypes
  <2>4. f.at = "unlock"
    BY <1>t DEF Frames
  <2>5. /\ Top.fn = "yield" /\ Top.at = "pick" /\ cpu' = cpu
        /\ scheduler_lock_value' = scheduler_lock_value
    BY <1>4 DEF YieldPick, At, processor
  <2>6. Replace(f)
    BY <2>1
  <2> HIDE DEF f
  <2>7. InLock(Top) /\ InLock(f) /\ ~Above(Top)
    BY <2>3, <2>4, <2>5 DEF InLock, Above
  <2> QED
    BY <1>w, <2>3, <2>5, <2>6, <2>7, LockReplace
<1>5. CASE YieldUnlock
  <2> DEFINE f == [Top EXCEPT !.at = "arguments"]
  <2>1. f \in Frames /\ f.fn = Top.fn /\ f.at = "arguments"
    BY <1>m DEF Labels
  <2>2. /\ Replace(f) /\ Top.fn = "yield" /\ Top.at = "unlock" /\ cpu' = cpu
        /\ scheduler_lock_value' = 0
    BY <1>5 DEF YieldUnlock, At, Goto, processor
  <2> HIDE DEF f
  <2>3. InLock(Top) /\ ~InLock(f)
    BY <2>1, <2>2 DEF InLock
  <2> QED
    BY <1>w, <2>1, <2>2, <2>3, LockReplace
<1>6. CASE YieldArguments
  <2> DEFINE f == [Top EXCEPT !.target = stack_pointer[Top.next],
                              !.at = "switch"]
  <2>1. f \in Frames /\ f.fn = Top.fn
    BY <1>w, <1>t, YieldFrameTypes
  <2>2. f.at = "switch"
    BY <1>t DEF Frames
  <2>3. /\ Replace(f) /\ Top.fn = "yield" /\ Top.at = "arguments"
        /\ scheduler_lock_value' = scheduler_lock_value /\ cpu' = cpu
    BY <1>6 DEF YieldArguments, At, processor
  <2> HIDE DEF f
  <2>4. ~InLock(Top) /\ ~InLock(f) /\ ~Above(Top)
    BY <2>1, <2>2, <2>3 DEF InLock, Above
  <2> QED
    BY <1>w, <2>1, <2>3, <2>4, LockReplace
<1>7. CASE ContextSwitch
  BY <1>7, <1>w, LockSwitch
<1>8. CASE YieldReturn
  <2>1. /\ Return /\ Top.fn = "yield" /\ Top.at = "return" /\ cpu' = cpu
        /\ scheduler_lock_value' = scheduler_lock_value
    BY <1>8 DEF YieldReturn, At, processor
  <2>2. ~InLock(Top)
    BY <2>1 DEF InLock
  <2> QED
    BY <1>w, <2>1, <2>2, LockReturn
<1>9. CASE CreateLock
  <2> DEFINE f == [Top EXCEPT !.at = "build"]
  <2>1. f \in Frames /\ f.fn = Top.fn /\ f.at = "build"
    BY <1>m DEF Labels
  <2>2. /\ Replace(f) /\ Top.fn = "create" /\ cpu' = cpu
        /\ scheduler_lock_value = 0 /\ scheduler_lock_value' = 1
    BY <1>9 DEF CreateLock, At, Goto, processor
  <2> HIDE DEF f
  <2>3. InLock(f)
    BY <2>1, <2>2 DEF InLock
  <2> QED
    BY <1>w, <2>1, <2>2, <2>3, LockReplace
<1>10. CASE \E e \in Entries : CreateBuild(e)
  BY <1>10, <1>w, LockBuild
<1>11. CASE CreateFail
  <2> DEFINE f == [Top EXCEPT !.at = "unlock"]
  <2>1. f \in Frames /\ f.fn = Top.fn /\ f.at = "unlock"
    BY <1>m DEF Labels
  <2>2. /\ Replace(f) /\ Top.fn = "create" /\ Top.at = "build" /\ cpu' = cpu
        /\ scheduler_lock_value' = scheduler_lock_value
    BY <1>11 DEF CreateFail, At, Goto, processor
  <2> HIDE DEF f
  <2>3. InLock(Top) /\ InLock(f) /\ ~Above(Top)
    BY <2>1, <2>2 DEF InLock, Above
  <2> QED
    BY <1>w, <2>1, <2>2, <2>3, LockReplace
<1>12. CASE CreateUnlock
  <2>1. /\ Return /\ Top.fn = "create" /\ Top.at = "unlock" /\ cpu' = cpu
        /\ scheduler_lock_value' = 0
    BY <1>12 DEF CreateUnlock, At, processor
  <2>2. InLock(Top)
    BY <2>1 DEF InLock
  <2> QED
    BY <1>w, <2>1, <2>2, LockReturn
<1>13. CASE BootstrapStart("run")
  <2> DEFINE f == Frame("code", "run")
  <2>1. f \in Frames /\ f.fn = "code"
    BY FrameType DEF Procedures, Labels
  <2>2. /\ Replace(f) /\ Top.fn = "bootstrap" /\ cpu' = cpu
        /\ scheduler_lock_value' = scheduler_lock_value
    BY <1>13 DEF BootstrapStart, At
  <2> HIDE DEF f
  <2>3. ~InLock(Top) /\ ~InLock(f) /\ ~Above(Top)
    BY <2>1, <2>2 DEF InLock, Above
  <2> QED
    BY <1>w, <2>1, <2>2, <2>3, LockReplace
<1>14. CASE ExitYield \/ CodeYields
  <2>1. PICK label \in {"halt", "run"} : Call(label, "yield", "enter")
    BY <1>14 DEF ExitYield, CodeYields, CallYield
  <2>2. /\ Top.fn = "code" /\ cpu' = cpu
        /\ scheduler_lock_value' = scheduler_lock_value
    BY <1>14 DEF ExitYield, CodeYields, CallYield, At, processor
  <2>3. label \in Labels /\ "enter" \in Labels /\ "yield" \in Procedures
    BY <2>1 DEF Labels, Procedures
  <2> QED
    BY <1>w, <2>1, <2>2, <2>3, LockCall
<1>15. CASE CodeCreates
  <2>1. /\ Call("run", "create", "lock") /\ Top.fn = "code" /\ cpu' = cpu
        /\ scheduler_lock_value' = scheduler_lock_value
    BY <1>15 DEF CodeCreates, At, processor
  <2>2. "run" \in Labels /\ "lock" \in Labels /\ "create" \in Procedures
    BY DEF Labels, Procedures
  <2> QED
    BY <1>w, <2>1, <2>2, LockCall
<1>16. CASE CodeReturns
  <2> DEFINE f == [Top EXCEPT !.at = "exited"]
  <2>1. f \in Frames /\ f.fn = Top.fn
    BY <1>m DEF Labels
  <2>2. /\ Replace(f) /\ Top.fn = "code" /\ cpu' = cpu
        /\ scheduler_lock_value' = scheduler_lock_value
    BY <1>16 DEF CodeReturns, EntryReturned, At, Goto, processor
  <2> HIDE DEF f
  <2>3. ~InLock(Top) /\ ~InLock(f) /\ ~Above(Top)
    BY <2>1, <2>2 DEF InLock, Above
  <2> QED
    BY <1>w, <2>1, <2>2, <2>3, LockReplace
<1>17. CASE Tick
  <2>n. PICK n \in Nat \ {0} : n = Len(stack[cpu])
    BY <1>w, TopProperties
  <2>1. /\ \A i \in ThreadIds \ {cpu} : stack'[i] = stack[i]
        /\ Len(stack'[cpu]) = n + 1
        /\ \A k \in 1 .. n : stack'[cpu][k] = stack[cpu][k]
        /\ stack'[cpu][n + 1] = Frame("irq", "handler")
    BY <1>17, <1>w, <2>n, TickEffect
  <2>2. Above(Frame("irq", "handler"))
    BY FrameType DEF Above, Procedures, Labels
  <2>3. /\ n \in Nat /\ n + 1 \in Nat /\ n <= n /\ n <= n + 1
        /\ \A k \in 1 .. n : ~(k > n)
        /\ \A k \in 1 .. n + 1 : k > n => k = n + 1
    OBVIOUS
  <2>4. \A k \in 1 .. n + 1 : k > n => Above(stack'[cpu][k])
    BY <2>1, <2>2, <2>3
  <2>5. cpu' = cpu /\ scheduler_lock_value' = scheduler_lock_value
    BY <1>17 DEF Tick
  <2> QED
    BY <1>w, <2>n, <2>1, <2>3, <2>4, <2>5, LockUntouched
<1>18. CASE TickIgnored
  <2> DEFINE f == [Top EXCEPT !.at = "iretq"]
  <2>1. f \in Frames /\ f.fn = Top.fn
    BY <1>m DEF Labels
  <2>2. /\ Replace(f) /\ Top.fn = "irq" /\ cpu' = cpu
        /\ scheduler_lock_value' = scheduler_lock_value
    BY <1>18 DEF TickIgnored, At, Goto, processor
  <2> HIDE DEF f
  <2>3. Above(Top) /\ Above(f)
    BY <2>1, <2>2 DEF Above
  <2> QED
    BY <1>w, <2>1, <2>2, <2>3, LockReplace
<1>19. CASE InterruptReturn
  <2>1. /\ Return /\ Top.fn = "irq" /\ cpu' = cpu
        /\ scheduler_lock_value' = scheduler_lock_value
    BY <1>19 DEF InterruptReturn, At
  <2>2. ~InLock(Top)
    BY <2>1 DEF InLock
  <2> QED
    BY <1>w, <2>1, <2>2, LockReturn
<1>20. CASE TickYields
  <2>1. /\ Call("iretq", "yield", "enter") /\ Top.fn = "irq" /\ cpu' = cpu
        /\ scheduler_lock_value' = scheduler_lock_value
    BY <1>20 DEF TickYields, CallYield, At, processor
  <2>2. "iretq" \in Labels /\ "enter" \in Labels /\ "yield" \in Procedures
    BY DEF Labels, Procedures
  <2> QED
    BY <1>w, <2>1, <2>2, LockCall
<1>21. CASE \E on \in BOOLEAN : SetPreemption(on)
  BY <1>21, <1>w
  DEF SetPreemption, processor, LockInv, HolderRuns, Quiet
<1>22. CASE UNCHANGED vars
  BY <1>22, <1>w DEF vars, processor, LockInv, HolderRuns, Quiet
<1> QED
  BY <1>1, <1>2, <1>3, <1>4, <1>5, <1>6, <1>7, <1>8, <1>9, <1>10, <1>11,
     <1>12, <1>13, <1>14, <1>15, <1>16, <1>17, <1>18, <1>19, <1>20, <1>21,
     <1>22
  DEF PreemptiveNext, CooperativeNext, Yielding, Creating, Interrupting

(* The invariant names the only holder.                                    *)
LEMMA LockInvImplies == LockInv => LockProtects
<1> SUFFICES ASSUME LockInv
             PROVE  LockProtects
  OBVIOUS
<1>w. /\ cpu \in ThreadIds
      /\ stack \in [ThreadIds -> Seq(Frames)]
      /\ scheduler_lock_value \in {0, 1}
  BY DEF LockInv, WellFormed, TypeOK
<1>d. \A i \in ThreadIds : DOMAIN stack[i] = 1 .. Len(stack[i])
  BY <1>w, LenProperties
<1>h. \A p : p \in Holders <=>
         \E i \in ThreadIds : \E k \in 1 .. Len(stack[i]) :
            p = << i, k >> /\ InLock(stack[i][k])
  <2> DEFINE P == UNION {{i} \X DOMAIN stack[i] : i \in ThreadIds}
  <2>1. \A p : p \in P <=> \E i \in ThreadIds : \E k \in DOMAIN stack[i] :
                              p = << i, k >>
    OBVIOUS
  <2>2. \A p : p \in Holders <=> p \in P /\ InLock(stack[p[1]][p[2]])
    BY DEF Holders
  <2> HIDE DEF P
  <2> QED
    BY <1>d, <2>1, <2>2
<1>1. CASE scheduler_lock_value = 0
  <2>1. Holders = {}
    BY <1>1, <1>h DEF LockInv, Quiet
  <2> QED
    BY <1>1, <2>1 DEF LockProtects
<1>2. CASE scheduler_lock_value = 1
  <2>1. HolderRuns
    BY <1>2 DEF LockInv
  <2>n. PICK n \in Nat : n = Len(stack[cpu])
    BY <1>w
  <2>2. PICK h \in 1 .. n :
           /\ InLock(stack[cpu][h])
           /\ \A k \in 1 .. n : /\ k < h => ~InLock(stack[cpu][k])
                                /\ k > h => Above(stack[cpu][k])
    BY <2>1, <2>n DEF HolderRuns
  <2>3. \A k \in 1 .. n : InLock(stack[cpu][k]) => k = h
    <3> SUFFICES ASSUME NEW k \in 1 .. n, InLock(stack[cpu][k])
                 PROVE  k = h
      OBVIOUS
    <3>1. ~(k < h)
      BY <2>2
    <3>2. ~(k > h)
      BY <2>2, AboveOutside
    <3> QED
      BY <3>1, <3>2
  <2>4. \A i \in ThreadIds : \A k \in 1 .. Len(stack[i]) :
           InLock(stack[i][k]) => i = cpu /\ k = h
    BY <2>1, <2>n, <2>3 DEF HolderRuns, Quiet
  <2>5. \A p \in Holders : p = << cpu, h >>
    BY <1>h, <2>4
  <2>6. << cpu, h >> \in Holders
    BY <1>h, <1>w, <2>2, <2>n
  <2> QED
    BY <1>2, <2>5, <2>6 DEF LockProtects
<1> QED
  BY <1>w, <1>1, <1>2

(* Whatever the timer diverts, and however deep, at most one activation of *)
(* scheduler_yield and scheduler_create_thread is between lock and unlock, *)
(* exactly when the lock word is 1: the spin lock does what it is for even *)
(* in the preemptive configuration.                                        *)
THEOREM LockCorrect == Preemptive => []LockProtects
<1>1. Init => LockInv
  <2> SUFFICES ASSUME Init
               PROVE  LockInv
    OBVIOUS
  <2>1. Frame("code", "run").fn = "code"
    BY FrameType DEF Procedures, Labels
  <2>2. WellFormed
    BY WellFormedInit
  <2>3. \A i \in ThreadIds : \A k \in 1 .. Len(stack[i]) :
           stack[i][k] = Frame("code", "run")
    <3> DEFINE f == Frame("code", "run")
    <3>1. stack = [i \in ThreadIds |-> IF i = 0 THEN << f >> ELSE << >>]
      BY DEF Init
    <3> HIDE DEF f
    <3>2. \A i \in ThreadIds : \A k \in 1 .. Len(stack[i]) : stack[i][k] = f
      BY <3>1
    <3> QED
      BY <3>2 DEF f
  <2>4. \A i \in ThreadIds : Quiet(i)
    BY <2>1, <2>3 DEF Quiet, InLock
  <2> QED
    BY <2>2, <2>4 DEF LockInv, Init
<1> QED
  BY <1>1, LockStep, LockInvImplies, PTL DEF Preemptive

-----------------------------------------------------------------------------
(***************************************************************************)
(* Context switches without preemption: no context is lost or mixed up,    *)
(* current_thread names the running thread, and a thread that has ended    *)
(* never runs again.                                                       *)
(***************************************************************************)

(* The inductive invariant.                                                *)

(* Without preemption a stack is at most three frames deep: the thread's   *)
(* code or its bootstrap, a call of the scheduler, an interrupt handler.   *)
(* A thread that has ended is inside its last yield for ever.              *)
Shaped(s) ==
    /\ Len(s) \in 1 .. 3
    /\ \/ s[1].fn = "code" /\ s[1].at \in {"run", "exited", "halt"}
       \/ s[1].fn = "bootstrap" /\ s[1].at = "start"
    /\ s[1].at = "halt" => Len(s) > 1 /\ s[2].fn = "yield"
    /\ Len(s) > 1 =>
          \/ s[2].fn = "yield" /\ s[1].at \in {"run", "halt"}
          \/ s[2].fn = "create" /\ s[1].at = "run"
          \/ s[2].fn = "irq" /\ Len(s) = 2
    /\ Len(s) = 3 => s[3].fn = "irq"

(* The threads that do not run wait inside context_switch or have not      *)
(* started, and the saved stack pointer of an active one is right.         *)
OthersWait ==
    \A i \in ThreadIds \ {cpu} :
        /\ stack[i] # << >> => Shaped(stack[i]) /\ Suspended(i)
        /\ active[i] => /\ stack[i] # << >>
                        /\ stack[i][1].at # "halt"
                        /\ stack_pointer[i] = StackTop(i)

(* What the running procedure f, below any interrupt handler, says about   *)
(* current_thread: it is the running thread until scheduler_yield has      *)
(* picked another one, which is then active and not the running one.       *)
KnownBy(f) ==
    LET switching == f.fn = "yield" /\ f.at \in {"unlock", "arguments", "switch"}
    IN
    /\ ~switching => current_thread = cpu
    /\ switching => /\ f.previous = cpu
                    /\ f.next = current_thread
                    /\ current_thread # cpu
                    /\ active[current_thread]
    /\ f.fn = "yield" /\ f.at = "switch" =>
          f.target = stack_pointer[current_thread]
    /\ f.fn = "yield" /\ f.at \in {"lock", "pick"} => f.next = cpu
    /\ f.fn = "yield" /\ f.at = "return" => active[cpu]

CurrentKnown ==
    KnownBy(IF Len(stack[cpu]) > 1 THEN stack[cpu][2] ELSE stack[cpu][1])

(* Thread 0 never ends, so that a search of the table always finds one.    *)
TableKnown ==
    /\ active[0]
    /\ cpu < thread_count
    /\ \A i \in ThreadIds : active[i] => i < thread_count
    /\ active[cpu] <=> stack[cpu][1].at \notin {"exited", "halt"}
    /\ ~preemption_enabled

SwitchInv ==
    /\ WellFormed
    /\ Shaped(stack[cpu])
    /\ OthersWait
    /\ CurrentKnown
    /\ TableKnown
    /\ interrupt_flag <=> Top.fn # "irq"

-----------------------------------------------------------------------------

(* The running frame tells how deep the running stack is.                  *)
LEMMA TopDepth ==
    ASSUME SwitchInv
    PROVE  /\ Len(stack[cpu]) \in 1 .. 3
           /\ Top = stack[cpu][Len(stack[cpu])]
           /\ Top \in Frames
           /\ cpu \in ThreadIds
           /\ Top.fn \in {"code", "bootstrap"} => Len(stack[cpu]) = 1
           /\ Top.fn \in {"yield", "create"} => Len(stack[cpu]) = 2
           /\ Top.fn = "irq" => Len(stack[cpu]) \in 2 .. 3
<1>1. /\ cpu \in ThreadIds /\ Top \in Frames
      /\ Top = stack[cpu][Len(stack[cpu])]
  BY TopProperties DEF SwitchInv
<1>n. PICK n \in 1 .. 3 : n = Len(stack[cpu])
  BY DEF SwitchInv, Shaped
<1>2. Shaped(stack[cpu])
  BY DEF SwitchInv
<1>3. CASE n = 1
  BY <1>1, <1>n, <1>2, <1>3 DEF Shaped
<1>4. CASE n = 2
  <2>1. stack[cpu][2].fn \in {"yield", "create", "irq"}
    BY <1>n, <1>2, <1>4 DEF Shaped
  <2> QED
    BY <1>1, <1>n, <1>4, <2>1
<1>5. CASE n = 3
  <2>1. stack[cpu][3].fn = "irq"
    BY <1>n, <1>2, <1>5 DEF Shaped
  <2> QED
    BY <1>1, <1>n, <1>5, <2>1
<1> QED
  BY <1>3, <1>4, <1>5

(* A step that changes only the running stack, and nothing in the table    *)
(* but, at most, that the running thread ends.                             *)
LEMMA RunningStep ==
    ASSUME SwitchInv, WellFormed', cpu' = cpu,
           \A i \in ThreadIds \ {cpu} : stack'[i] = stack[i],
           stack_pointer' = stack_pointer, thread_count' = thread_count,
           ~preemption_enabled',
           \A i \in ThreadIds \ {cpu} : active'[i] = active[i],
           active'[0],
           active'[cpu] <=> stack'[cpu][1].at \notin {"exited", "halt"},
           Shaped(stack'[cpu]),
           interrupt_flag' <=> stack'[cpu][Len(stack'[cpu])].fn # "irq",
           CurrentKnown'
    PROVE  SwitchInv'
<1>1. cpu \in ThreadIds /\ cpu < thread_count
  BY TopDepth DEF SwitchInv, TableKnown
<1>2. Shaped(stack[cpu])'
  OBVIOUS
<1>3. OthersWait'
  <2> SUFFICES ASSUME NEW i \in ThreadIds \ {cpu}
               PROVE  /\ stack'[i] # << >> => Shaped(stack'[i]) /\ Suspended(i)'
                      /\ active'[i] => /\ stack'[i] # << >>
                                       /\ stack'[i][1].at # "halt"
                                       /\ stack_pointer'[i] = StackTop(i)'
    BY DEF OthersWait
  <2>1. /\ stack[i] # << >> => Shaped(stack[i]) /\ Suspended(i)
        /\ active[i] => /\ stack[i] # << >>
                        /\ stack[i][1].at # "halt"
                        /\ stack_pointer[i] = StackTop(i)
    BY DEF SwitchInv, OthersWait
  <2>2. stack'[i] = stack[i] /\ active'[i] = active[i]
    OBVIOUS
  <2>3. Suspended(i)' <=> Suspended(i)
    BY <2>2 DEF Suspended
  <2>4. StackTop(i)' = StackTop(i)
    BY <2>2 DEF StackTop
  <2> QED
    BY <2>1, <2>2, <2>3, <2>4
<1>4. TableKnown'
  <2>1. \A i \in ThreadIds : active'[i] => i < thread_count
    BY <1>1 DEF SwitchInv, TableKnown
  <2> QED
    BY <1>1, <2>1 DEF TableKnown
<1>5. Top' = stack'[cpu][Len(stack'[cpu])]
  BY DEF Top, Last
<1> QED
  BY <1>2, <1>3, <1>4, <1>5 DEF SwitchInv

(* The scheduler procedure that runs moves on inside its frame.            *)
LEMMA CalleeMoves ==
    ASSUME SwitchInv, WellFormed', cpu' = cpu, NEW f \in Frames, Replace(f),
           Top.fn \in {"yield", "create"}, f.fn = Top.fn,
           stack_pointer' = stack_pointer, thread_count' = thread_count,
           preemption_enabled' = preemption_enabled, active' = active,
           interrupt_flag' = interrupt_flag, KnownBy(f)'
    PROVE  SwitchInv'
<1>1. /\ Len(stack[cpu]) = 2 /\ Top = stack[cpu][2] /\ cpu \in ThreadIds
  BY TopDepth
<1>2. /\ \A i \in ThreadIds \ {cpu} : stack'[i] = stack[i]
      /\ Len(stack'[cpu]) = 2
      /\ stack'[cpu][1] = stack[cpu][1]
      /\ stack'[cpu][2] = f
  <2>1. 1 \in 1 .. 2 - 1
    OBVIOUS
  <2> QED
    BY <1>1, <2>1, ReplaceEffect DEF SwitchInv
<1>3. Shaped(stack'[cpu])
  BY <1>1, <1>2 DEF SwitchInv, Shaped
<1>4. CurrentKnown'
  <2>1. Len(stack'[cpu']) > 1 /\ stack'[cpu'][2] = f
    BY <1>2
  <2> QED
    BY <2>1 DEF CurrentKnown
<1>5. interrupt_flag' <=> stack'[cpu][Len(stack'[cpu])].fn # "irq"
  BY <1>1, <1>2 DEF SwitchInv
<1>6. active'[cpu] <=> stack'[cpu][1].at \notin {"exited", "halt"}
  BY <1>2 DEF SwitchInv, TableKnown
<1>7. active'[0] /\ ~preemption_enabled'
  BY DEF SwitchInv, TableKnown
<1> QED
  BY <1>2, <1>3, <1>4, <1>5, <1>6, <1>7, RunningStep

(* It returns to the thread's code, unless that has ended.                 *)
LEMMA CalleeReturns ==
    ASSUME SwitchInv, WellFormed', cpu' = cpu, Return,
           Top.fn \in {"yield", "create"}, stack[cpu][1].at # "halt",
           current_thread' = cpu,
           stack_pointer' = stack_pointer, thread_count' = thread_count,
           preemption_enabled' = preemption_enabled, active' = active,
           interrupt_flag' = interrupt_flag
    PROVE  SwitchInv'
<1>1. /\ Len(stack[cpu]) = 2 /\ Top = stack[cpu][2] /\ cpu \in ThreadIds
  BY TopDepth
<1>2. /\ \A i \in ThreadIds \ {cpu} : stack'[i] = stack[i]
      /\ Len(stack'[cpu]) = 1
      /\ stack'[cpu][1] = stack[cpu][1]
  <2>1. 1 \in 1 .. 2 - 1 /\ 2 - 1 = 1
    OBVIOUS
  <2> QED
    BY <1>1, <2>1, ReturnEffect DEF SwitchInv
<1>3. stack[cpu][1].fn = "code" /\ stack[cpu][1].at = "run"
  BY <1>1 DEF SwitchInv, Shaped
<1>4. Shaped(stack'[cpu])
  BY <1>2, <1>3 DEF Shaped
<1>5. CurrentKnown'
  BY <1>2, <1>3 DEF CurrentKnown, KnownBy
<1>6. interrupt_flag' <=> stack'[cpu][Len(stack'[cpu])].fn # "irq"
  BY <1>1, <1>2, <1>3 DEF SwitchInv
<1>7. active'[cpu] <=> stack'[cpu][1].at \notin {"exited", "halt"}
  BY <1>2 DEF SwitchInv, TableKnown
<1>8. active'[0] /\ ~preemption_enabled'
  BY DEF SwitchInv, TableKnown
<1> QED
  BY <1>2, <1>4, <1>5, <1>6, <1>7, <1>8, RunningStep

(* The thread's code calls the scheduler; the last call of a thread that   *)
(* has ended will not return.                                              *)
LEMMA CodeCalls ==
    ASSUME SwitchInv, WellFormed', cpu' = cpu, NEW label \in Labels,
           NEW fn \in Procedures, NEW start \in Labels,
           Call(label, fn, start), Top.fn = "code",
           \/ Top.at = "run" /\ label = "run" /\ fn = "yield" /\ start = "enter"
           \/ Top.at = "exited" /\ label = "halt" /\ fn = "yield" /\ start = "enter"
           \/ Top.at = "run" /\ label = "run" /\ fn = "create",
           current_thread' = current_thread,
           stack_pointer' = stack_pointer, thread_count' = thread_count,
           preemption_enabled' = preemption_enabled, active' = active,
           interrupt_flag' = interrupt_flag
    PROVE  SwitchInv'
<1>1. Len(stack[cpu]) = 1 /\ Top = stack[cpu][1] /\ cpu \in ThreadIds
      /\ Top \in Frames
  BY TopDepth
<1> DEFINE g == [Top EXCEPT !.at = label]
           f == Frame(fn, start)
<1>2. /\ \A i \in ThreadIds \ {cpu} : stack'[i] = stack[i]
      /\ Len(stack'[cpu]) = 2
      /\ stack'[cpu][1] = g
      /\ stack'[cpu][2] = f
  <2>1. 1 + 1 = 2
    OBVIOUS
  <2> QED
    BY <1>1, <2>1, CallEffect DEF SwitchInv
<1>3. g.fn = "code" /\ g.at = label /\ f.fn = fn /\ f.at = start
  BY <1>1, MovedFrameType, FrameType
<1> HIDE DEF f, g
<1>4. Shaped(stack'[cpu])
  BY <1>2, <1>3 DEF Shaped
<1>5. current_thread = cpu
  BY <1>1 DEF SwitchInv, CurrentKnown, KnownBy
<1>6. CurrentKnown'
  BY <1>2, <1>3, <1>5 DEF CurrentKnown, KnownBy
<1>7. interrupt_flag' <=> stack'[cpu][Len(stack'[cpu])].fn # "irq"
  BY <1>2, <1>3 DEF SwitchInv
<1>8. active'[cpu] <=> stack'[cpu][1].at \notin {"exited", "halt"}
  BY <1>1, <1>2, <1>3 DEF SwitchInv, TableKnown
<1>9. active'[0] /\ ~preemption_enabled'
  BY DEF SwitchInv, TableKnown
<1> QED
  BY <1>2, <1>4, <1>6, <1>7, <1>8, <1>9, RunningStep

(* The timer interrupt, which preemption being off comes to nothing.       *)
LEMMA HandlerSteps ==
    ASSUME SwitchInv, WellFormed', Interrupting
    PROVE  SwitchInv'
<1>n. PICK n \in 1 .. 3 : n = Len(stack[cpu])
  BY TopDepth
<1>s. Shaped(stack[cpu]) /\ CurrentKnown
  BY DEF SwitchInv
<1>u. /\ cpu' = cpu /\ stack_pointer' = stack_pointer
      /\ thread_count' = thread_count /\ active' = active
      /\ current_thread' = current_thread
      /\ preemption_enabled' = preemption_enabled
  BY DEF Interrupting, Tick, TickIgnored, InterruptReturn, table, processor
<1>a. active'[0] /\ ~preemption_enabled'
  BY <1>u DEF SwitchInv, TableKnown
<1>b. active'[cpu] <=> stack[cpu][1].at \notin {"exited", "halt"}
  BY <1>u DEF SwitchInv, TableKnown
<1>1. CASE Tick
  <2>1. n \in 1 .. 2
    <3>1. interrupt_flag
      BY <1>1 DEF Tick
    <3>2. n # 3
      BY <3>1, <1>n, <1>s, TopDepth DEF SwitchInv, Shaped
    <3> QED
      BY <3>2
  <2>2. /\ \A i \in ThreadIds \ {cpu} : stack'[i] = stack[i]
        /\ Len(stack'[cpu]) = n + 1
        /\ \A k \in 1 .. n : stack'[cpu][k] = stack[cpu][k]
        /\ stack'[cpu][n + 1] = Frame("irq", "handler")
    BY <1>1, <1>n, TickEffect DEF SwitchInv
  <2>3. Frame("irq", "handler").fn = "irq"
    BY FrameType DEF Procedures, Labels
  <2>4. ~interrupt_flag'
    BY <1>1 DEF Tick
  <2>5. interrupt_flag
    BY <1>1 DEF Tick
  <2>6. CASE n = 1
    <3>1. /\ Len(stack'[cpu]) = 2 /\ stack'[cpu][1] = stack[cpu][1]
          /\ stack'[cpu][2].fn = "irq"
      BY <2>2, <2>3, <2>6
    <3>2. stack[cpu][1].at # "halt" /\ stack[cpu][1].fn # "yield"
      BY <1>n, <1>s, <2>6 DEF Shaped
    <3>3. Shaped(stack'[cpu])
      BY <1>n, <1>s, <2>6, <3>1, <3>2 DEF Shaped
    <3>4. current_thread = cpu
      BY <1>n, <1>s, <2>6, <3>2 DEF CurrentKnown, KnownBy
    <3>5. CurrentKnown'
      BY <1>u, <3>1, <3>4 DEF CurrentKnown, KnownBy
    <3> QED
      BY <1>u, <1>a, <1>b, <2>2, <2>4, <3>1, <3>3, <3>5, RunningStep
  <2>7. CASE n = 2
    <3>1. /\ Len(stack'[cpu]) = 3 /\ stack'[cpu][1] = stack[cpu][1]
          /\ stack'[cpu][2] = stack[cpu][2] /\ stack'[cpu][3].fn = "irq"
      BY <2>2, <2>3, <2>7
    <3>2. stack[cpu][2].fn # "irq"
      BY <1>n, <2>5, <2>7, TopDepth DEF SwitchInv
    <3>3. Shaped(stack'[cpu])
      BY <1>n, <1>s, <2>7, <3>1, <3>2 DEF Shaped
    <3>4. KnownBy(stack[cpu][2])
      BY <1>n, <1>s, <2>7 DEF CurrentKnown
    <3>5. CurrentKnown'
      BY <1>u, <3>1, <3>4 DEF CurrentKnown, KnownBy
    <3> QED
      BY <1>u, <1>a, <1>b, <2>2, <2>4, <3>1, <3>3, <3>5, RunningStep
  <2> QED
    BY <2>1, <2>6, <2>7
<1>2. CASE TickIgnored
  <2>m. /\ [Top EXCEPT !.at = "iretq"] \in Frames
        /\ [Top EXCEPT !.at = "iretq"].fn = Top.fn
    BY TopDepth, MovedFrameType DEF Labels
  <2>f. PICK f \in Frames : f = [Top EXCEPT !.at = "iretq"] /\ f.fn = Top.fn
    BY <2>m
  <2>1. Replace(f) /\ Top.fn = "irq" /\ interrupt_flag' = interrupt_flag
    BY <1>2, <2>f DEF TickIgnored, At, Goto, processor
  <2>2. n \in 2 .. 3 /\ Top = stack[cpu][n]
    BY <1>n, <2>1, TopDepth
  <2>3. /\ \A i \in ThreadIds \ {cpu} : stack'[i] = stack[i]
        /\ Len(stack'[cpu]) = n
        /\ \A k \in 1 .. n - 1 : stack'[cpu][k] = stack[cpu][k]
        /\ stack'[cpu][n].fn = "irq"
    BY <1>n, <2>f, <2>1, ReplaceEffect DEF SwitchInv
  <2>4. ~interrupt_flag'
    BY <2>1 DEF SwitchInv
  <2>5. CASE n = 2
    <3>1. /\ Len(stack'[cpu]) = 2 /\ stack'[cpu][1] = stack[cpu][1]
          /\ stack'[cpu][2].fn = "irq" /\ stack[cpu][2].fn = "irq"
      BY <2>1, <2>2, <2>3, <2>5
    <3>2. Shaped(stack'[cpu])
      BY <1>n, <1>s, <2>5, <3>1 DEF Shaped
    <3>3. current_thread = cpu
      BY <1>n, <1>s, <2>5, <3>1 DEF CurrentKnown, KnownBy
    <3>4. CurrentKnown'
      BY <1>u, <3>1, <3>3 DEF CurrentKnown, KnownBy
    <3> QED
      BY <1>u, <1>a, <1>b, <2>3, <2>4, <3>1, <3>2, <3>4, RunningStep
  <2>6. CASE n = 3
    <3>1. /\ Len(stack'[cpu]) = 3 /\ stack'[cpu][1] = stack[cpu][1]
          /\ stack'[cpu][2] = stack[cpu][2] /\ stack'[cpu][3].fn = "irq"
      BY <2>3, <2>6
    <3>2. Shaped(stack'[cpu])
      BY <1>n, <1>s, <2>6, <3>1 DEF Shaped
    <3>3. KnownBy(stack[cpu][2])
      BY <1>n, <1>s, <2>6 DEF CurrentKnown
    <3>4. CurrentKnown'
      BY <1>u, <3>1, <3>3 DEF CurrentKnown, KnownBy
    <3> QED
      BY <1>u, <1>a, <1>b, <2>3, <2>4, <3>1, <3>2, <3>4, RunningStep
  <2> QED
    BY <2>2, <2>5, <2>6
<1>3. CASE InterruptReturn
  <2>1. Return /\ Top.fn = "irq" /\ interrupt_flag'
    BY <1>3 DEF InterruptReturn, At
  <2>2. n \in 2 .. 3 /\ Top = stack[cpu][n]
    BY <1>n, <2>1, TopDepth
  <2>3. /\ \A i \in ThreadIds \ {cpu} : stack'[i] = stack[i]
        /\ Len(stack'[cpu]) = n - 1
        /\ \A k \in 1 .. n - 1 : stack'[cpu][k] = stack[cpu][k]
    BY <1>n, <2>1, ReturnEffect DEF SwitchInv
  <2>4. CASE n = 2
    <3>1. /\ Len(stack'[cpu]) = 1 /\ stack'[cpu][1] = stack[cpu][1]
          /\ stack[cpu][2].fn = "irq"
      BY <2>1, <2>2, <2>3, <2>4
    <3>2. Shaped(stack'[cpu]) /\ stack[cpu][1].fn \in {"code", "bootstrap"}
      BY <1>n, <1>s, <2>4, <3>1 DEF Shaped
    <3>3. current_thread = cpu
      BY <1>n, <1>s, <2>4, <3>1 DEF CurrentKnown, KnownBy
    <3>4. CurrentKnown'
      BY <1>u, <3>1, <3>2, <3>3 DEF CurrentKnown, KnownBy
    <3> QED
      BY <1>u, <1>a, <1>b, <2>1, <2>3, <3>1, <3>2, <3>4, RunningStep
  <2>5. CASE n = 3
    <3>1. /\ Len(stack'[cpu]) = 2 /\ stack'[cpu][1] = stack[cpu][1]
          /\ stack'[cpu][2] = stack[cpu][2]
      BY <2>3, <2>5
    <3>2. Shaped(stack'[cpu]) /\ stack[cpu][2].fn # "irq"
      BY <1>n, <1>s, <2>5, <3>1 DEF Shaped
    <3>3. KnownBy(stack[cpu][2])
      BY <1>n, <1>s, <2>5 DEF CurrentKnown
    <3>4. CurrentKnown'
      BY <1>u, <3>1, <3>3 DEF CurrentKnown, KnownBy
    <3> QED
      BY <1>u, <1>a, <1>b, <2>1, <2>3, <3>1, <3>2, <3>4, RunningStep
  <2> QED
    BY <2>2, <2>4, <2>5
<1> QED
  BY <1>1, <1>2, <1>3 DEF Interrupting

(* thread_bootstrap enters the thread's code, and the code returns to it.  *)
LEMMA BaseMoves ==
    ASSUME SwitchInv, WellFormed', BootstrapStart("run") \/ CodeReturns
    PROVE  SwitchInv'
<1>1. /\ Top.fn \in {"bootstrap", "code"} /\ cpu' = cpu
      /\ stack_pointer' = stack_pointer /\ thread_count' = thread_count
      /\ current_thread' = current_thread
      /\ preemption_enabled' = preemption_enabled
  BY DEF BootstrapStart, CodeReturns, EntryReturned, At, table, processor
<1>2. Len(stack[cpu]) = 1 /\ Top = stack[cpu][1] /\ cpu \in ThreadIds
      /\ Top \in Frames
  BY <1>1, TopDepth
<1>3. current_thread = cpu
  BY <1>1, <1>2 DEF SwitchInv, CurrentKnown, KnownBy
<1>4. active[0] /\ ~preemption_enabled'
  BY <1>1 DEF SwitchInv, TableKnown
<1>r. ASSUME NEW f \in Frames, Replace(f)
      PROVE  /\ \A i \in ThreadIds \ {cpu} : stack'[i] = stack[i]
             /\ Len(stack'[cpu]) = 1
             /\ stack'[cpu][1] = f
  BY <1>2, <1>r, ReplaceEffect DEF SwitchInv
<1>5. CASE BootstrapStart("run")
  <2>f. PICK f \in Frames : f = Frame("code", "run") /\ f.fn = "code" /\ f.at = "run"
    BY FrameType DEF Procedures, Labels
  <2>1. /\ Replace(f) /\ active' = active /\ interrupt_flag'
        /\ Top.fn = "bootstrap"
    BY <1>5, <2>f DEF BootstrapStart, At, table
  <2>2. /\ \A i \in ThreadIds \ {cpu} : stack'[i] = stack[i]
        /\ Len(stack'[cpu]) = 1
        /\ stack'[cpu][1] = f
    BY <1>r, <2>1
  <2>3. Shaped(stack'[cpu]) /\ CurrentKnown'
    BY <1>1, <1>3, <2>f, <2>2 DEF Shaped, CurrentKnown, KnownBy
  <2>4. Top.at = "start"
    BY <1>2, <2>1 DEF SwitchInv, Shaped
  <2>5. active'[cpu] <=> stack'[cpu][1].at \notin {"exited", "halt"}
    BY <1>2, <2>f, <2>1, <2>2, <2>4 DEF SwitchInv, TableKnown
  <2>6. interrupt_flag' <=> stack'[cpu][Len(stack'[cpu])].fn # "irq"
    BY <2>f, <2>1, <2>2
  <2> QED
    BY <1>1, <1>4, <2>1, <2>2, <2>3, <2>5, <2>6, RunningStep
<1>6. CASE CodeReturns
  <2>m. /\ [Top EXCEPT !.at = "exited"] \in Frames
        /\ [Top EXCEPT !.at = "exited"].fn = Top.fn
        /\ [Top EXCEPT !.at = "exited"].at = "exited"
    BY <1>2, MovedFrameType, ZenonT(30) DEF Labels
  <2>f. PICK f \in Frames : /\ f = [Top EXCEPT !.at = "exited"]
                            /\ f.fn = Top.fn /\ f.at = "exited"
    BY <2>m
  <2>1. /\ Replace(f) /\ Top.fn = "code" /\ cpu # 0
        /\ active' = [active EXCEPT ![current_thread] = FALSE]
        /\ interrupt_flag' = interrupt_flag
    BY <1>6, <2>f DEF CodeReturns, EntryReturned, Goto, At, processor
  <2>2. /\ \A i \in ThreadIds \ {cpu} : stack'[i] = stack[i]
        /\ Len(stack'[cpu]) = 1
        /\ stack'[cpu][1] = f
    BY <1>r, <2>1
  <2>3. Shaped(stack'[cpu]) /\ CurrentKnown'
    BY <1>1, <1>3, <2>f, <2>1, <2>2 DEF Shaped, CurrentKnown, KnownBy
  <2>4. active \in [ThreadIds -> BOOLEAN] /\ 0 \in ThreadIds
    BY SchedulerAssumption DEF SwitchInv, WellFormed, TypeOK, ThreadIds
  <2>5. /\ \A i \in ThreadIds \ {cpu} : active'[i] = active[i]
        /\ active'[cpu] = FALSE
    BY <1>2, <1>3, <2>1, <2>4
  <2>6. active'[cpu] <=> stack'[cpu][1].at \notin {"exited", "halt"}
    BY <2>f, <2>2, <2>5
  <2>7. interrupt_flag' <=> stack'[cpu][Len(stack'[cpu])].fn # "irq"
    BY <2>f, <2>1, <2>2 DEF SwitchInv
  <2>8. active'[0]
    BY <1>4, <2>1, <2>4, <2>5
  <2> QED
    BY <1>1, <1>4, <2>1, <2>2, <2>3, <2>5, <2>6, <2>7, <2>8, RunningStep
<1> QED
  BY <1>5, <1>6

(* What a thread that waits has on its stack.                              *)
LEMMA WaitingStack ==
    ASSUME NEW i \in ThreadIds, Shaped(stack[i]), Suspended(i)
    PROVE  \/ /\ Len(stack[i]) = 1
              /\ stack[i][1].fn = "bootstrap" /\ stack[i][1].at = "start"
           \/ /\ Len(stack[i]) = 2
              /\ stack[i][2].fn = "yield" /\ stack[i][2].at = "return"
              /\ stack[i][1].at \in {"run", "halt"}
<1>n. PICK n \in 1 .. 3 : n = Len(stack[i])
  BY DEF Shaped
<1>1. Last(stack[i]) = stack[i][n]
  BY <1>n DEF Last
<1>2. CASE n = 1
  BY <1>n, <1>1, <1>2 DEF Shaped, Suspended
<1>3. CASE n = 2
  BY <1>n, <1>1, <1>3 DEF Shaped, Suspended
<1>4. CASE n = 3
  BY <1>n, <1>1, <1>4 DEF Shaped, Suspended
<1> QED
  BY <1>2, <1>3, <1>4

(* A context switch saves the caller's context in its own entry and goes   *)
(* on exactly where the other thread stopped.                              *)
LEMMA SwitchStep ==
    ASSUME SwitchInv, WellFormed', ContextSwitch
    PROVE  SwitchInv'
<1> DEFINE c == current_thread
           f == Frame("yield", "return")
<1>1. /\ Top.fn = "yield" /\ Top.at = "switch"
      /\ active' = active /\ current_thread' = current_thread
      /\ thread_count' = thread_count
      /\ preemption_enabled' = preemption_enabled
      /\ interrupt_flag' = interrupt_flag
  BY DEF ContextSwitch, At
<1>2. Len(stack[cpu]) = 2 /\ Top = stack[cpu][2] /\ cpu \in ThreadIds
  BY <1>1, TopDepth
<1>3. KnownBy(Top)
  BY <1>2 DEF SwitchInv, CurrentKnown
<1>4. /\ Top.previous = cpu /\ c # cpu /\ active[c]
      /\ Top.target = stack_pointer[c]
  BY <1>1, <1>3 DEF KnownBy
<1>5. c \in ThreadIds /\ stack \in [ThreadIds -> Seq(Frames)]
      /\ stack_pointer \in [ThreadIds -> [stack : ThreadIds, depth : Nat]]
  BY DEF SwitchInv, WellFormed, TypeOK
<1>6. /\ stack[c] # << >> /\ stack[c][1].at # "halt"
      /\ stack_pointer[c] = [stack |-> c, depth |-> Len(stack[c])]
      /\ Shaped(stack[c]) /\ Suspended(c)
  BY <1>4, <1>5 DEF SwitchInv, OthersWait, StackTop
<1>7. f \in Frames /\ f.fn = "yield" /\ f.at = "return"
  BY FrameType DEF Procedures, Labels
<1> DEFINE s == [stack EXCEPT ![cpu] = Append(Front(@), Frame("yield", "return"))]
<1>8. /\ stack_pointer' = [stack_pointer EXCEPT ![cpu] = StackTop(cpu)]
      /\ stack' = [s EXCEPT ![c] = Restored(@, Len(stack[c]))]
      /\ cpu' = c
  <2>1. Top.target.stack = c /\ Top.target.depth = Len(stack[c])
    BY <1>4, <1>6
  <2> QED
    BY <1>4, <2>1 DEF ContextSwitch
<1>9. s[c] = stack[c] /\ \A i \in ThreadIds \ {cpu} : s[i] = stack[i]
  BY <1>4, <1>5
<1>10. s[cpu] = Append(Front(stack[cpu]), f)
  BY <1>2, <1>5
<1>11. DOMAIN s = ThreadIds
  BY <1>5
<1> HIDE DEF s, f
<1>12. stack'[c] = stack[c]
  <2>1. Restored(stack[c], Len(stack[c])) = SubSeq(stack[c], 1, Len(stack[c]))
    <3>1. Len(stack[c]) \in 1 .. Len(stack[c])
      BY <1>6 DEF Shaped
    <3> QED
      BY <3>1 DEF Restored
  <2>2. SubSeq(stack[c], 1, Len(stack[c])) = stack[c]
    BY <1>5, SubSeqFull
  <2>3. stack'[c] = Restored(s[c], Len(stack[c]))
    BY <1>5, <1>8, <1>11
  <2> QED
    BY <1>9, <2>1, <2>2, <2>3
<1>13. \A i \in ThreadIds \ {cpu, c} : stack'[i] = stack[i]
  BY <1>8, <1>9, <1>11
<1>14. /\ Len(stack'[cpu]) = 2
       /\ stack'[cpu][1] = stack[cpu][1]
       /\ stack'[cpu][2] = f
  <2>1. stack'[cpu] = Append(Front(stack[cpu]), f)
    BY <1>2, <1>4, <1>8, <1>10, <1>11
  <2>2. stack[cpu] \in Seq(Frames) /\ stack[cpu] # << >>
    BY <1>2, <1>5 DEF SwitchInv, WellFormed
  <2>3. 1 \in 1 .. 2 - 1
    OBVIOUS
  <2> QED
    BY <1>2, <1>7, <2>1, <2>2, <2>3, ReplaceProperties
<1>15. Shaped(stack'[cpu'])
  BY <1>6, <1>8, <1>12
<1>16. \/ /\ Len(stack[c]) = 1
          /\ stack[c][1].fn = "bootstrap" /\ stack[c][1].at = "start"
       \/ /\ Len(stack[c]) = 2
          /\ stack[c][2].fn = "yield" /\ stack[c][2].at = "return"
          /\ stack[c][1].at \in {"run", "halt"}
  BY <1>5, <1>6, WaitingStack
<1>17. OthersWait'
  <2> SUFFICES ASSUME NEW i \in ThreadIds \ {c}
               PROVE  /\ stack'[i] # << >> => Shaped(stack'[i]) /\ Suspended(i)'
                      /\ active'[i] => /\ stack'[i] # << >>
                                       /\ stack'[i][1].at # "halt"
                                       /\ stack_pointer'[i] = StackTop(i)'
    BY <1>8 DEF OthersWait
  <2>1. CASE i = cpu
    <3>1. Shaped(stack'[cpu])
      <4>1. stack[cpu][1].fn = "code" /\ stack[cpu][1].at \in {"run", "halt"}
        BY <1>1, <1>2 DEF SwitchInv, Shaped
      <4> QED
        BY <1>7, <1>14, <4>1 DEF Shaped
    <3>2. stack'[cpu] # << >>
      BY <1>14, EmptySeq
    <3>3. stack_pointer'[cpu] = [stack |-> cpu, depth |-> 2]
      BY <1>2, <1>5, <1>8 DEF StackTop
    <3>4. StackTop(i)' = [stack |-> cpu, depth |-> 2]
      BY <1>14, <2>1 DEF StackTop
    <3>5. active[cpu] => stack[cpu][1].at # "halt"
      BY DEF SwitchInv, TableKnown
    <3>6. Suspended(i)'
      BY <1>7, <1>14, <2>1, <3>2 DEF Suspended, Last
    <3> QED
      BY <1>1, <1>14, <2>1, <3>1, <3>2, <3>3, <3>4, <3>5, <3>6
  <2>2. CASE i # cpu
    <3>1. /\ stack'[i] = stack[i] /\ active'[i] = active[i]
          /\ stack_pointer'[i] = stack_pointer[i]
      BY <1>1, <1>5, <1>8, <1>13, <2>2
    <3>2. /\ stack[i] # << >> => Shaped(stack[i]) /\ Suspended(i)
          /\ active[i] => /\ stack[i] # << >>
                          /\ stack[i][1].at # "halt"
                          /\ stack_pointer[i] = StackTop(i)
      BY <2>2 DEF SwitchInv, OthersWait
    <3>3. (Suspended(i)' <=> Suspended(i)) /\ StackTop(i)' = StackTop(i)
      BY <3>1 DEF Suspended, StackTop
    <3> QED
      BY <3>1, <3>2, <3>3
  <2> QED
    BY <2>1, <2>2
<1>18. CurrentKnown'
  BY <1>1, <1>4, <1>8, <1>12, <1>16 DEF CurrentKnown, KnownBy
<1>19. TableKnown'
  <2>1. stack[c][1].at \notin {"exited", "halt"}
    BY <1>6, <1>16
  <2>2. c < thread_count
    BY <1>4, <1>5 DEF SwitchInv, TableKnown
  <2> QED
    BY <1>1, <1>4, <1>8, <1>12, <2>1, <2>2 DEF SwitchInv, TableKnown
<1>20. interrupt_flag' <=> Top'.fn # "irq"
  <2>1. interrupt_flag
    BY <1>1 DEF SwitchInv
  <2>2. Top' = stack[c][Len(stack[c])]
    BY <1>8, <1>12 DEF Top, Last
  <2>3. Top'.fn \in {"bootstrap", "yield"}
    BY <1>16, <2>2
  <2> QED
    BY <1>1, <2>1, <2>3
<1> QED
  BY <1>15, <1>17, <1>18, <1>19, <1>20 DEF SwitchInv

(* A new thread waits in its bootstrap, with the stack pointer that finds  *)
(* it.                                                                     *)
LEMMA BuildStep ==
    ASSUME SwitchInv, WellFormed', NEW e \in Entries, CreateBuild(e)
    PROVE  SwitchInv'
<1> DEFINE f == [Top EXCEPT !.at = "unlock"]
           b == Frame("bootstrap", "start")
<1>1. /\ Top.fn = "create" /\ cpu' = cpu /\ current_thread' = current_thread
      /\ preemption_enabled' = preemption_enabled
      /\ interrupt_flag' = interrupt_flag
  BY DEF CreateBuild, At, processor
<1>2. Len(stack[cpu]) = 2 /\ Top = stack[cpu][2] /\ cpu \in ThreadIds
      /\ Top \in Frames
  BY <1>1, TopDepth
<1>3. /\ cpu = 0
      /\ Len(stack'[cpu]) = 2
      /\ stack'[cpu][1] = stack[cpu][1]
      /\ stack'[cpu][2] = f
  <2>1. 1 \in 1 .. 2 - 1
    OBVIOUS
  <2> QED
    BY <1>2, <2>1, CreateBuildEffect DEF SwitchInv
<1>4. PICK i \in ThreadIds \ {0} :
         /\ ~active[i]
         /\ \A j \in ThreadIds \ {cpu, i} : stack'[j] = stack[j]
         /\ stack'[i] = << b >>
         /\ stack_pointer' = [stack_pointer EXCEPT
                                 ![i] = [stack |-> i, depth |-> 1]]
         /\ active' = [active EXCEPT ![i] = TRUE]
         /\ thread_count' = IF i >= thread_count THEN i + 1 ELSE thread_count
  BY CreateBuildEffect DEF SwitchInv
<1>5. f.fn = "create" /\ b.fn = "bootstrap" /\ b.at = "start"
  BY <1>1, <1>2, MovedFrameType, FrameType DEF Procedures, Labels
<1> HIDE DEF f, b
<1>6. /\ stack_pointer \in [ThreadIds -> [stack : ThreadIds, depth : Nat]]
      /\ active \in [ThreadIds -> BOOLEAN]
      /\ thread_count \in Nat
      /\ \A j \in ThreadIds : j \in Nat
  <2>1. TypeOK
    BY DEF SwitchInv, WellFormed
  <2>2. thread_count \in Nat
    BY <2>1, SchedulerAssumption DEF TypeOK
  <2>3. \A j \in ThreadIds : j \in Nat
    BY SchedulerAssumption DEF ThreadIds
  <2> QED
    BY <2>1, <2>2, <2>3 DEF TypeOK
<1>7. Shaped(stack'[cpu'])
  BY <1>1, <1>2, <1>3, <1>5 DEF SwitchInv, Shaped
<1>8. current_thread = cpu
  BY <1>1, <1>2 DEF SwitchInv, CurrentKnown, KnownBy
<1>9. CurrentKnown'
  BY <1>1, <1>3, <1>5, <1>8 DEF CurrentKnown, KnownBy
<1>10. OthersWait'
  <2> SUFFICES ASSUME NEW j \in ThreadIds \ {cpu}
               PROVE  /\ stack'[j] # << >> => Shaped(stack'[j]) /\ Suspended(j)'
                      /\ active'[j] => /\ stack'[j] # << >>
                                       /\ stack'[j][1].at # "halt"
                                       /\ stack_pointer'[j] = StackTop(j)'
    BY <1>1 DEF OthersWait
  <2>1. CASE j = i
    <3>1. Len(stack'[i]) = 1 /\ stack'[i][1] = b /\ stack'[i] # << >>
      BY <1>4
    <3>2. Shaped(stack'[i])
      BY <1>5, <3>1 DEF Shaped
    <3>3. Suspended(j)'
      BY <1>5, <2>1, <3>1 DEF Suspended, Last
    <3>4. StackTop(j)' = [stack |-> i, depth |-> 1]
      BY <2>1, <3>1 DEF StackTop
    <3>5. stack_pointer'[i] = [stack |-> i, depth |-> 1]
      BY <1>4, <1>6
    <3> QED
      BY <1>5, <2>1, <3>1, <3>2, <3>3, <3>4, <3>5
  <2>2. CASE j # i
    <3>1. /\ stack'[j] = stack[j] /\ active'[j] = active[j]
          /\ stack_pointer'[j] = stack_pointer[j]
      BY <1>4, <1>6, <2>2
    <3>2. /\ stack[j] # << >> => Shaped(stack[j]) /\ Suspended(j)
          /\ active[j] => /\ stack[j] # << >>
                          /\ stack[j][1].at # "halt"
                          /\ stack_pointer[j] = StackTop(j)
      BY DEF SwitchInv, OthersWait
    <3>3. (Suspended(j)' <=> Suspended(j)) /\ StackTop(j)' = StackTop(j)
      BY <3>1 DEF Suspended, StackTop
    <3> QED
      BY <3>1, <3>2, <3>3
  <2> QED
    BY <2>1, <2>2
<1>11. TableKnown'
  <2>1. \A j \in ThreadIds \ {i} : active'[j] = active[j]
    BY <1>4, <1>6
  <2>2. active'[0] /\ (active'[cpu] <=> active[cpu])
    BY <1>2, <1>3, <1>4, <2>1 DEF SwitchInv, TableKnown
  <2>3. thread_count' >= thread_count /\ thread_count' > i
    BY <1>4, <1>6
  <2>4. \A j \in ThreadIds : active[j] => j < thread_count
    BY DEF SwitchInv, TableKnown
  <2>5. thread_count' \in Nat
    BY <1>4, <1>6
  <2>6. \A j \in ThreadIds : active'[j] => j < thread_count'
    <3> SUFFICES ASSUME NEW j \in ThreadIds, active'[j]
                 PROVE  j < thread_count'
      OBVIOUS
    <3>1. CASE j = i
      BY <1>6, <2>3, <2>5, <3>1
    <3>2. CASE j # i
      <4>1. j < thread_count
        BY <2>1, <2>4, <3>2
      <4> QED
        BY <1>6, <2>3, <2>5, <4>1
    <3> QED
      BY <3>1, <3>2
  <2>7. cpu < thread_count'
    BY <1>2, <1>6, <2>3, <2>5 DEF SwitchInv, TableKnown
  <2> QED
    BY <1>1, <1>3, <2>2, <2>6, <2>7 DEF SwitchInv, TableKnown
<1>12. interrupt_flag' <=> Top'.fn # "irq"
  <2>1. Top' = f
    BY <1>1, <1>3 DEF Top, Last
  <2> QED
    BY <1>1, <1>5, <2>1 DEF SwitchInv
<1> QED
  BY <1>7, <1>9, <1>10, <1>11, <1>12 DEF SwitchInv

(* The steps of scheduler_yield before the switch, and its return.         *)
LEMMA YieldSteps ==
    ASSUME SwitchInv, WellFormed', Yielding
    PROVE  SwitchInv'
<1>d. /\ Top.fn = "yield" /\ Len(stack[cpu]) = 2 /\ Top = stack[cpu][2]
      /\ cpu \in ThreadIds /\ Top \in Frames
  <2>1. Top.fn = "yield"
    BY DEF Yielding, YieldEnter, YieldLock, YieldStay, YieldPick,
           YieldUnlock, YieldArguments, ContextSwitch, YieldReturn, At
  <2> QED
    BY <2>1, TopDepth
<1>k. KnownBy(Top)
  BY <1>d DEF SwitchInv, CurrentKnown
<1>t. WellFormed /\ TypeOK /\ current_thread \in ThreadIds
  BY DEF SwitchInv, WellFormed, TypeOK
<1>e. stack[cpu][1].at = "halt" <=> ~active[cpu]
  BY <1>d DEF SwitchInv, TableKnown, Shaped
<1>p. ASSUME Top.at = "pick"
      PROVE  /\ current_thread = cpu /\ Top.next = cpu
             /\ RoundRobin(Top.next) # {}
             /\ \A n \in RoundRobin(Top.next) :
                   n \in 0 .. thread_count - 1 /\ active[n]
  <2>1. current_thread = cpu /\ Top.next = cpu
    BY <1>d, <1>k, <1>p DEF KnownBy
  <2> QED
    BY <1>d, <1>t, <2>1, RoundRobinProperties DEF SwitchInv, TableKnown
<1>1. CASE YieldEnter
  <2>m. /\ [Top EXCEPT !.next = current_thread, !.at = "lock"] \in Frames
        /\ [Top EXCEPT !.next = current_thread, !.at = "lock"].fn = Top.fn
    BY <1>t, YieldFrameTypes
  <2>f. PICK f \in Frames :
           /\ f = [Top EXCEPT !.next = current_thread, !.at = "lock"]
           /\ f.fn = Top.fn
    BY <2>m
  <2>1. f.at = "lock" /\ f.next = current_thread
    BY <1>d, <2>f DEF Frames
  <2>2. /\ Replace(f) /\ cpu' = cpu /\ UNCHANGED table /\ Top.at = "enter"
        /\ preemption_enabled' = preemption_enabled
        /\ interrupt_flag' = interrupt_flag
    BY <1>1, <2>f DEF YieldEnter, At, processor
  <2>3. current_thread = cpu
    BY <1>d, <1>k, <2>2 DEF KnownBy
  <2>4. KnownBy(f)'
    BY <2>1, <2>2, <2>3 DEF KnownBy, table
  <2> QED
    BY <1>d, <2>f, <2>2, <2>4, CalleeMoves DEF table
<1>2. CASE YieldLock
  <2>m. /\ [Top EXCEPT !.at = "pick"] \in Frames
        /\ [Top EXCEPT !.at = "pick"].fn = Top.fn
        /\ [Top EXCEPT !.at = "pick"].at = "pick"
        /\ [Top EXCEPT !.at = "pick"].next = Top.next
    BY <1>d, MovedFrameType, ZenonT(30) DEF Labels
  <2>f. PICK f \in Frames :
           /\ f = [Top EXCEPT !.at = "pick"] /\ f.fn = Top.fn
           /\ f.at = "pick" /\ f.next = Top.next
    BY <2>m
  <2>1. /\ Replace(f) /\ cpu' = cpu /\ UNCHANGED table /\ Top.at = "lock"
        /\ preemption_enabled' = preemption_enabled
        /\ interrupt_flag' = interrupt_flag
    BY <1>2, <2>f DEF YieldLock, Goto, At, processor
  <2>2. current_thread = cpu /\ Top.next = cpu
    BY <1>d, <1>k, <2>1 DEF KnownBy
  <2>3. KnownBy(f)'
    BY <2>f, <2>1, <2>2 DEF KnownBy, table
  <2> QED
    BY <1>d, <2>f, <2>1, <2>3, CalleeMoves DEF table
<1>3. CASE YieldStay
  <2>1. /\ Return /\ cpu' = cpu /\ UNCHANGED table /\ Top.at = "pick"
        /\ preemption_enabled' = preemption_enabled
        /\ interrupt_flag' = interrupt_flag
        /\ RoundRobin(Top.next) \subseteq {current_thread}
    BY <1>3 DEF YieldStay, At, processor
  <2>2. active[cpu] /\ current_thread = cpu
    BY <1>p, <2>1
  <2> QED
    BY <1>d, <1>e, <2>1, <2>2, CalleeReturns DEF table
<1>4. CASE YieldPick
  <2>1. PICK n \in RoundRobin(Top.next) \ {current_thread} :
           /\ Replace([Top EXCEPT !.next = n, !.previous = current_thread,
                                  !.at = "unlock"])
           /\ current_thread' = n
    BY <1>4 DEF YieldPick
  <2>2. /\ cpu' = cpu /\ Top.at = "pick" /\ stack_pointer' = stack_pointer
        /\ active' = active /\ thread_count' = thread_count
        /\ preemption_enabled' = preemption_enabled
        /\ interrupt_flag' = interrupt_flag
    BY <1>4 DEF YieldPick, At, processor
  <2>3. /\ current_thread = cpu /\ n # cpu /\ active[n]
        /\ n \in 0 .. thread_count - 1
    BY <1>p, <2>1, <2>2
  <2>4. n \in ThreadIds
    BY <1>t, <2>3, SchedulerAssumption DEF ThreadIds, TypeOK
  <2>m. /\ [Top EXCEPT !.next = n, !.previous = current_thread,
                       !.at = "unlock"] \in Frames
        /\ [Top EXCEPT !.next = n, !.previous = current_thread,
                       !.at = "unlock"].fn = Top.fn
    BY <1>t, <2>4, YieldFrameTypes
  <2>f. PICK f \in Frames :
           /\ f = [Top EXCEPT !.next = n, !.previous = current_thread,
                              !.at = "unlock"]
           /\ f.fn = Top.fn
    BY <2>m
  <2>5. f.at = "unlock" /\ f.next = n /\ f.previous = current_thread
    BY <1>d, <2>f DEF Frames
  <2>6. KnownBy(f)'
    BY <1>d, <2>f, <2>1, <2>2, <2>3, <2>5 DEF KnownBy
  <2> QED
    BY <1>d, <2>f, <2>1, <2>2, <2>6, CalleeMoves
<1>5. CASE YieldUnlock
  <2>m. /\ [Top EXCEPT !.at = "arguments"] \in Frames
        /\ [Top EXCEPT !.at = "arguments"].fn = Top.fn
        /\ [Top EXCEPT !.at = "arguments"].at = "arguments"
        /\ [Top EXCEPT !.at = "arguments"].next = Top.next
        /\ [Top EXCEPT !.at = "arguments"].previous = Top.previous
    <3>1. "arguments" \in Labels
      BY DEF Labels
    <3> QED
      BY <1>d, <3>1, MovedFrameType
  <2>f. PICK f \in Frames :
           /\ f = [Top EXCEPT !.at = "arguments"] /\ f.fn = Top.fn
           /\ f.at = "arguments" /\ f.next = Top.next
           /\ f.previous = Top.previous
    BY <2>m
  <2>1. /\ Replace(f) /\ cpu' = cpu /\ UNCHANGED table /\ Top.at = "unlock"
        /\ preemption_enabled' = preemption_enabled
        /\ interrupt_flag' = interrupt_flag
    BY <1>5, <2>f DEF YieldUnlock, Goto, At, processor
  <2>2. KnownBy(f)'
    BY <1>d, <1>k, <2>f, <2>1 DEF KnownBy, table
  <2> QED
    BY <1>d, <2>f, <2>1, <2>2, CalleeMoves DEF table
<1>6. CASE YieldArguments
  <2>m. /\ [Top EXCEPT !.target = stack_pointer[Top.next],
                       !.at = "switch"] \in Frames
        /\ [Top EXCEPT !.target = stack_pointer[Top.next],
                       !.at = "switch"].fn = Top.fn
    BY <1>t, YieldFrameTypes
  <2>f. PICK f \in Frames :
           /\ f = [Top EXCEPT !.target = stack_pointer[Top.next],
                              !.at = "switch"]
           /\ f.fn = Top.fn
    BY <2>m
  <2>1. /\ f.at = "switch" /\ f.next = Top.next
        /\ f.previous = Top.previous /\ f.target = stack_pointer[Top.next]
    BY <1>d, <2>f DEF Frames
  <2>2. /\ Replace(f) /\ cpu' = cpu /\ UNCHANGED table /\ Top.at = "arguments"
        /\ preemption_enabled' = preemption_enabled
        /\ interrupt_flag' = interrupt_flag
    BY <1>6, <2>f DEF YieldArguments, At, processor
  <2>3. KnownBy(f)'
    BY <1>d, <1>k, <2>f, <2>1, <2>2 DEF KnownBy, table
  <2> QED
    BY <1>d, <2>f, <2>2, <2>3, CalleeMoves DEF table
<1>7. CASE ContextSwitch
  BY <1>7, SwitchStep
<1>8. CASE YieldReturn
  <2>1. /\ Return /\ cpu' = cpu /\ UNCHANGED table /\ Top.at = "return"
        /\ preemption_enabled' = preemption_enabled
        /\ interrupt_flag' = interrupt_flag
    BY <1>8 DEF YieldReturn, At, processor
  <2>2. active[cpu] /\ current_thread = cpu
    BY <1>d, <1>k, <2>1 DEF KnownBy
  <2> QED
    BY <1>d, <1>e, <2>1, <2>2, CalleeReturns DEF table
<1> QED
  BY <1>1, <1>2, <1>3, <1>4, <1>5, <1>6, <1>7, <1>8 DEF Yielding

(* Every step without preemption keeps the invariant.                      *)
LEMMA CooperativeStep == SwitchInv /\ [CooperativeNext]_vars => SwitchInv'
<1> SUFFICES ASSUME SwitchInv, [CooperativeNext]_vars
             PROVE  SwitchInv'
  OBVIOUS
<1>w. WellFormed'
  <2>1. [PreemptiveNext]_vars
    BY DEF PreemptiveNext
  <2> QED
    BY <2>1, WellFormedStep DEF SwitchInv
<1>1. CASE Yielding
  BY <1>1, <1>w, YieldSteps
<1>2. CASE CreateLock \/ CreateFail
  <2>1. PICK label \in {"build", "unlock"} : Replace([Top EXCEPT !.at = label])
    BY <1>2 DEF CreateLock, CreateFail, Goto
  <2>2. /\ Top.fn = "create" /\ cpu' = cpu /\ UNCHANGED table
        /\ preemption_enabled' = preemption_enabled
        /\ interrupt_flag' = interrupt_flag
    BY <1>2 DEF CreateLock, CreateFail, At, processor
  <2>3. /\ Len(stack[cpu]) = 2 /\ Top = stack[cpu][2] /\ Top \in Frames
    BY <2>2, TopDepth
  <2>m. /\ [Top EXCEPT !.at = label] \in Frames
        /\ [Top EXCEPT !.at = label].fn = Top.fn
    <3>1. label \in Labels
      BY DEF Labels
    <3> QED
      BY <2>3, <3>1, MovedFrameType
  <2>f. PICK f \in Frames : f = [Top EXCEPT !.at = label] /\ f.fn = Top.fn
    BY <2>m
  <2>4. current_thread = cpu
    BY <2>2, <2>3 DEF SwitchInv, CurrentKnown, KnownBy
  <2>5. KnownBy(f)'
    BY <2>2, <2>4, <2>f DEF KnownBy, table
  <2>6. Replace(f)
    BY <2>1, <2>f
  <2> QED
    BY <1>w, <2>2, <2>5, <2>6, <2>f, CalleeMoves DEF table
<1>3. CASE \E e \in Entries : CreateBuild(e)
  BY <1>3, <1>w, BuildStep
<1>4. CASE CreateUnlock
  <2>1. /\ Return /\ Top.fn = "create" /\ cpu' = cpu /\ UNCHANGED table
        /\ preemption_enabled' = preemption_enabled
        /\ interrupt_flag' = interrupt_flag
    BY <1>4 DEF CreateUnlock, At, processor
  <2>2. /\ Len(stack[cpu]) = 2 /\ Top = stack[cpu][2]
    BY <2>1, TopDepth
  <2>3. current_thread = cpu /\ stack[cpu][1].at # "halt"
    BY <2>1, <2>2 DEF SwitchInv, CurrentKnown, KnownBy, Shaped
  <2> QED
    BY <1>w, <2>1, <2>3, CalleeReturns DEF table
<1>5. CASE BootstrapStart("run") \/ CodeReturns
  BY <1>5, <1>w, BaseMoves
<1>6. CASE ExitYield
  <2>1. /\ Call("halt", "yield", "enter") /\ Top.fn = "code"
        /\ Top.at = "exited" /\ cpu' = cpu /\ UNCHANGED table
        /\ preemption_enabled' = preemption_enabled
        /\ interrupt_flag' = interrupt_flag
    BY <1>6 DEF ExitYield, CallYield, At, processor
  <2>2. "halt" \in Labels /\ "enter" \in Labels /\ "yield" \in Procedures
    BY DEF Labels, Procedures
  <2> QED
    BY <1>w, <2>1, <2>2, CodeCalls DEF table
<1>7. CASE CodeYields
  <2>1. /\ Call("run", "yield", "enter") /\ Top.fn = "code"
        /\ Top.at = "run" /\ cpu' = cpu /\ UNCHANGED table
        /\ preemption_enabled' = preemption_enabled
        /\ interrupt_flag' = interrupt_flag
    BY <1>7 DEF CodeYields, CallYield, At, processor
  <2>2. "run" \in Labels /\ "enter" \in Labels /\ "yield" \in Procedures
    BY DEF Labels, Procedures
  <2> QED
    BY <1>w, <2>1, <2>2, CodeCalls DEF table
<1>8. CASE CodeCreates
  <2>1. /\ Call("run", "create", "lock") /\ Top.fn = "code"
        /\ Top.at = "run" /\ cpu' = cpu /\ UNCHANGED table
        /\ preemption_enabled' = preemption_enabled
        /\ interrupt_flag' = interrupt_flag
    BY <1>8 DEF CodeCreates, At, processor
  <2>2. "run" \in Labels /\ "lock" \in Labels /\ "create" \in Procedures
    BY DEF Labels, Procedures
  <2> QED
    BY <1>w, <2>1, <2>2, CodeCalls DEF table
<1>9. CASE Interrupting
  BY <1>9, <1>w, HandlerSteps
<1>10. CASE UNCHANGED vars
  <2>1. UNCHANGED <<stack_pointer, active, current_thread, thread_count,
                    preemption_enabled, stack, cpu, interrupt_flag>>
    BY <1>10 DEF vars, table, processor
  <2> QED
    BY <1>w, <2>1
    DEF SwitchInv, OthersWait, CurrentKnown, KnownBy, TableKnown, Suspended,
        StackTop, Top
<1> QED
  BY <1>1, <1>2, <1>3, <1>4, <1>5, <1>6, <1>7, <1>8, <1>9, <1>10
  DEF CooperativeNext, Creating

(* The boot thread runs alone.                                             *)
LEMMA SwitchInvInit == Init => SwitchInv
<1> SUFFICES ASSUME Init
             PROVE  SwitchInv
  OBVIOUS
<1> DEFINE f == Frame("code", "run")
<1>1. f.fn = "code" /\ f.at = "run"
  BY FrameType DEF Procedures, Labels
<1>2. 0 \in ThreadIds /\ cpu = 0
  BY SchedulerAssumption DEF Init, ThreadIds
<1>3. stack = [i \in ThreadIds |-> IF i = 0 THEN << f >> ELSE << >>]
  BY DEF Init
<1> HIDE DEF f
<1>4. Len(stack[cpu]) = 1 /\ stack[cpu][1] = f
  BY <1>2, <1>3
<1>5. \A i \in ThreadIds \ {cpu} : stack[i] = << >>
  BY <1>2, <1>3
<1>6. active = [i \in ThreadIds |-> i = 0]
  BY DEF Init
<1>7. active[0] /\ \A i \in ThreadIds : active[i] => i = 0
  BY <1>2, <1>6
<1>8. Shaped(stack[cpu])
  BY <1>1, <1>4 DEF Shaped
<1>9. OthersWait
  BY <1>2, <1>5, <1>7 DEF OthersWait
<1>10. CurrentKnown
  BY <1>1, <1>2, <1>4 DEF CurrentKnown, KnownBy, Init
<1>11. TableKnown
  BY <1>1, <1>2, <1>4, <1>7 DEF TableKnown, Init
<1>12. interrupt_flag /\ Top = f
  BY <1>4 DEF Init, Top, Last
<1> QED
  BY <1>1, <1>8, <1>9, <1>10, <1>11, <1>12, WellFormedInit DEF SwitchInv

(* What the invariant says of contexts, threads and interrupts.            *)
LEMMA SwitchInvImplies == SwitchInv => SwitchesSound
<1> SUFFICES ASSUME SwitchInv
             PROVE  SwitchesSound
  OBVIOUS
<1>n. PICK n \in 1 .. 3 : n = Len(stack[cpu])
  BY TopDepth
<1>d. /\ DOMAIN stack[cpu] = 1 .. n
      /\ Top = stack[cpu][n]
  BY <1>n, TopDepth, TopProperties, LenProperties DEF SwitchInv
<1>1. TypeOK
  BY DEF SwitchInv, WellFormed
<1>2. ContextsIntact
  BY DEF SwitchInv, OthersWait, ContextsIntact
<1>3. CurrentIsRunning
  <2> SUFFICES ASSUME \A k \in 1 .. n :
                         stack[cpu][k].fn = "yield" =>
                             stack[cpu][k].at \notin
                                 {"unlock", "arguments", "switch"}
               PROVE  current_thread = cpu
    BY <1>d DEF CurrentIsRunning
  <2>1. n = 1 \/ 2 \in 1 .. n
    OBVIOUS
  <2>2. CASE n = 1
    BY <1>n, <2>2 DEF SwitchInv, CurrentKnown, KnownBy
  <2>3. CASE n # 1
    BY <1>n, <2>1, <2>3 DEF SwitchInv, CurrentKnown, KnownBy
  <2> QED
    BY <2>2, <2>3
<1>4. EndedNeverResumes
  <2> SUFFICES ASSUME Top.fn = "code", Top.at = "halt"
               PROVE  FALSE
    BY DEF EndedNeverResumes, At
  <2>1. n = 1
    BY <1>n, TopDepth
  <2> QED
    BY <1>d, <1>n, <2>1 DEF SwitchInv, Shaped
<1>5. CodeRunsInterruptible /\ HandlerNeverWaits
  BY DEF SwitchInv, CodeRunsInterruptible, HandlerNeverWaits, At
<1> QED
  BY <1>1, <1>2, <1>3, <1>4, <1>5 DEF SwitchesSound

(* Without preemption, with any number of threads created, ended and       *)
(* recreated, and the timer interrupt anywhere: a switch loses no context, *)
(* current_thread names the running thread, a thread that has ended never  *)
(* runs again, and no thread's code runs with interrupts off.              *)
THEOREM SwitchesCorrect == Cooperative => []SwitchesSound
BY SwitchInvInit, CooperativeStep, SwitchInvImplies, PTL DEF Cooperative

-----------------------------------------------------------------------------
(* The startup of the application processors.                              *)

(* Types, without the bounds on the two counters.                          *)
StartupTypes ==
    /\ index \in 0 .. Count
    /\ at \in {"next", "waiting", "failed", "succeeded"}
    /\ trampoline_stack \in 0 .. Count
    /\ expected_count \in Nat \ {0}
    /\ online_processors \in Nat \ {0}
    /\ ap \in [Processors -> {"off", "started", "loaded", "halted"}]
    /\ ap_stack \in [Processors -> 0 .. Count]

Answering == {"started", "loaded"}

(* The entries behind the loop index are finished and the ones ahead of it *)
(* untouched: at most one processor is between STARTUP and ap_main.        *)
OneAtATime ==
    /\ \A i \in Processors : i < index /\ i \notin Skipped => ap[i] = "halted"
    /\ \A i \in Processors : i > index \/ i \in Skipped => ap[i] = "off"
    /\ \A i \in Processors : ap[i] \in {"loaded", "halted"} => ap_stack[i] = i

(* While one is, the trampoline holds its stack, and the counters differ   *)
(* by one until it has counted itself.                                     *)
CountersTell ==
    /\ at \in {"next", "succeeded"} =>
          /\ expected_count = online_processors
          /\ index < Count => ap[index] = "off"
    /\ at = "succeeded" => index = Count
    /\ at \in {"waiting", "failed"} =>
          /\ index < Count /\ index \notin Skipped
          /\ trampoline_stack = index
          /\ ap[index] # "off"
          /\ expected_count =
                online_processors + IF ap[index] \in Answering THEN 1 ELSE 0

(* Every entry raises the expected count by at most one, a skipped one not *)
(* at all, so that it never exceeds the number of entries.                 *)
ExpectedBounded ==
    LET reached == IF at \in {"next", "succeeded"} THEN index ELSE index + 1 IN
    /\ expected_count <= reached + 1
    /\ (\E s \in Skipped : s < index) => expected_count <= reached

StartupInv == StartupTypes /\ OneAtATime /\ CountersTell /\ ExpectedBounded

-----------------------------------------------------------------------------

(* Nothing has been started when smp_start_secondary_processors begins.    *)
LEMMA StartupInvInit == SmpInit => StartupInv
BY SmpAssumption
DEF SmpInit, StartupInv, StartupTypes, OneAtATime, CountersTell,
    ExpectedBounded, Processors, Answering

(* The steps of the boot processor's loop keep the invariant.              *)
LEMMA StartupInvBsp == StartupInv /\ Bsp => StartupInv'
<1> SUFFICES ASSUME StartupInv, Bsp
             PROVE  StartupInv'
  OBVIOUS
<1> USE SmpAssumption
        DEF StartupInv, StartupTypes, OneAtATime, CountersTell,
            ExpectedBounded, Processors, Answering
<1>1. CASE SkipEntry
  BY <1>1 DEF SkipEntry
<1>2. CASE StartProcessor
  BY <1>2 DEF StartProcessor
<1>3. CASE SeesOnline
  BY <1>3 DEF SeesOnline
<1>4. CASE TimesOut
  BY <1>4 DEF TimesOut
<1>5. CASE ReturnsOnline
  BY <1>5 DEF ReturnsOnline
<1> QED
  BY <1>1, <1>2, <1>3, <1>4, <1>5 DEF Bsp

(* So does a processor that runs the trampoline or ap_main, however late.  *)
LEMMA StartupInvAp ==
    ASSUME StartupInv, NEW i \in Processors, Ap(i)
    PROVE  StartupInv'
<1> USE SmpAssumption
        DEF StartupInv, StartupTypes, OneAtATime, CountersTell,
            ExpectedBounded, Processors, Answering
<1>1. CASE LoadStack(i)
  <2>1. i = index /\ trampoline_stack = i
    BY <1>1 DEF LoadStack
  <2> QED
    BY <1>1, <2>1 DEF LoadStack
<1>2. CASE ApMain(i)
  <2>1. i = index /\ at \in {"waiting", "failed"}
    BY <1>2 DEF ApMain
  <2> QED
    BY <1>2, <2>1 DEF ApMain
<1> QED
  BY <1>1, <1>2 DEF Ap

(* Each part of StartupSound follows from the invariant; the bounds on the *)
(* counters need that some entry is skipped, as the boot processor's is.   *)
LEMMA StartupInvImplies == StartupInv => StartupSound
<1> SUFFICES ASSUME StartupInv
             PROVE  StartupSound
  OBVIOUS
<1> USE SmpAssumption
        DEF StartupInv, StartupTypes, OneAtATime, CountersTell,
            ExpectedBounded, Processors, Answering
<1>1. PICK s \in Skipped : s \in 0 .. Count - 1
  OBVIOUS
<1>2. expected_count <= Count
  <2>1. CASE s < index
    BY <1>1, <2>1
  <2>2. CASE s >= index
    BY <1>1, <2>2
  <2> QED
    BY <1>1, <2>1, <2>2
<1>3. online_processors <= expected_count
  OBVIOUS
<1>4. SmpTypeOK
  BY <1>2, <1>3 DEF SmpTypeOK
<1> QED
  BY <1>4 DEF StartupSound, StacksDistinct, SuccessMeansAllOnline

(* However late a processor answers its STARTUP, it runs on a stack of its *)
(* own, it is counted before success is reported, and the counters stay in *)
(* range, for every number of processors.                                  *)
THEOREM StartupCorrect == SmpSpec => []StartupSound
<1>1. StartupInv /\ [SmpNext]_smpVars => StartupInv'
  <2> SUFFICES ASSUME StartupInv, [SmpNext]_smpVars
               PROVE  StartupInv'
    OBVIOUS
  <2>1. CASE SmpNext
    BY <2>1, StartupInvBsp, StartupInvAp DEF SmpNext
  <2>2. CASE UNCHANGED smpVars
    BY <2>2
    DEF smpVars, StartupInv, StartupTypes, OneAtATime, CountersTell,
        ExpectedBounded
  <2> QED
    BY <2>1, <2>2
<1> QED
  BY <1>1, StartupInvInit, StartupInvImplies, PTL DEF SmpSpec

=============================================================================
