------------------------ MODULE ProcessTable_proofs -------------------------
(***************************************************************************)
(* Proofs, for any number of threads and any set of address spaces, of the *)
(* safety properties of module Scheduler; then the inductive invariant of  *)
(* module Process, what a scan of the process table finds under it, and    *)
(* that spawning a process keeps it; then that the ready queue survives    *)
(* the preemptions of KPreempt.                                            *)
(***************************************************************************)
EXTENDS KPreempt, WellFoundedInduction, TLAPS

(***************************************************************************)
(* What the safety properties need to be inductive: the idle thread is in  *)
(* the ring and never stops, which is why pick_next's fallback is READY;   *)
(* and a slot not handed out yet is in no ring and has no state.           *)
(***************************************************************************)
IdleNeverStops ==
    /\ IdleThread \in Ring
    /\ tstate[IdleThread] \in {"READY", "RUNNING"}

FreshSlots ==
    \A t \in Threads : t >= next_tid => tnext[t] = NoThread /\ tstate[t] = "EXITED"

SchedInv ==
    /\ SchedTypeOK
    /\ RunningIsCurrent
    /\ RingIsOneCycle
    /\ CpuSpaceIsCurrents
    /\ IdleNeverStops
    /\ FreshSlots

\* The thread states a switch saves before it picks the next thread.
Saved(st) == [st EXCEPT ![current] = IF @ = "RUNNING" THEN "READY" ELSE @]

-----------------------------------------------------------------------------
\* The boot and idle threads' slots exist, and are two.
LEMMA FixedThreads ==
    /\ BootThread \in Threads /\ IdleThread \in Threads
    /\ BootThread # IdleThread
    /\ NoThread \notin Threads
BY ThreadTableAssumption DEF Threads, BootThread, IdleThread, NoThread

(***************************************************************************)
(* pick_next returns a READY thread of the ring, provided that the idle    *)
(* thread is one.                                                          *)
(***************************************************************************)
LEMMA PickNextIsReady ==
    ASSUME NEW st, IdleThread \in Ring, st[IdleThread] = "READY"
    PROVE  pick_next(st) \in Ring /\ st[pick_next(st)] = "READY"
<1>1. CASE \E t \in Ring : FirstReady(st, t)
    <2> DEFINE n == CHOOSE t \in Ring : FirstReady(st, t)
    <2>1. n \in Ring /\ FirstReady(st, n)
        BY <1>1
    <2>2. pick_next(st) = n
        BY <1>1 DEF pick_next
    <2>3. st[n] = "READY"
        BY <2>1 DEF FirstReady
    <2> QED BY <2>1, <2>2, <2>3
<1>2. CASE ~ \E t \in Ring : FirstReady(st, t)
    BY <1>2 DEF pick_next
<1> QED BY <1>1, <1>2

(***************************************************************************)
(* A switch from thread states st in which the current thread has stopped, *)
(* blocked or exited, and the others are as tstate has them or woken, goes *)
(* to a READY thread and keeps the invariant.  It makes no other thread    *)
(* runnable and stops none.                                                *)
(***************************************************************************)
LEMMA SwitchKeepsInv ==
    ASSUME SchedInv, NEW st \in [Threads -> ThreadState],
           \A t \in Threads \ {current} :
               \/ st[t] = tstate[t]
               \/ tstate[t] = "BLOCKED" /\ st[t] = "READY",
           current = IdleThread => st[current] = "RUNNING",
           SwitchFrom(st)
    PROVE  /\ SchedInv'
           /\ \A t \in Threads :
                 /\ st[t] \in {"BLOCKED", "EXITED"} => tstate'[t] = st[t]
                 /\ st[t] \in {"READY", "RUNNING"} => tstate'[t] \in {"READY", "RUNNING"}
<1> DEFINE saved == Saved(st)
           next  == pick_next(saved)
<1> USE DEF SchedInv
<1>1. /\ tstate' = [saved EXCEPT ![next] = "RUNNING"]
      /\ cpu_cr3' = IF tcr3[next] # tcr3[current] THEN tcr3[next] ELSE cpu_cr3
      /\ current' = next
      /\ UNCHANGED <<tnext, tcr3, next_tid, scheduler_active>>
    BY DEF SwitchFrom, Saved
<1>2. saved \in [Threads -> ThreadState]
    BY DEF Saved, SchedTypeOK, ThreadState
<1>3. saved[IdleThread] = "READY"
    BY FixedThreads DEF Saved, IdleNeverStops, RunningIsCurrent, SchedTypeOK
<1>4. next \in Ring /\ saved[next] = "READY"
    BY <1>3, PickNextIsReady DEF IdleNeverStops
<1>5. next \in Threads
    BY <1>4 DEF Ring
<1> HIDE DEF next
<1>6. SchedTypeOK'
    BY <1>1, <1>2, <1>5 DEF SchedTypeOK, ThreadState
<1>7. \A t \in Threads : saved[t] # "RUNNING"
    BY DEF Saved, SchedTypeOK, RunningIsCurrent
<1>8. RunningIsCurrent'
    BY <1>1, <1>2, <1>5, <1>7 DEF RunningIsCurrent
<1>9. Ring' = Ring
    BY <1>1 DEF Ring
<1>10. RingIsOneCycle'
    BY <1>1, <1>4, <1>9 DEF RingIsOneCycle
<1>11. CpuSpaceIsCurrents'
    BY <1>1 DEF CpuSpaceIsCurrents
<1>12. IdleNeverStops'
    BY <1>1, <1>2, <1>3, <1>5, <1>9, FixedThreads DEF IdleNeverStops
<1>13. next < next_tid
    BY <1>4, <1>5, FixedThreads DEF FreshSlots, SchedTypeOK, Ring, Threads
<1>14. current < next_tid
    BY FixedThreads DEF RingIsOneCycle, FreshSlots, SchedTypeOK, Ring, Threads
<1>15. FreshSlots'
    <2> SUFFICES ASSUME NEW t \in Threads, t >= next_tid
                 PROVE  tnext[t] = NoThread /\ tstate'[t] = "EXITED"
        BY <1>1 DEF FreshSlots
    <2>1. t # next /\ t # current /\ tstate[t] = "EXITED" /\ tnext[t] = NoThread
        BY <1>13, <1>14 DEF FreshSlots, SchedTypeOK, Threads
    <2>2. st[t] = "EXITED"
        BY <2>1
    <2> QED BY <1>1, <1>2, <2>1, <2>2 DEF Saved
<1>16. \A t \in Threads :
          /\ st[t] \in {"BLOCKED", "EXITED"} => tstate'[t] = st[t]
          /\ st[t] \in {"READY", "RUNNING"} => tstate'[t] \in {"READY", "RUNNING"}
    BY <1>1, <1>2, <1>4, <1>5 DEF Saved
<1> QED BY <1>6, <1>8, <1>10, <1>11, <1>12, <1>15, <1>16

(***************************************************************************)
(* Inserting a fresh slot behind the current thread keeps the ready queue  *)
(* one cycle.  A set closed under the new links, less the new thread, is   *)
(* closed under the old ones, hence all of the old ring; so it holds the   *)
(* current thread and with it the new one.                                 *)
(***************************************************************************)
LEMMA AdoptKeepsRing ==
    ASSUME SchedInv, NEW cr3 \in Spaces, Adopt(cr3)
    PROVE  RingIsOneCycle' /\ Ring' = Ring \cup {next_tid}
<1> USE DEF SchedInv
<1> DEFINE n == next_tid
<1>1. n \in Threads /\ n \notin Ring
    BY ThreadTableAssumption DEF Adopt, FreshSlots, SchedTypeOK, Threads, Ring
<1>2. current \in Ring /\ current \in Threads /\ tnext[current] \in Ring
    BY DEF RingIsOneCycle, SchedTypeOK
<1>3. /\ tnext' = [tnext EXCEPT ![n] = tnext[current], ![current] = n]
      /\ current' = current
    BY DEF Adopt
<1>4. /\ n # current
      /\ tnext'[n] = tnext[current]
      /\ tnext'[current] = n
      /\ \A t \in Threads \ {n, current} : tnext'[t] = tnext[t]
    BY <1>1, <1>2, <1>3 DEF SchedTypeOK
<1>5. Ring' = Ring \cup {n}
    BY <1>1, <1>2, <1>4, FixedThreads DEF Ring
<1>6. \A t \in Ring' : tnext'[t] \in Ring'
    BY <1>1, <1>2, <1>4, <1>5 DEF RingIsOneCycle, Ring
<1>7. ASSUME NEW S \in SUBSET Ring', S # {}, \A t \in S : tnext'[t] \in S
      PROVE  S = Ring'
    <2> DEFINE T == S \ {n}
    <2>1. T \subseteq Ring
        BY <1>5
    <2>2. T # {}
        BY <1>1, <1>2, <1>4, <1>7
    <2>3. ASSUME NEW t \in T PROVE tnext[t] \in T
        <3>1. tnext[t] # n
            BY <1>1, <2>1 DEF RingIsOneCycle
        <3>2. CASE t = current
            BY <1>4, <1>7, <3>1, <3>2
        <3>3. CASE t # current
            <4>1. t \in Threads
                BY <2>1 DEF Ring
            <4> QED BY <1>4, <1>7, <3>1, <3>3, <4>1
        <3> QED BY <3>2, <3>3
    <2>4. T = Ring
        BY <2>1, <2>2, <2>3, Zenon DEF RingIsOneCycle
    <2>5. n \in S
        BY <1>2, <1>4, <1>7, <2>4
    <2> QED BY <1>5, <2>4, <2>5
<1>8. current' \in Ring'
    BY <1>2, <1>3, <1>5
<1> QED BY <1>5, <1>6, <1>7, <1>8 DEF RingIsOneCycle

-----------------------------------------------------------------------------
\* The invariant holds after sched_init.
LEMMA InitEstablishesInv == SchedInit => SchedInv
<1> SUFFICES ASSUME SchedInit PROVE SchedInv
    OBVIOUS
<1> USE FixedThreads DEF SchedInit
<1>1. SchedTypeOK
    <2>1. tstate \in [Threads -> ThreadState]
        BY DEF ThreadState
    <2>2. tnext \in [Threads -> Threads \cup {NoThread}]
        OBVIOUS
    <2>3. tcr3 \in [Threads -> Spaces] /\ cpu_cr3 \in Spaces
        BY SpacesAssumption
    <2>4. current \in Threads /\ next_tid \in 2 .. MaxThreads
        BY ThreadTableAssumption
    <2> QED BY <2>1, <2>2, <2>3, <2>4, Zenon DEF SchedTypeOK
<1>2. Ring = {BootThread, IdleThread}
    BY DEF Ring
<1>3. RunningIsCurrent
    BY DEF RunningIsCurrent
<1>4. tnext[BootThread] = IdleThread /\ tnext[IdleThread] = BootThread
    OBVIOUS
<1>5. RingIsOneCycle
    BY <1>2, <1>4 DEF RingIsOneCycle
<1>6. CpuSpaceIsCurrents
    BY DEF CpuSpaceIsCurrents
<1>7. IdleNeverStops
    BY <1>2 DEF IdleNeverStops
<1>8. FreshSlots
    BY DEF FreshSlots, Threads, BootThread, IdleThread, NoThread
<1> QED BY <1>1, <1>3, <1>5, <1>6, <1>7, <1>8 DEF SchedInv

(***************************************************************************)
(* One step of the scheduler keeps the invariant, and leaves every thread  *)
(* that has exited exited.                                                 *)
(***************************************************************************)
LEMMA StepKeepsInv ==
    ASSUME SchedInv, [SchedNext]_schedVars
    PROVE  /\ SchedInv'
           /\ \A t \in Threads : t < next_tid /\ tstate[t] = "EXITED"
                                     => tstate'[t] = "EXITED"
<1> DEFINE Dead == \A t \in Threads : t < next_tid /\ tstate[t] = "EXITED"
                                     => tstate'[t] = "EXITED"
<1>t. /\ tstate \in [Threads -> ThreadState]
      /\ current \in Threads
      /\ tstate[current] = "RUNNING"
    BY DEF SchedInv, SchedTypeOK, RunningIsCurrent
<1>1. ASSUME NEW cr3 \in Spaces, Adopt(cr3) PROVE SchedInv' /\ Dead
    <2>1. next_tid \in Threads /\ next_tid \notin Ring
        BY <1>1, ThreadTableAssumption
        DEF Adopt, SchedInv, FreshSlots, SchedTypeOK, Threads, Ring
    <2>2. RingIsOneCycle' /\ Ring' = Ring \cup {next_tid}
        BY <1>1, AdoptKeepsRing
    <2>3. current # next_tid /\ IdleThread # next_tid
        BY <2>1 DEF SchedInv, RingIsOneCycle, IdleNeverStops
    <2>4. SchedTypeOK'
        BY <1>1, ThreadTableAssumption
        DEF Adopt, SchedInv, SchedTypeOK, ThreadState, Threads
    <2>5. RunningIsCurrent'
        BY <1>1, <1>t, <2>1, <2>3 DEF Adopt, SchedInv, RunningIsCurrent
    <2>6. CpuSpaceIsCurrents'
        BY <1>1, <2>3 DEF Adopt, SchedInv, CpuSpaceIsCurrents, SchedTypeOK
    <2>7. IdleNeverStops'
        BY <1>1, <1>t, <2>2, <2>3, FixedThreads DEF Adopt, SchedInv, IdleNeverStops
    <2>8. FreshSlots'
        <3> SUFFICES ASSUME NEW t \in Threads, t >= next_tid + 1
                     PROVE  tnext'[t] = NoThread /\ tstate'[t] = "EXITED"
            BY <1>1, Zenon DEF Adopt, FreshSlots
        <3>1. t # next_tid /\ t >= next_tid
            BY DEF SchedInv, SchedTypeOK, Threads
        <3>2. t # current
            BY <3>1, FixedThreads DEF SchedInv, RingIsOneCycle, FreshSlots, Ring
        <3> QED BY <1>1, <1>t, <3>1, <3>2 DEF Adopt, SchedInv, FreshSlots, SchedTypeOK
    <2>9. Dead
        BY <1>1, <1>t DEF Adopt, SchedInv, SchedTypeOK, Threads
    <2> QED BY <2>2, <2>4, <2>5, <2>6, <2>7, <2>8, <2>9 DEF SchedInv
<1>2. CASE CreateWithoutStack
    <2>1. next_tid \in Threads /\ next_tid \notin Ring
        BY <1>2, ThreadTableAssumption
        DEF CreateWithoutStack, SchedInv, FreshSlots, SchedTypeOK, Threads, Ring
    <2>2. current # next_tid /\ IdleThread # next_tid
        BY <2>1 DEF SchedInv, RingIsOneCycle, IdleNeverStops
    <2>3. Ring' = Ring
        BY <1>2 DEF CreateWithoutStack, Ring
    <2>4. SchedTypeOK'
        BY <1>2, ThreadTableAssumption, SpacesAssumption
        DEF CreateWithoutStack, SchedInv, SchedTypeOK, ThreadState, Threads
    <2>5. RunningIsCurrent'
        BY <1>2, <1>t, <2>1, <2>2 DEF CreateWithoutStack, SchedInv, RunningIsCurrent
    <2>6. CpuSpaceIsCurrents'
        BY <1>2, <2>2 DEF CreateWithoutStack, SchedInv, CpuSpaceIsCurrents, SchedTypeOK
    <2>7. IdleNeverStops' /\ RingIsOneCycle'
        BY <1>2, <1>t, <2>2, <2>3, FixedThreads
        DEF CreateWithoutStack, SchedInv, IdleNeverStops, RingIsOneCycle
    <2>8. FreshSlots' /\ Dead
        BY <1>2, <1>t DEF CreateWithoutStack, SchedInv, FreshSlots, SchedTypeOK, Threads
    <2> QED BY <2>4, <2>5, <2>6, <2>7, <2>8 DEF SchedInv
<1>3. CASE sched_start
    BY <1>3 DEF sched_start, SchedInv, SchedTypeOK, RunningIsCurrent, RingIsOneCycle,
                CpuSpaceIsCurrents, IdleNeverStops, FreshSlots, Ring
<1>4. CASE sched_tick
    BY <1>4, <1>t, SwitchKeepsInv DEF sched_tick
<1>5. CASE MayStop /\ BlockCurrent
    <2> DEFINE st == [tstate EXCEPT ![current] = "BLOCKED"]
    <2>1. /\ st \in [Threads -> ThreadState]
          /\ \A t \in Threads \ {current} : st[t] = tstate[t]
          /\ \A t \in Threads : tstate[t] = "EXITED" => st[t] = "EXITED"
        BY <1>t DEF ThreadState
    <2>2. current # IdleThread /\ SwitchFrom(st)
        BY <1>5 DEF MayStop, BlockCurrent
    <2> HIDE DEF st
    <2> QED BY <2>1, <2>2, SwitchKeepsInv
<1>6. ASSUME NEW woken \in SUBSET Blocked, MayStop, ExitCurrent(woken)
      PROVE  SchedInv' /\ Dead
    <2> DEFINE st == [t \in Threads |-> IF t = current THEN "EXITED"
                                        ELSE IF t \in woken THEN "READY"
                                        ELSE tstate[t]]
    <2>1. /\ st \in [Threads -> ThreadState]
          /\ \A t \in Threads \ {current} :
                \/ st[t] = tstate[t]
                \/ tstate[t] = "BLOCKED" /\ st[t] = "READY"
          /\ \A t \in Threads : tstate[t] = "EXITED" => st[t] = "EXITED"
        BY <1>t DEF ThreadState, Blocked
    <2>2. current # IdleThread /\ SwitchFrom(st)
        BY <1>6 DEF MayStop, ExitCurrent
    <2> HIDE DEF st
    <2> QED BY <2>1, <2>2, SwitchKeepsInv
<1>7. ASSUME NEW cr3 \in Spaces, EnterSpace(cr3) PROVE SchedInv' /\ Dead
    BY <1>7, <1>t DEF EnterSpace, SchedInv, SchedTypeOK, RunningIsCurrent, RingIsOneCycle,
                CpuSpaceIsCurrents, IdleNeverStops, FreshSlots, Ring
<1>8. CASE UNCHANGED schedVars
    BY <1>8 DEF schedVars, SchedInv, SchedTypeOK, RunningIsCurrent, RingIsOneCycle,
                CpuSpaceIsCurrents, IdleNeverStops, FreshSlots, Ring
<1> QED
    BY <1>1, <1>2, <1>3, <1>4, <1>5, <1>6, <1>7, <1>8 DEF SchedNext

-----------------------------------------------------------------------------
\* The inductive invariant holds of the scheduler, however it is used.
THEOREM SchedInvariance == SchedSpec => []SchedInv
<1>1. SchedInv /\ [SchedNext]_schedVars => SchedInv'
    BY StepKeepsInv
<1> QED BY <1>1, InitEstablishesInv, PTL DEF SchedSpec

(***************************************************************************)
(* sched.c keeps its state well typed, marks exactly the thread on the CPU *)
(* RUNNING, keeps the ready queue one cycle and CR3 in step with the       *)
(* thread, for any number of threads and address spaces.                   *)
(***************************************************************************)
THEOREM SchedulerIsSafe ==
    SchedSpec => [](SchedTypeOK /\ RunningIsCurrent /\ RingIsOneCycle /\ CpuSpaceIsCurrents)
<1>1. SchedInv => SchedTypeOK /\ RunningIsCurrent /\ RingIsOneCycle /\ CpuSpaceIsCurrents
    BY DEF SchedInv
<1> QED BY <1>1, SchedInvariance, PTL

\* No step of sched.c ever makes an exited thread runnable again.
THEOREM ExitIsFinal == SchedSpec => ExitedStaysExited
<1>1. SchedInv /\ [SchedNext]_schedVars
        => [\A t \in Threads : t < next_tid /\ tstate[t] = "EXITED"
                                  => tstate'[t] = "EXITED"]_schedVars
    BY StepKeepsInv
<1> QED BY <1>1, SchedInvariance, PTL DEF SchedSpec, ExitedStaysExited

-----------------------------------------------------------------------------
(***************************************************************************)
(* What the properties need to be inductive.                               *)
(*                                                                         *)
(* KernelProcess: pid 0 stays in slot 0, on the boot thread, for ever.     *)
(* PidsAreUnique: a pid in the table names one slot, and was handed out.   *)
(* SettledStates: between two system calls a user process is READY,        *)
(*   BLOCKED or a ZOMBIE; PROC_RUNNING is the kernel's alone.              *)
(* KernelThreads: the idle thread, init_thread and the slots not handed    *)
(*   out yet have no process; init_thread is the first to be created.      *)
(* ThreadSpaces: the CR3 recorded for a thread is its process's.           *)
(***************************************************************************)
KernelProcess ==
    /\ pstate[KernelSlot] = "RUNNING"
    /\ pid[KernelSlot] = 0
    /\ ppid[KernelSlot] = NoPid
    /\ pthread[KernelSlot] = BootThread
    /\ pcr3[KernelSlot] = KernelSpace

PidsAreUnique ==
    /\ \A s \in UsedSlots : pid[s] \in 0 .. next_pid - 1
    /\ \A s, q \in UsedSlots : pid[s] = pid[q] => s = q

SettledStates ==
    \A s \in UsedSlots \ {KernelSlot} : pstate[s] \in {"READY", "BLOCKED", "ZOMBIE"}

KernelThreads ==
    /\ tproc[IdleThread] = NoSlot
    /\ \A t \in Threads : t >= next_tid \/ t = InitThread => tproc[t] = NoSlot
    /\ init_pc = "uncreated" => next_tid = InitThread /\ ~scheduler_active
    /\ init_pc # "uncreated" => next_tid > InitThread

ThreadSpaces ==
    \A t \in Threads : tstate[t] # "EXITED" =>
        tcr3[t] = IF tproc[t] = NoSlot THEN KernelSpace ELSE pcr3[tproc[t]]

ProcInv ==
    /\ TypeOK
    /\ SchedInv
    /\ KernelProcess
    /\ PidsAreUnique
    /\ SettledStates
    /\ KernelThreads
    /\ ThreadSpaces
    /\ ThreadsMatchProcesses
    /\ ParentIsAlive
    /\ NoLostWakeup
    /\ SpacesAreOwned

-----------------------------------------------------------------------------
\* A nonempty set of slots has a lowest one, so a table scan that finds
\* something returns a slot that qualifies.
LEMMA LowestIsMember ==
    ASSUME NEW S \in SUBSET Nat, S # {}
    PROVE  Lowest(S) \in S
<1> DEFINE R == {ss \in Nat \X Nat : ss[1] < ss[2]}
<1>1. IsWellFoundedOn(R, Nat)
    BY NatLessThanWellFounded DEF OpToRel
<1>2. \A x, y \in Nat : y < x => <<y, x>> \in R
    OBVIOUS
<1> HIDE DEF R
<1>3. PICK x \in S : \A y \in S : ~ (<<y, x>> \in R)
    BY <1>1, WFMin, Zenon
<1>4. \A y \in S : ~(y < x)
    BY <1>2, <1>3, Zenon
<1>5. \A y \in S : x <= y
    BY <1>4
<1> QED BY <1>5, Zenon DEF Lowest

\* The kernel's slot is a slot of proc_table, and NoSlot (process_get's NULL)
\* is none.
LEMMA FixedSlots ==
    /\ KernelSlot \in Slots /\ NoSlot \notin Slots
    /\ Slots \subseteq Nat
    /\ NoSlot # KernelSlot
BY ProcTableAssumption DEF Slots, KernelSlot, NoSlot

\* A free slot, when there is one, is neither in use nor the kernel's.
LEMMA LowestFreeSlot ==
    ASSUME ProcInv, FreeSlots # {}
    PROVE  /\ Lowest(FreeSlots) \in Slots
           /\ Lowest(FreeSlots) \notin UsedSlots
           /\ Lowest(FreeSlots) # KernelSlot
<1>1. FreeSlots \in SUBSET Nat
    BY FixedSlots, ZenonT(30) DEF FreeSlots
<1>2. Lowest(FreeSlots) \in FreeSlots
    BY <1>1, LowestIsMember
<1>3. KernelSlot \in UsedSlots
    BY FixedSlots DEF ProcInv, KernelProcess, UsedSlots
<1> QED BY <1>2, <1>3 DEF FreeSlots

\* The child a reap finds is a zombie of that parent, and not the kernel.
LEMMA LowestZombie ==
    ASSUME ProcInv, NEW parent \in Pids, NEW arg, ZombiesOf(parent, arg) # {}
    PROVE  LET c == Lowest(ZombiesOf(parent, arg))
           IN  /\ c \in UsedSlots /\ c \in Slots /\ c # KernelSlot
               /\ pstate[c] = "ZOMBIE" /\ ppid[c] = parent
<1>1. ZombiesOf(parent, arg) \in SUBSET Nat
    BY FixedSlots, ZenonT(30) DEF ZombiesOf, ChildrenOf, UsedSlots
<1>2. Lowest(ZombiesOf(parent, arg)) \in ZombiesOf(parent, arg)
    BY <1>1, LowestIsMember
<1> QED BY <1>2 DEF ZombiesOf, ChildrenOf, UsedSlots, ProcInv, KernelProcess

(***************************************************************************)
(* A process that makes a system call is in the table, is not the kernel,  *)
(* is neither blocked nor a zombie, and its thread is the current one.     *)
(***************************************************************************)
LEMMA CallerFacts ==
    ASSUME ProcInv, UserCall
    PROVE  /\ Caller \in UsedSlots /\ Caller \in Slots /\ Caller # KernelSlot
           /\ pstate[Caller] = "READY"
           /\ pthread[Caller] = current
           /\ tproc[current] = Caller
           /\ tstate[current] = "RUNNING"
           /\ current \in Threads
           /\ current \notin {BootThread, IdleThread, InitThread}
           /\ init_pc # "uncreated"
<1>1. current \in Threads /\ tstate[current] = "RUNNING"
    BY DEF ProcInv, SchedInv, SchedTypeOK, RunningIsCurrent
<1>2. /\ Caller \in UsedSlots /\ Caller # KernelSlot
      /\ pthread[Caller] = current /\ tproc[current] = Caller
    BY <1>1 DEF UserCall, Caller, ProcInv, ThreadsMatchProcesses
<1>3. pstate[Caller] = "READY"
    BY <1>1, <1>2 DEF ProcInv, ThreadsMatchProcesses, SettledStates, ThreadState4
<1>4. KernelSlot \in UsedSlots /\ pthread[KernelSlot] = BootThread
    BY FixedSlots DEF ProcInv, KernelProcess, UsedSlots
<1>5. tproc[BootThread] = KernelSlot
    BY <1>4 DEF ProcInv, ThreadsMatchProcesses
<1>6. current \notin {BootThread, IdleThread, InitThread}
    BY <1>1, <1>2, <1>5, FixedThreads, FixedSlots
    DEF UserCall, Caller, ProcInv, KernelThreads
<1>7. init_pc # "uncreated"
    BY DEF UserCall, ProcInv, KernelThreads
<1> QED BY <1>1, <1>2, <1>3, <1>6, <1>7 DEF UsedSlots

\* The parent an exit looks up is the process with that pid, which exists.
LEMMA ParentOfCaller ==
    ASSUME ProcInv, NEW p \in UsedSlots \ {KernelSlot}
    PROVE  \E q \in UsedSlots :
              /\ process_get(ppid[p]) = q
              /\ pid[q] = ppid[p] /\ pstate[q] # "ZOMBIE" /\ q # p
<1>1. PICK q \in UsedSlots : pid[q] = ppid[p] /\ pstate[q] # "ZOMBIE" /\ pid[q] < pid[p]
    BY DEF ProcInv, ParentIsAlive
<1> DEFINE hits == {s \in UsedSlots : pid[s] = ppid[p]}
<1>2. hits \in SUBSET Nat /\ hits # {}
    BY <1>1, FixedSlots, ZenonT(30) DEF UsedSlots
<1>3. Lowest(hits) \in hits
    BY <1>2, LowestIsMember
<1>4. Lowest(hits) = q
    BY <1>1, <1>3 DEF ProcInv, PidsAreUnique
<1>5. process_get(ppid[p]) = q
    BY <1>2, <1>4 DEF process_get
<1>6. q # p
    BY <1>1 DEF ProcInv, PidsAreUnique
<1> QED BY <1>1, <1>5, <1>6

-----------------------------------------------------------------------------
\* init_thread has been created, or failed to be; its variables are typed.
AfterCreateInit ==
    /\ init_pc \in {"absent", "spawn", "reap", "exit", "gone"}
    /\ init_pid \in Pids \cup {NoPid}

(***************************************************************************)
(* The invariant survives each kind of step.  First a successful spawn or  *)
(* fork, whose parent q is in the table and awake.                         *)
(***************************************************************************)
LEMMA SpawnKeepsInv ==
    ASSUME ProcInv, SchedInv', AfterCreateInit, AfterCreateInit',
           NEW q \in UsedSlots, pstate[q] \notin {"ZOMBIE", "BLOCKED"},
           SpawnOk(pid[q])
    PROVE  ProcInv'
<1> DEFINE s == Lowest(FreeSlots)
<1>1. PICK cr3 \in Spaces :
            /\ CanAlloc(cr3)
            /\ Adopt(cr3)
            /\ pstate' = [pstate EXCEPT ![s] = "READY"]
            /\ pid' = [pid EXCEPT ![s] = next_pid]
            /\ ppid' = [ppid EXCEPT ![s] = pid[q]]
            /\ pthread' = [pthread EXCEPT ![s] = next_tid]
            /\ pcr3' = [pcr3 EXCEPT ![s] = cr3]
            /\ tproc' = [tproc EXCEPT ![next_tid] = s]
            /\ pml4s' = pml4s \cup {cr3}
            /\ next_pid' = next_pid + 1
            /\ UNCHANGED waitpid
    BY ZenonT(30) DEF SpawnOk
<1>2. s \in Slots /\ s \notin UsedSlots /\ s # KernelSlot
    BY <1>1, LowestFreeSlot DEF CanAlloc
<1>a. /\ cr3 \in Spaces /\ cr3 \notin pml4s /\ next_pid <= MaxPid
    BY <1>1 DEF CanAlloc
<1> HIDE DEF s
<1>t. /\ TypeOK /\ SchedInv
      /\ q \in Slots /\ q # s
      /\ UsedSlots \subseteq Slots
    BY <1>2 DEF ProcInv, UsedSlots
<1>3. UsedSlots' = UsedSlots \cup {s}
    BY <1>1, <1>2, <1>t DEF UsedSlots, TypeOK
<1>4. /\ pstate'[s] = "READY" /\ pid'[s] = next_pid /\ ppid'[s] = pid[q]
      /\ pthread'[s] = next_tid /\ pcr3'[s] = cr3
      /\ \A u \in Slots \ {s} :
            /\ pstate'[u] = pstate[u] /\ pid'[u] = pid[u] /\ ppid'[u] = ppid[u]
            /\ pthread'[u] = pthread[u] /\ pcr3'[u] = pcr3[u]
    BY <1>1, <1>2, <1>t, Zenon DEF TypeOK
<1>5. next_tid \in Threads /\ next_tid > InitThread /\ tproc[next_tid] = NoSlot
    BY <1>1, ThreadTableAssumption
    DEF Adopt, ProcInv, KernelThreads, SchedInv, SchedTypeOK, Threads,
        AfterCreateInit, InitThread
<1>6. /\ tproc'[next_tid] = s
      /\ tstate'[next_tid] = "READY"
      /\ tcr3'[next_tid] = cr3
      /\ \A t \in Threads \ {next_tid} :
            tproc'[t] = tproc[t] /\ tstate'[t] = tstate[t] /\ tcr3'[t] = tcr3[t]
      /\ next_tid' = next_tid + 1
      /\ scheduler_active' = scheduler_active
    BY <1>1, <1>5, <1>t DEF Adopt, TypeOK, SchedTypeOK
<1>7. next_pid \in Pids /\ pid[q] \in Pids
    <2>1. pid[q] \in 0 .. next_pid - 1
        BY Zenon DEF ProcInv, PidsAreUnique
    <2> QED BY <1>a, <1>t, <2>1, MaxPidAssumption DEF TypeOK, Pids
<1>10. TypeOK'
    <2>1. SchedTypeOK'
        BY Zenon DEF SchedInv
    <2>2. /\ pstate' \in [Slots -> ProcState]
          /\ pid' \in [Slots -> Pids \cup {NoPid}]
          /\ ppid' \in [Slots -> Pids \cup {NoPid}]
          /\ pthread' \in [Slots -> Threads \cup {NoThread}]
          /\ pcr3' \in [Slots -> Spaces \cup {NoSpace}]
        BY <1>1, <1>2, <1>5, <1>7, <1>t, Zenon DEF TypeOK, ProcState
    <2>3. next_pid' \in 1 .. MaxPid + 1
        BY <1>1, <1>a, <1>t, MaxPidAssumption DEF TypeOK
    <2>4. /\ tproc' \in [Threads -> Slots \cup {NoSlot}]
          /\ waitpid' \in [Slots -> Pids \cup {AnyChild}]
          /\ pml4s' \in SUBSET Spaces
        BY <1>1, <1>2, <1>a, <1>t, ZenonT(30) DEF TypeOK
    <2> QED BY <2>1, <2>2, <2>3, <2>4 DEF TypeOK, AfterCreateInit
<1>11. KernelProcess'
    BY <1>2, <1>4, FixedSlots DEF ProcInv, KernelProcess
<1>12. PidsAreUnique'
    <2>1. \A u \in UsedSlots : pid[u] \in 0 .. next_pid - 1
        BY Zenon DEF ProcInv, PidsAreUnique
    <2>2. \A u \in UsedSlots : pid'[u] = pid[u]
        BY <1>2, <1>4, <1>t
    <2>3. next_pid \in Nat /\ next_pid' = next_pid + 1
        BY <1>1, <1>t, MaxPidAssumption DEF TypeOK
    <2>4. \A u \in UsedSlots' : pid'[u] \in 0 .. next_pid' - 1
        BY <1>3, <1>4, <2>1, <2>2, <2>3
    <2>5. \A u \in UsedSlots : pid[u] # next_pid
        BY <2>1, <2>3, SMTT(30)
    <2>6. \A u, v \in UsedSlots' : pid'[u] = pid'[v] => u = v
        BY <1>3, <1>4, <2>2, <2>5, SMTT(30), Z3T(30) DEF ProcInv, PidsAreUnique
    <2> QED BY <2>4, <2>6 DEF PidsAreUnique
<1>13. SettledStates'
    BY <1>2, <1>3, <1>4, <1>t, Zenon DEF ProcInv, SettledStates
<1>14. KernelThreads'
    <2>1. next_tid \in Nat
        BY <1>5, ThreadTableAssumption DEF Threads
    <2> QED BY <1>5, <1>6, <2>1, FixedThreads
        DEF ProcInv, KernelThreads, AfterCreateInit, Threads, InitThread, IdleThread
<1>15. ThreadsMatchProcesses'
    <2>1. \A u \in UsedSlots : pthread[u] # next_tid /\ pthread[u] \in Threads
        <3> TAKE u \in UsedSlots
        <3>1. u \in Slots /\ pthread[u] # NoThread /\ tproc[pthread[u]] = u
            BY <1>t DEF ProcInv, ThreadsMatchProcesses
        <3>2. pthread[u] \in Threads
            BY <1>t, <3>1, Zenon DEF TypeOK
        <3> QED BY <1>5, <3>1, <3>2, FixedSlots
    <2>2. ASSUME NEW u \in UsedSlots'
          PROVE  /\ pthread'[u] # NoThread
                 /\ tproc'[pthread'[u]] = u
                 /\ tstate'[pthread'[u]] \in ThreadState4(pstate'[u])
        <3>1. CASE u = s
            BY <1>4, <1>5, <1>6, <3>1, FixedThreads, Zenon DEF ThreadState4
        <3>2. CASE u # s
            <4>1. u \in UsedSlots /\ u \in Slots \ {s}
                BY <1>3, <1>t, <2>2, <3>2, Zenon
            <4>2. pthread'[u] = pthread[u] /\ pstate'[u] = pstate[u]
                BY <1>4, <4>1, Zenon
            <4>3. pthread[u] # NoThread /\ pthread[u] \in Threads \ {next_tid}
                BY <1>t, <2>1, <4>1, Zenon DEF ProcInv, ThreadsMatchProcesses, TypeOK
            <4>4. /\ tproc'[pthread[u]] = tproc[pthread[u]]
                  /\ tstate'[pthread[u]] = tstate[pthread[u]]
                BY <1>6, <4>3
            <4> QED BY <4>1, <4>2, <4>3, <4>4 DEF ProcInv, ThreadsMatchProcesses
        <3> QED BY <3>1, <3>2
    <2>3. ASSUME NEW t \in Threads, tproc'[t] # NoSlot, tstate'[t] # "EXITED"
          PROVE  tproc'[t] \in UsedSlots' /\ pthread'[tproc'[t]] = t
        <3>1. CASE t = next_tid
            <4>1. pthread'[s] = next_tid /\ tproc'[next_tid] = s
                BY <1>4, <1>6, Zenon
            <4> QED BY <1>3, <3>1, <4>1, Zenon
        <3>2. CASE t # next_tid
            <4>1. tproc'[t] = tproc[t] /\ tstate'[t] = tstate[t]
                BY <1>6, <3>2, Zenon
            <4>2. tproc[t] \in UsedSlots /\ pthread[tproc[t]] = t
                BY <2>3, <4>1, Zenon DEF ProcInv, ThreadsMatchProcesses
            <4>3. pthread'[tproc[t]] = pthread[tproc[t]]
                BY <1>2, <1>4, <1>t, <4>2, Zenon
            <4> QED BY <1>3, <4>1, <4>2, <4>3, Zenon
        <3> QED BY <3>1, <3>2
    <2> QED BY <2>2, <2>3 DEF ThreadsMatchProcesses
<1>16. ThreadSpaces'
    <2> SUFFICES ASSUME NEW t \in Threads, tstate'[t] # "EXITED"
                 PROVE  tcr3'[t] = IF tproc'[t] = NoSlot THEN KernelSpace
                                   ELSE pcr3'[tproc'[t]]
        BY Zenon DEF ThreadSpaces
    <2>1. CASE t = next_tid
        BY <1>2, <1>4, <1>6, <2>1, FixedSlots, ZenonT(30)
    <2>2. CASE t # next_tid
        <3>1. tstate[t] # "EXITED" /\ tproc[t] # s
            BY <1>2, <1>6, <2>2, FixedSlots, SMTT(30), Z3T(30) DEF ProcInv, ThreadsMatchProcesses
        <3>2. tproc[t] \in Slots \cup {NoSlot}
            BY <1>t DEF TypeOK
        <3> QED BY <1>4, <1>6, <2>2, <3>1, <3>2, SMTT(30), Z3T(30) DEF ProcInv, ThreadSpaces
    <2> QED BY <2>1, <2>2
<1>17. ParentIsAlive'
    <2> SUFFICES ASSUME NEW u \in UsedSlots' \ {KernelSlot}
                 PROVE  \E v \in UsedSlots' : pid'[v] = ppid'[u] /\ pstate'[v] # "ZOMBIE"
                                                /\ pid'[v] < pid'[u]
        BY DEF ParentIsAlive
    <2>1. CASE u = s
        <3>1. pid[q] < next_pid
            <4>1. pid[q] \in 0 .. next_pid - 1
                BY Zenon DEF ProcInv, PidsAreUnique
            <4> QED BY <1>t, <4>1 DEF TypeOK
        <3> QED BY <1>3, <1>4, <1>t, <2>1, <3>1
    <2>2. CASE u # s
        <3>1. PICK v \in UsedSlots : pid[v] = ppid[u] /\ pstate[v] # "ZOMBIE" /\ pid[v] < pid[u]
            BY <1>3, <2>2 DEF ProcInv, ParentIsAlive
        <3>2. v # s /\ v \in Slots /\ u \in Slots
            BY <1>2, <1>3, <1>t, <2>2, Zenon
        <3> QED BY <1>3, <1>4, <2>2, <3>1, <3>2, Zenon
    <2> QED BY <2>1, <2>2
<1>18. NoLostWakeup'
    <2> SUFFICES ASSUME NEW u \in UsedSlots', pstate'[u] = "BLOCKED"
                 PROVE  /\ ChildrenOf(pid[u], waitpid[u])' # {}
                        /\ ZombiesOf(pid[u], waitpid[u])' = {}
        BY Zenon DEF NoLostWakeup
    <2>1. u # s /\ u \in UsedSlots /\ u # q /\ pstate[u] = "BLOCKED"
        BY <1>3, <1>4, <1>t, Zenon
    <2>2. pid[u] # pid[q] /\ pid'[u] = pid[u] /\ waitpid'[u] = waitpid[u]
        BY <1>1, <1>4, <1>t, <2>1, SMTT(30), Z3T(30) DEF ProcInv, PidsAreUnique
    <2>a. ppid'[s] # pid[u]
        BY <1>4, <2>2, ZenonT(30)
    <2>b. \A c \in UsedSlots :
            ppid'[c] = ppid[c] /\ pid'[c] = pid[c] /\ pstate'[c] = pstate[c]
        BY <1>2, <1>4, <1>t, ZenonT(30)
    <2>3. ChildrenOf(pid[u], waitpid[u])' = ChildrenOf(pid[u], waitpid[u])
        BY <1>3, <2>2, <2>a, <2>b, Zenon DEF ChildrenOf
    <2>4. ZombiesOf(pid[u], waitpid[u])' = ZombiesOf(pid[u], waitpid[u])
        BY <2>3, <2>b DEF ZombiesOf, ChildrenOf
    <2> QED BY <2>1, <2>3, <2>4, Zenon DEF ProcInv, NoLostWakeup
<1>19. SpacesAreOwned'
    <2>1. \A u \in UsedSlots : pcr3'[u] = pcr3[u] /\ pcr3[u] \in pml4s
        BY <1>2, <1>4, <1>t, ZenonT(30) DEF ProcInv, SpacesAreOwned
    <2>2. {pcr3'[u] : u \in UsedSlots'} = {pcr3[u] : u \in UsedSlots} \cup {cr3}
        BY <1>3, <1>4, <2>1, SMTT(30), Z3T(30)
    <2>3. \A u, v \in UsedSlots' : pcr3'[u] = pcr3'[v] => u = v
        BY <1>3, <1>4, <1>a, <2>1 DEF ProcInv, SpacesAreOwned
    <2>4. pml4s' = {KernelSpace} \cup {pcr3'[u] : u \in UsedSlots'}
        BY <1>1, <2>2, ZenonT(30) DEF ProcInv, SpacesAreOwned
    <2> QED BY <2>3, <2>4, Zenon DEF SpacesAreOwned
<1> QED BY <1>10, <1>11, <1>12, <1>13, <1>14, <1>15, <1>16, <1>17, <1>18, <1>19
        DEF ProcInv

(***************************************************************************)
(* A spawn or fork that gives up leaves a free slot free.                  *)
(***************************************************************************)
LEMMA AbortKeepsInv ==
    ASSUME ProcInv, AfterCreateInit, AfterCreateInit',
           NEW q \in UsedSlots, SpawnAbort(pid[q])
    PROVE  ProcInv'
<1> DEFINE s == Lowest(FreeSlots)
<1>1. /\ ppid' = [ppid EXCEPT ![s] = pid[q]]
      /\ pthread' = [pthread EXCEPT ![s] = NoThread]
      /\ pcr3' = [pcr3 EXCEPT ![s] = NoSpace]
      /\ next_pid' = next_pid + 1
      /\ UNCHANGED <<schedVars, pstate, pid, tproc, waitpid, pml4s>>
      /\ next_pid <= MaxPid
    BY DEF SpawnAbort, CanAlloc
<1>2. s \in Slots /\ s \notin UsedSlots /\ s # KernelSlot
    BY LowestFreeSlot, SMTT(30), Z3T(30) DEF SpawnAbort, CanAlloc
<1> HIDE DEF s
<1>t. TypeOK /\ UsedSlots \subseteq Slots /\ UsedSlots' = UsedSlots
    BY <1>1, Zenon DEF ProcInv, UsedSlots
<1>3. \A u \in Slots \ {s} :
        ppid'[u] = ppid[u] /\ pthread'[u] = pthread[u] /\ pcr3'[u] = pcr3[u]
    BY <1>1, <1>t, SMTT(30) DEF TypeOK
<1>u. UNCHANGED <<tstate, tproc, tcr3, pstate>>
    BY <1>1, Zenon DEF schedVars
<1>4. SchedInv'
    BY <1>1, Zenon DEF ProcInv, schedVars, SchedInv, SchedTypeOK, RunningIsCurrent,
                RingIsOneCycle, CpuSpaceIsCurrents, IdleNeverStops, FreshSlots, Ring
<1>5. TypeOK'
    <2>1. SchedTypeOK'
        BY <1>4, Zenon DEF SchedInv
    <2>2. pid[q] \in Pids
        <3>1. pid[q] \in 0 .. next_pid - 1
            BY Zenon DEF ProcInv, PidsAreUnique
        <3> QED BY <1>1, <1>t, <3>1, MaxPidAssumption DEF TypeOK, Pids
    <2>3. next_pid' \in 1 .. MaxPid + 1
        BY <1>1, <1>t, MaxPidAssumption DEF TypeOK
    <2>4. /\ ppid' \in [Slots -> Pids \cup {NoPid}]
          /\ pthread' \in [Slots -> Threads \cup {NoThread}]
          /\ pcr3' \in [Slots -> Spaces \cup {NoSpace}]
        BY <1>1, <1>t, <2>2, ZenonT(30) DEF TypeOK
    <2> QED BY <1>1, <1>t, <2>1, <2>3, <2>4 DEF TypeOK, AfterCreateInit
<1>6. KernelProcess' /\ SettledStates'
    BY <1>1, <1>2, <1>3, <1>t, FixedSlots, Zenon DEF ProcInv, KernelProcess, SettledStates
<1>7. PidsAreUnique'
    <2>1. next_pid \in Nat
        BY <1>t DEF TypeOK
    <2> QED BY <1>1, <1>t, <2>1 DEF ProcInv, PidsAreUnique
<1>8. KernelThreads'
    BY <1>1, SMTT(30), Z3T(30) DEF ProcInv, KernelThreads, AfterCreateInit, schedVars
<1>9. ThreadsMatchProcesses'
    <2>1. \A u \in UsedSlots : pthread'[u] = pthread[u]
        BY <1>2, <1>3, <1>t, SMTT(30), Z3T(30)
    <2>2. \A u \in UsedSlots : /\ pthread'[u] # NoThread
                                /\ tproc[pthread'[u]] = u
                                /\ tstate[pthread'[u]] \in ThreadState4(pstate[u])
        BY <2>1, Zenon DEF ProcInv, ThreadsMatchProcesses
    <2>3. \A t \in Threads : (tproc[t] # NoSlot /\ tstate[t] # "EXITED")
                                => tproc[t] \in UsedSlots /\ pthread'[tproc[t]] = t
        BY <2>1, Zenon DEF ProcInv, ThreadsMatchProcesses
    <2> QED BY <1>t, <1>u, <2>2, <2>3, Zenon DEF ThreadsMatchProcesses
<1>10. ThreadSpaces'
    <2> SUFFICES ASSUME NEW t \in Threads, tstate[t] # "EXITED", tproc[t] # NoSlot
                 PROVE  pcr3'[tproc[t]] = pcr3[tproc[t]]
        BY <1>u, Zenon DEF ProcInv, ThreadSpaces
    <2>1. tproc[t] \in UsedSlots
        BY Zenon DEF ProcInv, ThreadsMatchProcesses
    <2> QED BY <1>2, <1>3, <1>t, <2>1, Zenon
<1>11. ParentIsAlive'
    <2>1. pid' = pid /\ pstate' = pstate
        BY <1>1, Zenon
    <2> SUFFICES ASSUME NEW u \in UsedSlots \ {KernelSlot}
                 PROVE  \E v \in UsedSlots : pid[v] = ppid'[u] /\ pstate[v] # "ZOMBIE"
                                               /\ pid[v] < pid[u]
        BY <1>t, <2>1, Zenon DEF ParentIsAlive
    <2>2. ppid'[u] = ppid[u]
        BY <1>2, <1>3, <1>t
    <2> QED BY <2>2 DEF ProcInv, ParentIsAlive
<1>12. NoLostWakeup'
    <2>1. ASSUME NEW u \in UsedSlots
          PROVE  /\ ChildrenOf(pid[u], waitpid[u])' = ChildrenOf(pid[u], waitpid[u])
                 /\ ZombiesOf(pid[u], waitpid[u])' = ZombiesOf(pid[u], waitpid[u])
        BY <1>1, <1>2, <1>3, <1>t, ZenonT(30) DEF ChildrenOf, ZombiesOf
    <2> QED BY <1>1, <1>t, <2>1, ZenonT(30) DEF ProcInv, NoLostWakeup
<1>13. SpacesAreOwned'
    <2>1. \A u \in UsedSlots : pcr3'[u] = pcr3[u]
        BY <1>2, <1>3, <1>t
    <2> QED BY <1>1, <1>t, <2>1, SMTT(30) DEF ProcInv, SpacesAreOwned
<1> QED BY <1>4, <1>5, <1>6, <1>7, <1>8, <1>9, <1>10, <1>11, <1>12, <1>13, Zenon DEF ProcInv

-----------------------------------------------------------------------------
(***************************************************************************)
(* The ready queue with the kernel threads preempted (module KPreempt).    *)
(*                                                                         *)
(* While init_thread stands between the two links of its insert, the new   *)
(* thread has a link and nobody links to it.  Nothing can run it: a walk   *)
(* from the current thread stays among the threads that have entered, and  *)
(* finds the idle thread READY there at the latest.                        *)
(***************************************************************************)
QueueTypes ==
    /\ tstate \in [Threads -> ThreadState]
    /\ tnext \in [Threads -> Threads \cup {NoThread}]
    /\ current \in Threads
    /\ next_tid \in 2 .. MaxThreads
    /\ tproc = [t \in Threads |-> tproc[t]]
    /\ init_pc = "uncreated" => next_tid = InitThread /\ ~scheduler_active
    /\ init_pc # "uncreated" => next_tid > InitThread
    /\ ~scheduler_active => current = BootThread

\* Threads that make no system call, and slots not handed out yet.
QueueThreads ==
    /\ RunningIsCurrent
    /\ IdleThread \in Entered /\ tstate[IdleThread] \in {"READY", "RUNNING"}
    /\ \A t \in {IdleThread, InitThread} \cap Threads : tproc[t] = NoSlot
    /\ \A t \in Threads : t >= next_tid => tnext[t] = NoThread

\* The thread init_thread is inserting.
InsertedThread ==
    /\ init_pc \in {"count", "fill", "link", "enter"} =>
          init_t \in Threads /\ init_t # IdleThread /\ init_t # InitThread
    /\ init_pc \in {"fill", "link", "enter"} => init_t < next_tid
    /\ init_pc \in {"fill", "link"} => tnext[init_t] = NoThread
    /\ init_pc = "enter" => tnext[init_t] # NoThread /\ InitThread \in Entered

\* init_thread stays where it is, or moves outside its insert.
NoInsert ==
    \/ init_pc' = init_pc
    \/ /\ init_pc \notin {"uncreated", "count", "fill", "link", "enter"}
       /\ init_pc' \notin {"uncreated", "count", "fill", "link", "enter"}

QueueInv == QueueTypes /\ QueueThreads /\ InsertedThread /\ QueueIsCycle

\* A walk of the queue arrives at a READY thread that has entered it.
LEMMA PickNextEntered ==
    ASSUME QueueInv, NEW st, st[IdleThread] = "READY"
    PROVE  pick_next(st) \in Entered /\ st[pick_next(st)] = "READY"
<1>i. IdleThread \in Entered /\ Entered \subseteq Ring
    BY Zenon DEF QueueInv, QueueThreads, Entered
<1>1. CASE \E t \in Ring : FirstReady(st, t)
    <2> DEFINE n == CHOOSE t \in Ring : FirstReady(st, t)
    <2>1. n \in Ring /\ FirstReady(st, n)
        BY <1>1, Zenon
    <2>2. pick_next(st) = n
        BY <1>1, Zenon DEF pick_next
    <2> HIDE DEF n
    <2>3. PICK passed \in SUBSET {u \in Ring : st[u] # "READY"} :
              /\ tnext[current] \in passed \cup {n}
              /\ \A u \in passed : tnext[u] \in passed \cup {n}
        BY <2>1, Zenon DEF FirstReady
    <2>4. ASSUME n \notin Entered PROVE FALSE
        <3> DEFINE S == passed \cap Entered
        <3>1. \A u \in Entered : tnext[u] \in Entered
            BY Zenon DEF QueueInv, QueueIsCycle
        <3>2. current \in Entered
            BY Zenon DEF QueueInv, QueueIsCycle
        <3>3. S # {}
            BY <2>3, <2>4, <3>1, <3>2, Zenon
        <3>4. ASSUME NEW t \in S PROVE tnext[t] \in S
            BY <2>3, <2>4, <3>1, <3>4, Zenon
        <3>5. S = Entered
            BY <3>3, <3>4, Zenon DEF QueueInv, QueueIsCycle
        <3> QED BY <1>i, <2>3, <3>5, Zenon
    <2> QED BY <2>1, <2>2, <2>4, Zenon DEF FirstReady
<1>2. CASE ~ \E t \in Ring : FirstReady(st, t)
    BY <1>2, <1>i, Zenon DEF pick_next
<1> QED BY <1>1, <1>2, Zenon

\* Which threads have entered depends on the links and on the insert alone.
LEMMA SameQueue ==
    ASSUME tnext' = tnext, init_t' = init_t, init_pc' = "enter" <=> init_pc = "enter"
    PROVE  Ring' = Ring /\ Entered' = Entered
<1>1. Ring' = Ring
    BY Zenon DEF Ring
<1>2. CASE init_pc = "enter"
    BY <1>1, <1>2, Zenon DEF Entered
<1>3. CASE init_pc # "enter"
    BY <1>1, <1>3, Zenon DEF Entered
<1> QED BY <1>1, <1>2, <1>3, Zenon

(***************************************************************************)
(* A switch away, with a thread half linked and whatever threads woken.    *)
(***************************************************************************)
LEMMA SwitchKeepsQueue ==
    ASSUME QueueInv, NEW st \in [Threads -> ThreadState],
           \A t \in Threads \ {current} : st[t] = tstate[t] \/ st[t] = "READY",
           current = IdleThread => st[current] = "RUNNING",
           SwitchFrom(st), UNCHANGED <<tproc, init_t>>, NoInsert
    PROVE  QueueInv'
<1> DEFINE saved == Saved(st)
           next  == pick_next(saved)
<1>1. /\ tstate' = [saved EXCEPT ![next] = "RUNNING"]
      /\ current' = next
      /\ tnext' = tnext /\ next_tid' = next_tid /\ scheduler_active' = scheduler_active
      /\ tproc' = tproc /\ init_t' = init_t /\ scheduler_active
    BY Zenon DEF SwitchFrom, Saved
<1>n. /\ init_pc' = "enter" <=> init_pc = "enter"
      /\ init_pc' \in {"fill", "link"} <=> init_pc \in {"fill", "link"}
      /\ init_pc' = "uncreated" <=> init_pc = "uncreated"
    BY DEF NoInsert
<1>2. /\ current \in Threads
      /\ \A t \in Threads : tstate[t] = "RUNNING" <=> t = current
      /\ tstate[IdleThread] \in {"READY", "RUNNING"}
    BY Zenon DEF QueueInv, QueueTypes, QueueThreads, RunningIsCurrent
<1>3. saved \in [Threads -> ThreadState]
    BY <1>2 DEF Saved, ThreadState
<1>4. saved[IdleThread] = "READY"
    BY <1>2, FixedThreads DEF Saved
<1>5. \A t \in Threads : saved[t] # "RUNNING"
    BY <1>2 DEF Saved
<1>6. next \in Entered /\ saved[next] = "READY"
    BY <1>4, PickNextEntered, Zenon
<1>7. next \in Threads
    BY <1>6, Zenon DEF Entered, Ring
<1> HIDE DEF next, saved
<1>8. Ring' = Ring /\ Entered' = Entered
    BY <1>1, <1>n, SameQueue, Zenon
<1>9. QueueTypes'
    <2>1. tstate' \in [Threads -> ThreadState]
        BY <1>1, <1>3, <1>7 DEF ThreadState
    <2>2. scheduler_active'
        BY <1>1
    <2> QED BY <1>1, <1>n, <1>7, <2>1, <2>2, Zenon DEF QueueInv, QueueTypes
<1>10. QueueThreads'
    <2>1. RunningIsCurrent'
        BY <1>1, <1>3, <1>5, <1>7, Zenon DEF RunningIsCurrent
    <2>2. tstate'[IdleThread] \in {"READY", "RUNNING"}
        BY <1>1, <1>3, <1>4, <1>7, FixedThreads
    <2> QED BY <1>1, <1>8, <2>1, <2>2, Zenon DEF QueueInv, QueueThreads
<1>11. InsertedThread'
    <2>1. /\ init_pc \in {"fill", "link", "enter"} <=> init_pc' \in {"fill", "link", "enter"}
          /\ init_pc \in {"count", "fill", "link", "enter"}
                <=> init_pc' \in {"count", "fill", "link", "enter"}
        BY DEF NoInsert
    <2> QED BY <1>1, <1>n, <1>8, <2>1, Zenon DEF QueueInv, InsertedThread
<1>12. QueueIsCycle'
    BY <1>1, <1>n, <1>6, <1>8, Zenon DEF QueueInv, QueueIsCycle
<1> QED BY <1>9, <1>10, <1>11, <1>12, Zenon DEF QueueInv

\* The threads of E are one cycle under the links f.
OneCycle(E, f) ==
    /\ \A t \in E : f[t] \in E
    /\ \A S \in SUBSET E : (S # {} /\ \A t \in S : f[t] \in S) => S = E

\* The links g are the links f with n put behind c.
LinksBehind(E, f, g, c, n) ==
    /\ c \in E /\ n \notin E
    /\ g[n] = f[c] /\ g[c] = n
    /\ \A t \in E \ {c} : g[t] = f[t]

\* Linking n behind c keeps the threads of E one cycle, n included.
LEMMA InsertKeepsCycle ==
    ASSUME NEW E, NEW f, NEW g, NEW c, NEW n, OneCycle(E, f), LinksBehind(E, f, g, c, n)
    PROVE  OneCycle(E \cup {n}, g)
<1> USE DEF OneCycle, LinksBehind
<1>1. \A t \in E \cup {n} : g[t] \in E \cup {n}
    BY Zenon
<1>2. ASSUME NEW S \in SUBSET (E \cup {n}), S # {}, \A t \in S : g[t] \in S
      PROVE  S = E \cup {n}
    <2> DEFINE T == S \ {n}
    <2>1. T \in SUBSET E
        BY Zenon
    <2>2. T # {}
        <3>1. n \in S => f[c] \in T
            BY <1>2, Zenon
        <3> QED BY <1>2, <3>1, Zenon
    <2>3. ASSUME NEW t \in T PROVE f[t] \in T
        <3>1. f[t] # n /\ t \in E /\ t \in S
            BY <2>1, <2>3, Zenon
        <3>2. CASE t = c
            <4>1. n \in S
                BY <1>2, <3>1, <3>2, Zenon
            <4> QED BY <1>2, <3>1, <3>2, <4>1, Zenon
        <3>3. CASE t # c
            BY <1>2, <3>1, <3>3, Zenon
        <3> QED BY <3>2, <3>3, Zenon
    <2>4. T = E
        BY <2>1, <2>2, <2>3, Zenon
    <2>5. n \in S
        BY <1>2, <2>4, Zenon
    <2> HIDE DEF T
    <2>6. S = T \cup {n}
        BY <2>5 DEF T
    <2> QED BY <2>4, <2>6, Zenon
<1> QED BY <1>1, <1>2, Zenon

\* A step that leaves threads and queue alone, whatever it does to processes.
LEMMA QuietKeepsQueue ==
    ASSUME QueueInv, UNCHANGED <<tstate, tnext, current, next_tid, tproc, init_t>>,
           NoInsert,
           scheduler_active' = scheduler_active \/ (init_pc # "uncreated" /\ scheduler_active')
    PROVE  QueueInv'
<1>1. /\ init_pc' = "enter" <=> init_pc = "enter"
      /\ init_pc' \in {"fill", "link"} <=> init_pc \in {"fill", "link"}
      /\ init_pc' = "uncreated" <=> init_pc = "uncreated"
    BY DEF NoInsert
<1>2. Ring' = Ring /\ Entered' = Entered
    BY <1>1, SameQueue, Zenon
<1>3. QueueTypes'
    BY <1>1 DEF QueueInv, QueueTypes
<1>4. QueueThreads'
    BY <1>2, Zenon DEF QueueInv, QueueThreads, RunningIsCurrent
<1>5. InsertedThread'
    <2>1. /\ init_pc \in {"fill", "link", "enter"} <=> init_pc' \in {"fill", "link", "enter"}
          /\ init_pc \in {"count", "fill", "link", "enter"}
                <=> init_pc' \in {"count", "fill", "link", "enter"}
        BY DEF NoInsert
    <2> QED BY <1>1, <1>2, <2>1, Zenon DEF QueueInv, InsertedThread
<1>6. QueueIsCycle'
    BY <1>1, <1>2, Zenon DEF QueueInv, QueueIsCycle
<1> QED BY <1>3, <1>4, <1>5, <1>6, Zenon DEF QueueInv

\* sched_adopt_thread, called with interrupts disabled by a thread that is
\* not itself in the middle of an insert.
LEMMA AdoptKeepsQueue ==
    ASSUME QueueInv, NEW cr3, Adopt(cr3), UNCHANGED init_t,
           current # InitThread,
           tproc' = [t \in Threads |-> tproc'[t]],
           \A t \in Threads \ {next_tid} : tproc'[t] = tproc[t],
           \/ init_pc' = init_pc /\ init_pc # "uncreated"
           \/ /\ init_pc = "uncreated" /\ init_pc' = "spawn"
              /\ tproc' = tproc
    PROVE  QueueInv'
<1> DEFINE n == next_tid
<1>1. /\ n \in Threads /\ n \notin Ring /\ n # IdleThread /\ n # NoThread
      /\ init_pc' # "uncreated" => n + 1 > InitThread
      /\ n \in Nat
    BY ThreadTableAssumption, FixedThreads
    DEF Adopt, QueueInv, QueueTypes, QueueThreads, Threads, Ring, Entered, InitThread
<1>2. current \in Entered /\ current \in Threads /\ current # n
    BY <1>1, Zenon DEF QueueInv, QueueTypes, QueueIsCycle, Entered
<1>3. /\ tstate' = [tstate EXCEPT ![n] = "READY"]
      /\ tnext' = [tnext EXCEPT ![n] = tnext[current], ![current] = n]
      /\ next_tid' = n + 1
      /\ current' = current /\ scheduler_active' = scheduler_active /\ init_t' = init_t
    BY Zenon DEF Adopt
<1>4. /\ init_pc' = "enter" <=> init_pc = "enter"
      /\ init_pc' # "uncreated"
      /\ init_pc' = init_pc \/ init_pc' = "spawn"
    OBVIOUS
<1> HIDE DEF n
<1>5. /\ tnext'[n] = tnext[current] /\ tnext'[current] = n
      /\ \A t \in Threads \ {n, current} : tnext'[t] = tnext[t]
      /\ tnext' \in [Threads -> Threads \cup {NoThread}]
      /\ tnext[current] # NoThread
    <2>1. tnext \in [Threads -> Threads \cup {NoThread}]
        BY Zenon DEF QueueInv, QueueTypes
    <2>2. tnext[current] # NoThread
        BY <1>2, Zenon DEF Entered, Ring
    <2> QED BY <1>1, <1>2, <1>3, <2>1, <2>2
<1>6. Ring' = Ring \cup {n}
    <2>1. \A t \in Threads : tnext'[t] # NoThread <=> tnext[t] # NoThread \/ t = n
        BY <1>1, <1>5, Zenon
    <2> QED BY <1>1, <2>1, Zenon DEF Ring
<1>7. Entered' = Entered \cup {n}
    <2>1. CASE init_pc = "enter"
        <3>1. init_t \in Ring
            BY <2>1, Zenon DEF QueueInv, InsertedThread, Ring
        <3>2. init_t # n
            BY <1>1, <3>1, Zenon
        <3> QED BY <1>3, <1>4, <1>6, <2>1, <3>2, Zenon DEF Entered
    <2>2. CASE init_pc # "enter"
        BY <1>4, <1>6, <2>2, Zenon DEF Entered
    <2> QED BY <2>1, <2>2, Zenon
<1>8. n \notin Entered /\ Entered \subseteq Threads
    BY <1>1, Zenon DEF Entered, Ring
<1>9. QueueTypes'
    <2>1. tstate' \in [Threads -> ThreadState]
        BY <1>1, <1>3 DEF QueueInv, QueueTypes, ThreadState
    <2>2. n + 1 \in 2 .. MaxThreads
        BY ThreadTableAssumption DEF Adopt, QueueInv, QueueTypes, n
    <2>3. ~scheduler_active' => current' = BootThread
        BY <1>3 DEF QueueInv, QueueTypes
    <2>4. next_tid' > InitThread
        BY <1>1, <1>3, <1>4
    <2> QED BY <1>2, <1>3, <1>4, <1>5, <2>1, <2>2, <2>3, <2>4, Zenon DEF QueueTypes
<1>10. QueueThreads'
    <2>1. RunningIsCurrent'
        <3>1. tstate \in [Threads -> ThreadState] /\ RunningIsCurrent
            BY Zenon DEF QueueInv, QueueTypes, QueueThreads
        <3> QED BY <1>1, <1>2, <1>3, <3>1 DEF RunningIsCurrent
    <2>2. tstate'[IdleThread] = tstate[IdleThread]
        BY <1>1, <1>3, FixedThreads, Zenon DEF QueueInv, QueueTypes
    <2>3. \A t \in {IdleThread, InitThread} \cap Threads : tproc'[t] = NoSlot
        <3>1. \A t \in {IdleThread, InitThread} \cap Threads : tproc[t] = NoSlot
            BY Zenon DEF QueueInv, QueueThreads
        <3>2. CASE tproc' = tproc
            BY <3>1, <3>2, Zenon
        <3>3. CASE init_pc # "uncreated"
            <4>1. n # InitThread
                BY <1>1, <3>3 DEF QueueInv, QueueTypes, InitThread, n
            <4> QED BY <1>1, <3>1, <4>1, Zenon DEF n
        <3> QED BY <3>2, <3>3, Zenon
    <2>4. ASSUME NEW t \in Threads, t >= n + 1 PROVE tnext'[t] = NoThread
        <3>1. t # n /\ t >= n
            BY <1>1, <2>4 DEF Threads
        <3>2. tnext[t] = NoThread
            BY <3>1, Zenon DEF QueueInv, QueueThreads, n
        <3>3. t # current
            BY <1>2, <3>2, Zenon DEF Entered, Ring
        <3> QED BY <1>5, <3>1, <3>2, <3>3, Zenon
    <2> QED BY <1>3, <1>7, <2>1, <2>2, <2>3, <2>4, Zenon DEF QueueInv, QueueThreads
<1>11. InsertedThread'
    <2>1. CASE init_pc' = "spawn"
        BY <2>1 DEF InsertedThread
    <2>2. CASE init_pc' = init_pc
        <3> SUFFICES ASSUME init_pc \in {"fill", "link", "enter"}
                     PROVE  /\ init_t < n + 1
                            /\ tnext'[init_t] = tnext[init_t]
            BY <1>3, <1>4, <1>7, <2>2, Zenon DEF QueueInv, InsertedThread
        <3>1. init_t \in Threads /\ init_t < n
            BY DEF QueueInv, InsertedThread, n
        <3>2. init_t < n + 1 /\ init_t # n
            BY <1>1, <3>1 DEF Threads
        <3>3. init_t # current
            <4>1. CASE init_pc \in {"fill", "link"}
                <5>1. tnext[init_t] = NoThread
                    BY <4>1, Zenon DEF QueueInv, InsertedThread
                <5> QED BY <1>5, <5>1, Zenon
            <4>2. CASE init_pc = "enter"
                BY <1>2, <4>2, Zenon DEF Entered
            <4> QED BY <4>1, <4>2
        <3> QED BY <1>5, <3>1, <3>2, <3>3, Zenon
    <2> QED BY <1>4, <2>1, <2>2, Zenon
<1>12. QueueIsCycle'
    <2>1. OneCycle(Entered, tnext)
        BY Zenon DEF QueueInv, QueueIsCycle, OneCycle
    <2>2. LinksBehind(Entered, tnext, tnext', current, n)
        BY <1>2, <1>5, <1>8, Zenon DEF LinksBehind
    <2>3. OneCycle(Entered \cup {n}, tnext')
        BY <2>1, <2>2, InsertKeepsCycle, Zenon
    <2>4. ASSUME init_pc = "enter" PROVE tnext'[init_t] = tnext'[InitThread]
        <3>1. /\ tnext[init_t] = tnext[InitThread] /\ InitThread \in Entered
              /\ init_t \in Threads /\ init_t \in Ring
            BY <2>4, Zenon DEF QueueInv, QueueIsCycle, InsertedThread, Ring
        <3>2. init_t # n /\ init_t # current /\ InitThread # n /\ InitThread \in Threads
            BY <1>1, <1>2, <1>8, <2>4, <3>1, Zenon DEF Entered
        <3> QED BY <1>5, <3>1, <3>2, Zenon
    <2>5. current' \in Entered'
        BY <1>2, <1>3, <1>7, Zenon
    <2>6. init_pc' = "enter" => tnext'[init_t'] = tnext'[InitThread]
        BY <1>3, <1>4, <2>4, Zenon
    <2>7. OneCycle(Entered', tnext')
        BY <1>7, <2>3, Zenon
    <2> QED BY <2>5, <2>6, <2>7, Zenon DEF QueueIsCycle, OneCycle
<1> QED BY <1>9, <1>10, <1>11, <1>12, Zenon DEF QueueInv

\* sched_create_kthread without a stack: a slot is spent, the queue is as it was.
LEMMA SpentSlotKeepsQueue ==
    ASSUME QueueInv, CreateWithoutStack, UNCHANGED <<tproc, init_t>>,
           init_pc = "uncreated", init_pc' = "absent"
    PROVE  QueueInv'
<1> DEFINE n == next_tid
<1>1. /\ tstate' = [tstate EXCEPT ![n] = "READY"]
      /\ next_tid' = n + 1 /\ tnext' = tnext
      /\ current' = current /\ scheduler_active' = scheduler_active
    BY Zenon DEF CreateWithoutStack
<1>2. n \in Threads /\ n \in Nat /\ n = InitThread /\ tnext[n] = NoThread /\ n # IdleThread
    BY ThreadTableAssumption, SMTT(30)
    DEF CreateWithoutStack, QueueInv, QueueTypes, QueueThreads, Threads, InitThread, IdleThread
<1>3. init_pc' = "enter" <=> init_pc = "enter"
    OBVIOUS
<1>4. Ring' = Ring /\ Entered' = Entered
    BY <1>1, <1>3, SameQueue, Zenon
<1>5. current \in Threads /\ current # n
    BY <1>2, Zenon DEF QueueInv, QueueTypes, QueueIsCycle, Entered, Ring
<1> HIDE DEF n
<1>6. QueueTypes'
    <2>1. tstate' \in [Threads -> ThreadState]
        BY <1>1, <1>2 DEF QueueInv, QueueTypes, ThreadState
    <2>2. n + 1 \in 2 .. MaxThreads /\ n + 1 > InitThread
        BY <1>2, ThreadTableAssumption DEF CreateWithoutStack, QueueInv, QueueTypes, n
    <2>3. init_pc' # "uncreated"
        OBVIOUS
    <2> QED BY <1>1, <2>1, <2>2, <2>3, Zenon DEF QueueInv, QueueTypes
<1>7. QueueThreads'
    <2>1. RunningIsCurrent'
        <3>1. tstate \in [Threads -> ThreadState] /\ RunningIsCurrent
            BY Zenon DEF QueueInv, QueueTypes, QueueThreads
        <3> QED BY <1>1, <1>2, <1>5, <3>1 DEF RunningIsCurrent
    <2>2. tstate'[IdleThread] = tstate[IdleThread]
        BY <1>1, <1>2, FixedThreads, Zenon DEF QueueInv, QueueTypes
    <2>3. ASSUME NEW t \in Threads, t >= n + 1 PROVE tnext[t] = NoThread
        <3>1. t >= n
            BY <1>2, <2>3 DEF Threads
        <3> QED BY <3>1, Zenon DEF QueueInv, QueueThreads, n
    <2> QED BY <1>1, <1>4, <2>1, <2>2, <2>3, Zenon DEF QueueInv, QueueThreads
<1>8. InsertedThread'
    BY DEF InsertedThread
<1>9. QueueIsCycle'
    BY <1>1, <1>3, <1>4, Zenon DEF QueueInv, QueueIsCycle
<1> QED BY <1>6, <1>7, <1>8, <1>9, Zenon DEF QueueInv

\* init_thread's insert: a slot is chosen (t = &threads[next_tid]) ...
LEMMA AdoptTakeKeepsQueue ==
    ASSUME QueueInv, AdoptTake
    PROVE  QueueInv'
<1>1. /\ UNCHANGED <<tstate, tnext, current, next_tid, scheduler_active, tproc>>
      /\ init_t' = next_tid /\ next_tid < MaxThreads
      /\ init_pc = "adopt" /\ init_pc' = "count"
    BY Zenon DEF AdoptTake, schedVars, procVars
<1>2. init_pc # "enter" /\ init_pc' # "enter" /\ init_pc # "uncreated" /\ init_pc' # "uncreated"
    BY <1>1
<1>3. Ring' = Ring /\ Entered' = Ring /\ Entered = Ring
    BY <1>1, <1>2, Zenon DEF Ring, Entered
<1>4. QueueTypes'
    BY <1>1, <1>2, Zenon DEF QueueInv, QueueTypes
<1>5. QueueThreads'
    BY <1>1, <1>3, Zenon DEF QueueInv, QueueThreads, RunningIsCurrent
<1>6. InsertedThread'
    <2>1. next_tid \in Threads /\ next_tid # IdleThread /\ next_tid # InitThread
        BY <1>1, <1>2, ThreadTableAssumption
        DEF QueueInv, QueueTypes, Threads, IdleThread, InitThread
    <2> QED BY <1>1, <2>1 DEF InsertedThread
<1>7. QueueIsCycle'
    BY <1>1, <1>2, <1>3, Zenon DEF QueueInv, QueueIsCycle
<1> QED BY <1>4, <1>5, <1>6, <1>7, Zenon DEF QueueInv

\* ... and counted (t->tid = next_tid++), unless another thread took it first ...
LEMMA AdoptCountKeepsQueue ==
    ASSUME QueueInv, AdoptCount, ~torn'
    PROVE  QueueInv'
<1> DEFINE n == next_tid
<1>1. /\ UNCHANGED <<tstate, tnext, current, scheduler_active, tproc>>
      /\ init_t' = n /\ init_t = n
      /\ init_pc = "count" /\ init_pc' = "fill"
    BY Zenon DEF AdoptCount, procVars
<1>2. next_tid' = n + 1
    BY <1>1 DEF AdoptCount
<1>3. init_pc # "enter" /\ init_pc' # "enter" /\ init_pc # "uncreated" /\ init_pc' # "uncreated"
    BY <1>1
<1>4. Ring' = Ring /\ Entered' = Ring /\ Entered = Ring
    BY <1>1, <1>3, Zenon DEF Ring, Entered
<1>5. /\ n \in Threads /\ n \in Nat /\ tnext[n] = NoThread
      /\ n # IdleThread /\ n # InitThread
    BY <1>1, ThreadTableAssumption
    DEF QueueInv, QueueTypes, QueueThreads, InsertedThread, Threads
<1>6. n + 1 \in 2 .. MaxThreads /\ n + 1 > InitThread
    BY <1>3, <1>5, ThreadTableAssumption DEF QueueInv, QueueTypes, Threads, InitThread
<1>7. QueueTypes'
    BY <1>1, <1>2, <1>3, <1>6, Zenon DEF QueueInv, QueueTypes
<1>8. QueueThreads'
    <2>1. ASSUME NEW t \in Threads, t >= n + 1 PROVE tnext[t] = NoThread
        <3>1. t >= n
            BY <1>5, <2>1 DEF Threads
        <3> QED BY <3>1, Zenon DEF QueueInv, QueueThreads
    <2> QED BY <1>1, <1>2, <1>4, <2>1, Zenon DEF QueueInv, QueueThreads, RunningIsCurrent
<1>9. InsertedThread'
    BY <1>1, <1>2, <1>5 DEF InsertedThread
<1>10. QueueIsCycle'
    BY <1>1, <1>3, <1>4, Zenon DEF QueueInv, QueueIsCycle
<1> QED BY <1>7, <1>8, <1>9, <1>10, Zenon DEF QueueInv

\* ... and filled; it is linked by nobody yet.
LEMMA AdoptFillKeepsQueue ==
    ASSUME QueueInv, AdoptFill
    PROVE  QueueInv'
<1> DEFINE n == init_t
<1>1. /\ tstate' = [tstate EXCEPT ![n] = "READY"]
      /\ tproc' = [tproc EXCEPT ![n] = init_slot]
      /\ next_tid' = next_tid /\ tnext' = tnext /\ init_t' = n
      /\ current' = current /\ scheduler_active' = scheduler_active
      /\ init_pc = "fill" /\ init_pc' = "link"
    BY Zenon DEF AdoptFill, localVars
<1>2. /\ n \in Threads /\ tnext[n] = NoThread /\ n < next_tid
      /\ n # IdleThread /\ n # InitThread
    BY <1>1 DEF QueueInv, InsertedThread
<1>3. init_pc # "enter" /\ init_pc' # "enter" /\ init_pc' # "uncreated" /\ init_pc # "uncreated"
    BY <1>1
<1>4. Ring' = Ring /\ Entered' = Ring /\ Entered = Ring
    BY <1>1, <1>3, Zenon DEF Ring, Entered
<1>5. current \in Threads /\ current # n
    BY <1>2, Zenon DEF QueueInv, QueueTypes, QueueIsCycle, Entered, Ring
<1>f. tproc = [t \in Threads |-> tproc[t]]
    BY Zenon DEF QueueInv, QueueTypes
<1> HIDE DEF n
<1>6. QueueTypes'
    <2>1. tstate' \in [Threads -> ThreadState]
        BY <1>1, <1>2 DEF QueueInv, QueueTypes, ThreadState
    <2>2. tproc' = [t \in Threads |-> tproc'[t]]
        BY <1>1, <1>f
    <2> QED BY <1>1, <1>3, <2>1, <2>2, Zenon DEF QueueInv, QueueTypes
<1>7. QueueThreads'
    <2>1. RunningIsCurrent'
        <3>1. tstate \in [Threads -> ThreadState] /\ RunningIsCurrent
            BY Zenon DEF QueueInv, QueueTypes, QueueThreads
        <3> QED BY <1>1, <1>2, <1>5, <3>1 DEF RunningIsCurrent
    <2>2. tstate'[IdleThread] = tstate[IdleThread]
        BY <1>1, <1>2, FixedThreads, Zenon DEF QueueInv, QueueTypes
    <2>3. \A t \in Threads \ {n} : tproc'[t] = tproc[t]
        BY <1>1, <1>f
    <2>4. \A t \in {IdleThread, InitThread} \cap Threads : tproc'[t] = NoSlot
        BY <1>2, <2>3, Zenon DEF QueueInv, QueueThreads
    <2> QED BY <1>1, <1>4, <2>1, <2>2, <2>4, Zenon DEF QueueInv, QueueThreads
<1>8. InsertedThread'
    BY <1>1, <1>2, <1>3 DEF InsertedThread
<1>9. QueueIsCycle'
    BY <1>1, <1>3, <1>4, Zenon DEF QueueInv, QueueIsCycle
<1> QED BY <1>6, <1>7, <1>8, <1>9, Zenon DEF QueueInv

\* Then the new thread gets its link (t->next = current->next) ...
LEMMA AdoptLinkKeepsQueue ==
    ASSUME QueueInv, AdoptLink
    PROVE  QueueInv'
<1> DEFINE n == init_t
<1>1. /\ tnext' = [tnext EXCEPT ![n] = tnext[InitThread]]
      /\ tstate' = tstate /\ current' = current /\ next_tid' = next_tid
      /\ scheduler_active' = scheduler_active
      /\ tproc' = tproc /\ init_t' = n
      /\ init_pc = "link" /\ init_pc' = "enter" /\ current = InitThread
    BY Zenon DEF AdoptLink, InitRuns, procVars, localVars
<1>2. /\ n \in Threads /\ n < next_tid /\ n # IdleThread /\ n # InitThread
      /\ tnext[n] = NoThread
    BY <1>1 DEF QueueInv, InsertedThread
<1>3. init_pc # "enter" /\ init_pc # "uncreated"
    BY <1>1
<1>4. Entered = Ring /\ n \notin Ring
    BY <1>2, <1>3, Zenon DEF Entered, Ring
<1>5. /\ tnext \in [Threads -> Threads \cup {NoThread}]
      /\ InitThread \in Ring /\ InitThread \in Threads
    BY <1>1, <1>4, Zenon DEF QueueInv, QueueTypes, QueueIsCycle
<1> HIDE DEF n
<1>6. /\ tnext'[n] = tnext[InitThread]
      /\ \A t \in Threads \ {n} : tnext'[t] = tnext[t]
      /\ tnext' \in [Threads -> Threads \cup {NoThread}]
      /\ tnext[InitThread] # NoThread
    BY <1>1, <1>2, <1>5, Zenon DEF Ring
<1>7. Ring' = Ring \cup {n}
    <2>1. \A t \in Threads : tnext'[t] # NoThread <=> tnext[t] # NoThread \/ t = n
        BY <1>2, <1>6, Zenon
    <2> QED BY <1>2, <2>1, Zenon DEF Ring
<1>8. Entered' = Entered
    <2>1. Entered' = Ring' \ {n}
        BY <1>1, Zenon DEF Entered
    <2> QED BY <1>4, <1>7, <2>1, Zenon
<1>9. \A t \in Entered : tnext'[t] = tnext[t]
    BY <1>4, <1>6, Zenon DEF Ring
<1>10. QueueTypes'
    <2>1. init_pc' # "uncreated"
        BY <1>1
    <2> QED BY <1>1, <1>3, <1>6, <2>1, Zenon DEF QueueInv, QueueTypes
<1>11. QueueThreads'
    <2>1. RunningIsCurrent'
        BY <1>1, Zenon DEF QueueInv, QueueThreads, RunningIsCurrent
    <2>2. ASSUME NEW t \in Threads, t >= next_tid PROVE tnext'[t] = NoThread
        <3>1. t # n
            BY <1>2, <2>2 DEF QueueInv, QueueTypes, Threads
        <3> QED BY <1>6, <2>2, <3>1, Zenon DEF QueueInv, QueueThreads
    <2> QED BY <1>1, <1>8, <2>1, <2>2, Zenon DEF QueueInv, QueueThreads
<1>12. InsertedThread'
    <2>1. init_pc' \notin {"fill", "link"}
        BY <1>1
    <2> QED BY <1>1, <1>2, <1>4, <1>5, <1>6, <1>8, <2>1, Zenon DEF InsertedThread
<1>13. QueueIsCycle'
    <2>1. tnext'[n] = tnext'[InitThread]
        BY <1>2, <1>5, <1>6, Zenon
    <2>2. OneCycle(Entered, tnext)
        BY Zenon DEF QueueInv, QueueIsCycle, OneCycle
    <2>3. OneCycle(Entered, tnext')
        BY <1>9, <2>2, Zenon DEF OneCycle
    <2>4. current' \in Entered'
        BY <1>1, <1>4, <1>5, <1>8, Zenon
    <2>5. tnext'[init_t'] = tnext'[InitThread]
        BY <1>1, <2>1, Zenon
    <2>6. OneCycle(Entered', tnext')
        BY <1>8, <2>3, Zenon
    <2> QED BY <2>4, <2>5, <2>6, Zenon DEF QueueIsCycle, OneCycle
<1> QED BY <1>10, <1>11, <1>12, <1>13, Zenon DEF QueueInv

\* ... and init_thread's own link is turned to it (current->next = t).
LEMMA AdoptEnterKeepsQueue ==
    ASSUME QueueInv, AdoptEnter
    PROVE  QueueInv'
<1> DEFINE n == init_t
<1>1. /\ tnext' = [tnext EXCEPT ![InitThread] = n]
      /\ tstate' = tstate /\ current' = current /\ next_tid' = next_tid
      /\ scheduler_active' = scheduler_active
      /\ tproc' = tproc /\ init_t' = n
      /\ init_pc = "enter" /\ init_pc' = "thread" /\ current = InitThread
    BY Zenon DEF AdoptEnter, InitRuns, procVars, localVars
<1>2. /\ n \in Threads /\ n < next_tid /\ n # InitThread
      /\ tnext[n] # NoThread /\ InitThread \in Entered
      /\ tnext[n] = tnext[InitThread]
    BY <1>1 DEF QueueInv, InsertedThread, QueueIsCycle
<1>3. /\ init_pc' \notin {"enter", "link", "fill", "count", "uncreated"}
      /\ init_pc # "uncreated"
    BY <1>1
<1>4. Entered = Ring \ {n} /\ n \in Ring
    BY <1>1, <1>2, Zenon DEF Entered, Ring
<1>5. tnext \in [Threads -> Threads \cup {NoThread}] /\ InitThread \in Threads
    BY <1>2, Zenon DEF QueueInv, QueueTypes, Entered, Ring
<1>6. n # NoThread
    BY <1>2, FixedThreads, Zenon
<1> HIDE DEF n
<1>7. /\ tnext'[InitThread] = n
      /\ \A t \in Threads \ {InitThread} : tnext'[t] = tnext[t]
      /\ tnext' \in [Threads -> Threads \cup {NoThread}]
    BY <1>1, <1>2, <1>5, Zenon
<1>8. Ring' = Ring
    <2>1. tnext[InitThread] # NoThread
        BY <1>2, Zenon
    <2>2. \A t \in Threads : tnext'[t] # NoThread <=> tnext[t] # NoThread
        BY <1>6, <1>7, <2>1, Zenon
    <2> QED BY <2>2, Zenon DEF Ring
<1>9. Entered' = Entered \cup {n}
    <2>1. Entered' = Ring
        BY <1>3, <1>8, Zenon DEF Entered
    <2> QED BY <1>4, <2>1
<1>10. QueueTypes'
    BY <1>1, <1>3, <1>7, Zenon DEF QueueInv, QueueTypes
<1>11. QueueThreads'
    <2>1. RunningIsCurrent'
        BY <1>1, Zenon DEF QueueInv, QueueThreads, RunningIsCurrent
    <2>2. ASSUME NEW t \in Threads, t >= next_tid PROVE tnext'[t] = NoThread
        <3>1. tnext[t] = NoThread
            BY <2>2, Zenon DEF QueueInv, QueueThreads
        <3>2. t # InitThread
            BY <1>2, <3>1, Zenon
        <3> QED BY <1>7, <3>1, <3>2, Zenon
    <2> QED BY <1>1, <1>9, <2>1, <2>2, Zenon DEF QueueInv, QueueThreads
<1>12. InsertedThread'
    BY <1>3 DEF InsertedThread
<1>13. QueueIsCycle'
    <2>1. OneCycle(Entered, tnext)
        BY Zenon DEF QueueInv, QueueIsCycle, OneCycle
    <2>2. Entered \subseteq Threads /\ n \notin Entered
        BY <1>4, Zenon DEF Ring
    <2>3. LinksBehind(Entered, tnext, tnext', InitThread, n)
        BY <1>2, <1>7, <2>2, Zenon DEF LinksBehind
    <2>4. OneCycle(Entered \cup {n}, tnext')
        BY <2>1, <2>3, InsertKeepsCycle, Zenon
    <2> QED BY <1>1, <1>2, <1>3, <1>9, <2>4, Zenon DEF QueueIsCycle, OneCycle
<1> QED BY <1>10, <1>11, <1>12, <1>13, Zenon DEF QueueInv

-----------------------------------------------------------------------------
\* A successful spawn or fork, in a thread that is not init_thread.
LEMMA SpawnKeepsQueue ==
    ASSUME QueueInv, NEW parent, SpawnOk(parent), UNCHANGED <<init_pc, init_t>>,
           init_pc # "uncreated", current # InitThread
    PROVE  QueueInv'
<1>1. PICK cr3 : Adopt(cr3) /\ tproc' = [tproc EXCEPT ![next_tid] = Lowest(FreeSlots)]
    BY Zenon DEF SpawnOk
<1>2. tproc = [t \in Threads |-> tproc[t]]
    BY Zenon DEF QueueInv, QueueTypes
<1>3. /\ tproc' = [t \in Threads |-> tproc'[t]]
      /\ \A t \in Threads \ {next_tid} : tproc'[t] = tproc[t]
    <2> DEFINE s == Lowest(FreeSlots)
               n == next_tid
    <2>1. tproc' = [tproc EXCEPT ![n] = s]
        BY <1>1, Zenon
    <2> HIDE DEF s, n
    <2>2. /\ tproc' = [t \in Threads |-> tproc'[t]]
          /\ \A t \in Threads \ {n} : tproc'[t] = tproc[t]
        BY <1>2, <2>1
    <2> QED BY <2>2, Zenon DEF n
<1> QED BY <1>1, <1>3, AdoptKeepsQueue, Zenon

\* Neither init_thread nor the idle thread makes a system call.
LEMMA CallerIsOther ==
    ASSUME QueueInv, UserCall
    PROVE  current # InitThread /\ current # IdleThread /\ init_pc # "uncreated"
<1>1. current \in Threads
    BY Zenon DEF QueueInv, QueueTypes
<1>2. init_pc # "uncreated"
    BY DEF QueueInv, QueueTypes, UserCall
<1>3. tproc[current] # NoSlot
    BY DEF UserCall, Caller
<1> QED BY <1>1, <1>2, <1>3, Zenon DEF QueueInv, QueueThreads

\* A thread exits, or blocks in wait4.
LEMMA StopKeepsQueue ==
    ASSUME QueueInv, current # IdleThread, UNCHANGED <<tproc, init_t>>,
           NoInsert, NEW woken, BlockCurrent \/ ExitCurrent(woken)
    PROVE  QueueInv'
<1>t. tstate \in [Threads -> ThreadState] /\ current \in Threads
    BY Zenon DEF QueueInv, QueueTypes
<1>1. CASE BlockCurrent
    <2> DEFINE st == [tstate EXCEPT ![current] = "BLOCKED"]
    <2>1. /\ st \in [Threads -> ThreadState]
          /\ \A t \in Threads \ {current} : st[t] = tstate[t]
        BY <1>t DEF ThreadState
    <2>2. SwitchFrom(st)
        BY <1>1, Zenon DEF BlockCurrent
    <2> HIDE DEF st
    <2> QED BY <2>1, <2>2, SwitchKeepsQueue, Zenon
<1>2. CASE ExitCurrent(woken)
    <2> DEFINE st == [t \in Threads |-> IF t = current THEN "EXITED"
                                        ELSE IF t \in woken THEN "READY"
                                        ELSE tstate[t]]
    <2>1. /\ st \in [Threads -> ThreadState]
          /\ \A t \in Threads \ {current} : st[t] = tstate[t] \/ st[t] = "READY"
        BY <1>t DEF ThreadState
    <2>2. SwitchFrom(st)
        BY <1>2, Zenon DEF ExitCurrent
    <2> HIDE DEF st
    <2> QED BY <2>1, <2>2, SwitchKeepsQueue, Zenon
<1> QED BY <1>1, <1>2, Zenon

\* Every step of the kernel, its threads preempted anywhere, keeps the queue.
LEMMA KStepKeepsQueue ==
    ASSUME QueueInv, [KNext]_kvars, ~torn'
    PROVE  QueueInv'
<1>b. ~scheduler_active => current # InitThread
    BY DEF QueueInv, QueueTypes, BootThread, InitThread
<1>d. current = InitThread => current # IdleThread
    BY DEF InitThread, IdleThread
<1>1. CASE CreateInit /\ UNCHANGED localVars
    <2>1. current # InitThread /\ init_pc = "uncreated" /\ tproc' = tproc /\ init_t' = init_t
        <3>1. init_pc = "uncreated" /\ tproc' = tproc /\ init_t' = init_t
            BY <1>1, Zenon DEF CreateInit, procVars, localVars
        <3>2. ~scheduler_active
            BY <3>1 DEF QueueInv, QueueTypes
        <3> QED BY <1>b, <3>1, <3>2
    <2>2. tproc = [t \in Threads |-> tproc[t]]
        BY Zenon DEF QueueInv, QueueTypes
    <2>3. CASE Adopt(KernelSpace) /\ init_pc' = "spawn"
        BY <2>1, <2>2, <2>3, AdoptKeepsQueue, Zenon
    <2>4. CASE CreateWithoutStack /\ init_pc' = "absent"
        BY <2>1, <2>4, SpentSlotKeepsQueue, Zenon
    <2> QED BY <1>1, <2>3, <2>4, Zenon DEF CreateInit
<1>2. CASE (BootSpawn \/ Fork) /\ UNCHANGED localVars
    <2>1. /\ init_pc' = init_pc /\ init_t' = init_t
          /\ init_pc # "uncreated" /\ current # InitThread
        BY <1>2, <1>b, CallerIsOther, Zenon DEF BootSpawn, Fork, initVars, localVars
    <2>2. PICK parent : SpawnOk(parent) \/ SpawnAbort(parent)
        BY <1>2, Zenon DEF BootSpawn, Fork
    <2>3. CASE SpawnOk(parent)
        BY <2>1, <2>3, SpawnKeepsQueue, Zenon
    <2>4. CASE SpawnAbort(parent)
        BY <2>1, <2>4, QuietKeepsQueue, Zenon DEF SpawnAbort, schedVars, NoInsert
    <2> QED BY <2>2, <2>3, <2>4, Zenon
<1>3. CASE Start /\ UNCHANGED localVars
    <2>1. /\ UNCHANGED <<tstate, tnext, current, next_tid, tproc, init_t>>
          /\ init_pc' = init_pc /\ init_pc # "uncreated" /\ scheduler_active'
        BY <1>3 DEF Start, sched_start, procVars, initVars, localVars
    <2> QED BY <2>1, QuietKeepsQueue, Zenon DEF NoInsert
<1>4. CASE Tick /\ UNCHANGED localVars
    <2>1. SwitchFrom(tstate) /\ tproc' = tproc /\ init_t' = init_t /\ init_pc' = init_pc
        BY <1>4, Zenon DEF Tick, sched_tick, procVars, initVars, localVars
    <2>2. /\ tstate \in [Threads -> ThreadState]
          /\ current = IdleThread => tstate[current] = "RUNNING"
        BY Zenon DEF QueueInv, QueueTypes, QueueThreads, RunningIsCurrent
    <2> QED BY <2>1, <2>2, SwitchKeepsQueue, Zenon DEF NoInsert
<1>5. CASE InitExit /\ UNCHANGED localVars
    <2>1. /\ ExitCurrent({}) /\ current = InitThread /\ tproc' = tproc /\ init_t' = init_t
          /\ init_pc = "exit" /\ init_pc' = "gone"
        BY <1>5, Zenon DEF InitExit, InitRuns, procVars, localVars
    <2>2. NoInsert
        BY <2>1 DEF NoInsert
    <2> QED BY <1>d, <2>1, <2>2, StopKeepsQueue, Zenon
<1>6. CASE Exit /\ UNCHANGED localVars
    <2>1. /\ UserCall /\ ExitCurrent({pthread[s] : s \in WokenBy(Caller)})
          /\ tproc' = tproc /\ init_t' = init_t /\ init_pc' = init_pc
        BY <1>6, Zenon DEF Exit, initVars, localVars
    <2> QED BY <2>1, CallerIsOther, StopKeepsQueue, Zenon DEF NoInsert
<1>7. CASE Execve /\ UNCHANGED localVars
    <2>1. /\ UNCHANGED <<tstate, tnext, current, next_tid, tproc, init_t>>
          /\ init_pc' = init_pc /\ scheduler_active' = scheduler_active
        BY <1>7, Zenon DEF Execve, initVars, localVars
    <2> QED BY <2>1, QuietKeepsQueue, Zenon DEF NoInsert
<1>8. ASSUME NEW arg, WaitReap(arg), UNCHANGED localVars PROVE QueueInv'
    <2>1. /\ UNCHANGED <<tstate, tnext, current, next_tid, tproc, init_t>>
          /\ init_pc' = init_pc /\ scheduler_active' = scheduler_active
        BY <1>8, Zenon DEF WaitReap, Destroy, schedVars, initVars, localVars
    <2> QED BY <2>1, QuietKeepsQueue, Zenon DEF NoInsert
<1>9. ASSUME NEW arg, WaitBlock(arg), UNCHANGED localVars PROVE QueueInv'
    <2>1. /\ UserCall /\ BlockCurrent
          /\ tproc' = tproc /\ init_t' = init_t /\ init_pc' = init_pc
        BY <1>9, Zenon DEF WaitBlock, initVars, localVars
    <2> QED BY <2>1, CallerIsOther, StopKeepsQueue, Zenon DEF NoInsert
<1>10. CASE Uninterrupted
    BY <1>1, <1>2, <1>3, <1>4, <1>5, <1>6, <1>7, <1>8, <1>9, <1>10, Zenon DEF Uninterrupted
<1>11. CASE PreemptibleReap
    <2>1. CASE BootFind \/ BootStep
        <3>1. /\ UNCHANGED <<tstate, tnext, current, next_tid, tproc, init_t>>
              /\ init_pc' = init_pc /\ scheduler_active' = scheduler_active
            BY <2>1, Zenon
            DEF BootFind, BootStep, DestroyStep, vars, schedVars, procVars, initVars
        <3> QED BY <3>1, QuietKeepsQueue, Zenon DEF NoInsert
    <2>2. CASE InitFind \/ InitStep
        <3>1. /\ UNCHANGED <<tstate, tnext, current, next_tid, tproc, init_t>>
              /\ scheduler_active' = scheduler_active
            BY <2>2, Zenon
            DEF InitFind, InitStep, DestroyStep, schedVars, procVars, localVars
        <3>2. /\ init_pc \in {"reap", "destroy", "unuse", "unpid"}
              /\ init_pc' \in {"destroy", "unuse", "unpid", "exit"}
            BY <2>2, Zenon DEF InitFind, InitStep, DestroyStep
        <3>3. NoInsert
            BY <3>2 DEF NoInsert
        <3> QED BY <3>1, <3>3, QuietKeepsQueue, Zenon
    <2> QED BY <1>11, <2>1, <2>2, Zenon DEF PreemptibleReap
<1>12. CASE PreemptibleSpawn
    <2>1. CASE AllocFind \/ AllocFill \/ SpawnFails \/ Publish
        <3>1. /\ UNCHANGED <<tstate, tnext, current, next_tid, tproc, init_t>>
              /\ scheduler_active' = scheduler_active
            BY <2>1, Zenon
            DEF AllocFind, AllocFill, SpawnFails, Publish, schedVars, procVars, localVars
        <3>2. /\ init_pc \in {"spawn", "alloc", "adopt", "thread", "ready"}
              /\ init_pc' \in {"alloc", "adopt", "destroy", "ready", "reap", "exit"}
            BY <2>1, Zenon DEF AllocFind, AllocFill, SpawnFails, Publish
        <3>3. NoInsert
            BY <3>2 DEF NoInsert
        <3> QED BY <3>1, <3>3, QuietKeepsQueue, Zenon
    <2> QED BY <1>12, <2>1, AdoptTakeKeepsQueue, AdoptCountKeepsQueue, AdoptFillKeepsQueue,
               AdoptLinkKeepsQueue, AdoptEnterKeepsQueue, Zenon DEF PreemptibleSpawn
<1>13. CASE UNCHANGED kvars
    <2>1. /\ UNCHANGED <<tstate, tnext, current, next_tid, tproc, init_t>>
          /\ init_pc' = init_pc /\ scheduler_active' = scheduler_active
        BY <1>13, Zenon DEF kvars, vars, schedVars, procVars, initVars, localVars
    <2> QED BY <2>1, QuietKeepsQueue, Zenon DEF NoInsert
<1> QED BY <1>10, <1>11, <1>12, <1>13, Zenon DEF KNext

\* The queue sched_init leaves.
LEMMA KInitQueue == KInit => QueueInv
<1> SUFFICES ASSUME KInit PROVE QueueInv
    OBVIOUS
<1>1. SchedInit /\ init_pc = "uncreated" /\ SchedInv
    BY InitEstablishesInv, Zenon DEF KInit, Init
<1>2. tproc = [t \in Threads |-> IF t = BootThread THEN KernelSlot ELSE NoSlot]
    BY Zenon DEF KInit, Init
<1>3. Entered = Ring /\ init_pc # "enter"
    BY <1>1 DEF Entered
<1>4. QueueTypes
    <2>1. ~scheduler_active /\ current = BootThread /\ next_tid = InitThread
        BY <1>1 DEF SchedInit, InitThread
    <2>2. tproc = [t \in Threads |-> tproc[t]]
        BY <1>2, Zenon
    <2> QED BY <1>1, <2>1, <2>2, Zenon DEF QueueTypes, SchedInv, SchedTypeOK
<1>5. QueueThreads
    <2>1. \A t \in {IdleThread, InitThread} \cap Threads : tproc[t] = NoSlot
        BY <1>2 DEF IdleThread, InitThread, BootThread
    <2> QED BY <1>1, <1>3, <2>1, Zenon DEF QueueThreads, SchedInv, IdleNeverStops, FreshSlots
<1>6. InsertedThread
    BY <1>1 DEF InsertedThread
<1>7. QueueIsCycle
    BY <1>1, <1>3, Zenon DEF QueueIsCycle, SchedInv, RingIsOneCycle
<1> QED BY <1>4, <1>5, <1>6, <1>7, Zenon DEF QueueInv

(***************************************************************************)
(* Until a fork takes the thread slot that init_thread has chosen and not  *)
(* yet counted, the ready queue stays one cycle through every thread that  *)
(* has entered it, wherever the timer interrupts init_thread's insert and  *)
(* the reapers, and whatever the other threads insert meanwhile.           *)
(***************************************************************************)
THEOREM QueueSurvivesPreemption == KSpec => []RingSurvivesPreemption
<1> DEFINE KInv == torn \/ QueueInv
<1>1. KInit => KInv
    BY KInitQueue, Zenon
<1>2. KInv /\ [KNext]_kvars => KInv'
    <2> SUFFICES ASSUME KInv, [KNext]_kvars, ~torn' PROVE QueueInv'
        BY Zenon
    <2>1. ~torn
        BY Zenon DEF KNext, kvars, localVars
    <2> QED BY <2>1, KStepKeepsQueue, Zenon
<1>3. KInv => RingSurvivesPreemption
    BY Zenon DEF QueueInv, RingSurvivesPreemption
<1> QED BY <1>1, <1>2, <1>3, PTL DEF KSpec
=============================================================================
