------------------------------ MODULE Scheduler ------------------------------
(***************************************************************************)
(* The round-robin thread scheduler of kernel/sched/sched.c.               *)
(*                                                                         *)
(* The machine has one CPU.  A switch of thread happens inside sched_tick, *)
(* which runs with interrupts disabled: it is reached from the timer gate  *)
(* (an interrupt gate), from a SYSCALL (whose FMASK clears IF) or from a   *)
(* user fault.  One action below is one such uninterrupted run of kernel   *)
(* code, up to and including the sched_tick that ends it.                  *)
(*                                                                         *)
(* Saved registers (thread_t.rsp and the frames on the kernel stacks) and  *)
(* the stacks themselves are left out: no decision depends on them.        *)
(*                                                                         *)
(* A definition marked Mutant is no part of the model: it is the following *)
(* definition with a mistake in it, and shows that a property can fail.    *)
(***************************************************************************)
EXTENDS Integers, FiniteSets

CONSTANTS
    MaxThreads,   \* MAX_THREADS: the size of the thread table
    Spaces,       \* the frames that can hold a PML4, named by CR3 values
    KernelSpace   \* the PML4 the kernel booted on

ASSUME ThreadTableAssumption == MaxThreads \in Nat /\ MaxThreads >= 2
ASSUME SpacesAssumption == KernelSpace \in Spaces

VARIABLES
    tstate,            \* threads[t].state
    tnext,             \* threads[t].next, the ring link
    tcr3,              \* threads[t].cr3
    current,           \* the thread on the CPU
    next_tid,          \* the first thread slot never handed out
    scheduler_active,  \* set once by sched_start
    cpu_cr3            \* the CR3 register

schedVars ==
    <<tstate, tnext, tcr3, current, next_tid, scheduler_active, cpu_cr3>>

Threads == 0 .. MaxThreads - 1
NoThread == -1
BootThread == 0
IdleThread == 1

ThreadState == {"READY", "RUNNING", "BLOCKED", "EXITED"}

\* The threads linked into the ready queue.  A thread is linked when its
\* creation completes and is never unlinked.
Ring == {t \in Threads : tnext[t] # NoThread}

(***************************************************************************)
(* sched_init: thread 0 is the boot context, thread 1 the idle thread      *)
(* created by the same call.                                               *)
(***************************************************************************)
SchedInit ==
    /\ tstate = [t \in Threads |-> CASE t = BootThread -> "RUNNING"
                                     [] t = IdleThread -> "READY"
                                     [] OTHER -> "EXITED"]
    /\ tnext = [t \in Threads |-> CASE t = BootThread -> IdleThread
                                    [] t = IdleThread -> BootThread
                                    [] OTHER -> NoThread]
    /\ tcr3 = [t \in Threads |-> KernelSpace]
    /\ current = BootThread
    /\ next_tid = 2
    /\ scheduler_active = FALSE
    /\ cpu_cr3 = KernelSpace

\* Mutant: the new thread is linked back to the caller, losing the others.
AdoptCutsRing(cr3) ==
    /\ next_tid < MaxThreads
    /\ tstate' = [tstate EXCEPT ![next_tid] = "READY"]
    /\ tcr3' = [tcr3 EXCEPT ![next_tid] = cr3]
    /\ tnext' = [tnext EXCEPT ![next_tid] = current, ![current] = next_tid]
    /\ next_tid' = next_tid + 1
    /\ UNCHANGED <<current, scheduler_active, cpu_cr3>>

(***************************************************************************)
(* sched_adopt_thread, and sched_create_kthread once its stack is mapped:  *)
(* take the next thread slot and link it into the ring behind the caller.  *)
(***************************************************************************)
Adopt(cr3) ==
    /\ next_tid < MaxThreads
    /\ tstate' = [tstate EXCEPT ![next_tid] = "READY"]
    /\ tcr3' = [tcr3 EXCEPT ![next_tid] = cr3]
    /\ tnext' = [tnext EXCEPT ![next_tid] = tnext[current], ![current] = next_tid]
    /\ next_tid' = next_tid + 1
    /\ UNCHANGED <<current, scheduler_active, cpu_cr3>>

(***************************************************************************)
(* sched_create_kthread whose alloc_kstack fails: the slot is spent and    *)
(* already READY, but is in no ring.                                       *)
(***************************************************************************)
CreateWithoutStack ==
    /\ next_tid < MaxThreads
    /\ tstate' = [tstate EXCEPT ![next_tid] = "READY"]
    /\ tcr3' = [tcr3 EXCEPT ![next_tid] = KernelSpace]
    /\ next_tid' = next_tid + 1
    /\ UNCHANGED <<tnext, current, scheduler_active, cpu_cr3>>

\* Mutant: the walk starts behind the boot thread, not the current one.
FirstReadyFromBoot(st, t) ==
    /\ st[t] = "READY"
    /\ \E passed \in SUBSET {u \in Ring : st[u] # "READY"} :
          /\ tnext[BootThread] \in passed \cup {t}
          /\ \A u \in passed : tnext[u] \in passed \cup {t}

\* Mutant: the walk stops at an EXITED thread as well.
FirstUnblocked(st, t) ==
    /\ st[t] \in {"READY", "EXITED"}
    /\ \E passed \in SUBSET {u \in Ring : st[u] \notin {"READY", "EXITED"}} :
          /\ tnext[current] \in passed \cup {t}
          /\ \A u \in passed : tnext[u] \in passed \cup {t}

(***************************************************************************)
(* pick_next, for the thread states st: walk the ring from the thread      *)
(* behind the current one to the first READY thread.  `passed' is what the *)
(* walk steps over: none of it is READY, and each step of the walk stays   *)
(* in it or arrives at t.  The current thread is the last one looked at.   *)
(***************************************************************************)
FirstReady(st, t) ==
    /\ st[t] = "READY"
    /\ \E passed \in SUBSET {u \in Ring : st[u] # "READY"} :
          /\ tnext[current] \in passed \cup {t}
          /\ \A u \in passed : tnext[u] \in passed \cup {t}

pick_next(st) ==
    IF \E t \in Ring : FirstReady(st, t)
    THEN CHOOSE t \in Ring : FirstReady(st, t)
    ELSE IdleThread

\* Mutant: the outgoing thread is left RUNNING.
SwitchKeepsRunning(st) ==
    LET next == pick_next(st)
    IN  /\ scheduler_active
        /\ tstate' = [st EXCEPT ![next] = "RUNNING"]
        /\ cpu_cr3' = IF tcr3[next] # tcr3[current] THEN tcr3[next] ELSE cpu_cr3
        /\ current' = next
        /\ UNCHANGED <<tnext, tcr3, next_tid, scheduler_active>>

(***************************************************************************)
(* sched_tick, entered with the thread states st: a thread that was still  *)
(* RUNNING goes back to READY, the next one is marked RUNNING, and CR3 is  *)
(* loaded only when the two threads' recorded spaces differ.               *)
(***************************************************************************)
SwitchFrom(st) ==
    LET saved == [st EXCEPT ![current] = IF @ = "RUNNING" THEN "READY" ELSE @]
        next  == pick_next(saved)
    IN  /\ scheduler_active
        /\ tstate' = [saved EXCEPT ![next] = "RUNNING"]
        /\ cpu_cr3' = IF tcr3[next] # tcr3[current] THEN tcr3[next] ELSE cpu_cr3
        /\ current' = next
        /\ UNCHANGED <<tnext, tcr3, next_tid, scheduler_active>>

\* The timer interrupt, SYS_sched_yield, and a kernel thread's sched_yield.
sched_tick == SwitchFrom(tstate)

\* sched_start, called once by kernel_main when the boot spawns are done.
sched_start ==
    /\ ~scheduler_active
    /\ scheduler_active' = TRUE
    /\ UNCHANGED <<tstate, tnext, tcr3, current, next_tid, cpu_cr3>>

\* The current thread blocks in wait4 and switches away.
BlockCurrent ==
    SwitchFrom([tstate EXCEPT ![current] = "BLOCKED"])

\* Mutant: the woken processes' threads stay BLOCKED.
ExitWakesNoThread(woken) ==
    SwitchFrom([tstate EXCEPT ![current] = "EXITED"])

(***************************************************************************)
(* The current thread exits (sched_exit, process_exit_current) and         *)
(* switches away for good, having first made the threads of `woken' READY. *)
(***************************************************************************)
ExitCurrent(woken) ==
    SwitchFrom([t \in Threads |-> IF t = current THEN "EXITED"
                                  ELSE IF t \in woken THEN "READY"
                                  ELSE tstate[t]])

\* execve moves the current thread, and the CPU with it, to a new space.
EnterSpace(cr3) ==
    /\ tcr3' = [tcr3 EXCEPT ![current] = cr3]
    /\ cpu_cr3' = cr3
    /\ UNCHANGED <<tstate, tnext, current, next_tid, scheduler_active>>

-----------------------------------------------------------------------------
(***************************************************************************)
(* What the rest of the kernel may ask of the scheduler.  The boot thread  *)
(* (kernel_main's final loop) and the idle thread never block and never    *)
(* exit; only a thread in wait4 is ever woken.                             *)
(***************************************************************************)
MayStop == current \notin {BootThread, IdleThread}

Blocked == {t \in Threads : tstate[t] = "BLOCKED"}

SchedNext ==
    \/ \E cr3 \in Spaces : Adopt(cr3)
    \/ CreateWithoutStack
    \/ sched_start
    \/ sched_tick
    \/ MayStop /\ BlockCurrent
    \/ \E woken \in SUBSET Blocked : MayStop /\ ExitCurrent(woken)
    \/ \E cr3 \in Spaces : MayStop /\ EnterSpace(cr3)

\* The scheduler as its callers may use it; the process layer asks nothing else.
SchedSpec == SchedInit /\ [][SchedNext]_schedVars

-----------------------------------------------------------------------------
(***************************************************************************)
(* The types of the scheduler's state: the ring links threads of the table *)
(* and the count of slots handed out stays within it (MAX_THREADS).        *)
(***************************************************************************)
SchedTypeOK ==
    /\ tstate \in [Threads -> ThreadState]
    /\ tnext \in [Threads -> Threads \cup {NoThread}]
    /\ tcr3 \in [Threads -> Spaces]
    /\ current \in Threads
    /\ next_tid \in 2 .. MaxThreads
    /\ scheduler_active \in BOOLEAN
    /\ cpu_cr3 \in Spaces

(***************************************************************************)
(* Exactly one thread is RUNNING, and it is the one on the CPU: sched_tick *)
(* never leaves two threads marked RUNNING, nor runs one that blocked or   *)
(* exited, even when a wakeup and an exit share its step.                  *)
(***************************************************************************)
RunningIsCurrent ==
    \A t \in Threads : tstate[t] = "RUNNING" <=> t = current

(***************************************************************************)
(* The ready queue is one cycle through all linked threads: insertion      *)
(* behind whichever thread happens to run never drops a thread from the    *)
(* round, nor splits the ring in two.                                      *)
(***************************************************************************)
RingIsOneCycle ==
    /\ current \in Ring
    /\ \A t \in Ring : tnext[t] \in Ring
    /\ \A S \in SUBSET Ring :
          (S # {} /\ \A t \in S : tnext[t] \in S) => S = Ring

(***************************************************************************)
(* CR3 holds the address space recorded for the running thread.            *)
(* sched_tick compares the recorded values and skips the load when they    *)
(* agree, so a space changed without reloading CR3 would go unnoticed.     *)
(***************************************************************************)
CpuSpaceIsCurrents == cpu_cr3 = tcr3[current]

(***************************************************************************)
(* A thread that has exited is never scheduled or woken again: its user    *)
(* page tables are gone ("this thread must never run again", process.c).   *)
(***************************************************************************)
ExitedStaysExited ==
    [][\A t \in Threads : t < next_tid /\ tstate[t] = "EXITED"
                             => tstate'[t] = "EXITED"]_schedVars
=============================================================================
