------------------------------- MODULE Process -------------------------------
(***************************************************************************)
(* The process table of kernel/proc/process.c on top of the scheduler:     *)
(* boot spawns, fork, execve, exit, wait4, the reaping done by the two     *)
(* kernel threads of main.c, and the page-table roots the processes own.   *)
(*                                                                         *)
(* System calls, faults and timer ticks run with interrupts disabled, and  *)
(* so do the boot spawns; each is one action, sched_tick included.  The    *)
(* kernel threads call process_spawn_elf and process_try_reap with         *)
(* interrupts ENABLED; here each such call is one action as well, and      *)
(* module KPreempt opens them up.                                          *)
(*                                                                         *)
(* Left out: what is loaded into a space (a load or a copy succeeds or     *)
(* fails), exit statuses, descriptors, IPC and service cleanup.            *)
(***************************************************************************)
EXTENDS Scheduler

CONSTANTS
    MaxProcesses,  \* MAX_PROCESSES: the size of proc_table
    MaxPid,        \* bound: no process is created after this pid
    NoSpace        \* the cr3 of a process that has none (0)

ASSUME ProcTableAssumption == MaxProcesses \in Nat /\ MaxProcesses >= 1
ASSUME MaxPidAssumption == MaxPid \in Nat
ASSUME NoSpaceAssumption == NoSpace \notin Spaces

VARIABLES
    pstate,    \* proc_table[s].state
    pid,       \* proc_table[s].pid
    ppid,      \* proc_table[s].ppid
    pthread,   \* proc_table[s].thread, a thread or NoThread
    pcr3,      \* proc_table[s].cr3, a space or NoSpace
    next_pid,  \* the next pid to hand out
    tproc,     \* threads[t].proc, a slot or NoSlot
    waitpid,   \* while s is BLOCKED, the pid argument of its wait4
    pml4s,     \* the frames in use as PML4s, as the PMM's bitmap has them
    init_pc,   \* where init_thread stands
    init_pid   \* its local variable: the pid it spawned

procVars == <<pstate, pid, ppid, pthread, pcr3, next_pid, tproc, waitpid, pml4s>>
initVars == <<init_pc, init_pid>>
vars == <<schedVars, procVars, initVars>>

Slots == 0 .. MaxProcesses - 1
KernelSlot == 0
NoSlot == -1
NoPid == -1
AnyChild == -1
InitThread == 2   \* kernel_main creates it first, so it takes this slot

ProcState == {"UNUSED", "EMBRYO", "READY", "RUNNING", "BLOCKED", "ZOMBIE"}

Lowest(S) == CHOOSE x \in S : \A y \in S : x <= y

-----------------------------------------------------------------------------
UsedSlots == {s \in Slots : pstate[s] # "UNUSED"}
FreeSlots == Slots \ UsedSlots

\* process_get: the first slot in use with this pid.
process_get(n) ==
    LET hits == {s \in UsedSlots : pid[s] = n}
    IN  IF hits = {} THEN NoSlot ELSE Lowest(hits)

\* process_current, when it is a user process (not pid 0, not a raw kthread).
Caller == tproc[current]
UserCall == scheduler_active /\ Caller \notin {NoSlot, KernelSlot}

\* What process_try_reap(parent, arg) scans, and where it stops.
ChildrenOf(parent, arg) ==
    {c \in UsedSlots : ppid[c] = parent /\ (arg # AnyChild => pid[c] = arg)}
ZombiesOf(parent, arg) ==
    {c \in ChildrenOf(parent, arg) : pstate[c] = "ZOMBIE"}

-----------------------------------------------------------------------------
(***************************************************************************)
(* sched_init then process_init: pid 0 is the kernel, on the boot thread.  *)
(***************************************************************************)
Init ==
    /\ SchedInit
    /\ pstate = [s \in Slots |-> IF s = KernelSlot THEN "RUNNING" ELSE "UNUSED"]
    /\ pid = [s \in Slots |-> IF s = KernelSlot THEN 0 ELSE NoPid]
    /\ ppid = [s \in Slots |-> NoPid]
    /\ pthread = [s \in Slots |-> IF s = KernelSlot THEN BootThread ELSE NoThread]
    /\ pcr3 = [s \in Slots |-> IF s = KernelSlot THEN KernelSpace ELSE NoSpace]
    /\ next_pid = 1
    /\ tproc = [t \in Threads |-> IF t = BootThread THEN KernelSlot ELSE NoSlot]
    /\ waitpid = [s \in Slots |-> AnyChild]
    /\ pml4s = {KernelSpace}
    /\ init_pc = "uncreated"
    /\ init_pid = NoPid

(***************************************************************************)
(* process_alloc: the first free slot, a fresh PML4 and the next pid.  It  *)
(* can fail for want of a slot or of a frame, and then changes nothing.    *)
(***************************************************************************)
CanAlloc(cr3) ==
    /\ FreeSlots # {}
    /\ cr3 \in Spaces \ pml4s
    /\ next_pid <= MaxPid

(***************************************************************************)
(* process_spawn_elf / process_spawn_user / the second half of fork when   *)
(* every step succeeds: the process ends READY with its thread enqueued.   *)
(***************************************************************************)
SpawnOk(parent) ==
    \E cr3 \in Spaces :
        LET s == Lowest(FreeSlots)
        IN  /\ CanAlloc(cr3)
            /\ Adopt(cr3)
            /\ pstate' = [pstate EXCEPT ![s] = "READY"]
            /\ pid' = [pid EXCEPT ![s] = next_pid]
            /\ ppid' = [ppid EXCEPT ![s] = parent]
            /\ pthread' = [pthread EXCEPT ![s] = next_tid]
            /\ pcr3' = [pcr3 EXCEPT ![s] = cr3]
            /\ tproc' = [tproc EXCEPT ![next_tid] = s]
            /\ pml4s' = pml4s \cup {cr3}
            /\ next_pid' = next_pid + 1
            /\ UNCHANGED waitpid

(***************************************************************************)
(* The same when something fails after process_alloc (a page, the kernel   *)
(* stack, the thread table): process_destroy gives slot and space back,    *)
(* the pid stays spent and ppid keeps a stale value.                       *)
(***************************************************************************)
SpawnAbort(parent) ==
    /\ \E cr3 \in Spaces : CanAlloc(cr3)
    /\ LET s == Lowest(FreeSlots)
       IN  /\ ppid' = [ppid EXCEPT ![s] = parent]
           /\ pthread' = [pthread EXCEPT ![s] = NoThread]
           /\ pcr3' = [pcr3 EXCEPT ![s] = NoSpace]
    /\ next_pid' = next_pid + 1
    /\ UNCHANGED <<schedVars, pstate, pid, tproc, waitpid, pml4s>>

\* Mutant: the page-table root is not returned.
DestroyLeaks(c) ==
    /\ pstate' = [pstate EXCEPT ![c] = "UNUSED"]
    /\ pid' = [pid EXCEPT ![c] = NoPid]
    /\ pcr3' = [pcr3 EXCEPT ![c] = NoSpace]
    /\ UNCHANGED <<schedVars, ppid, pthread, next_pid, tproc, waitpid, pml4s>>

(***************************************************************************)
(* process_destroy of the zombie c: its PML4 goes back to the PMM, its     *)
(* slot is free.  ppid and thread keep their stale values.                 *)
(***************************************************************************)
Destroy(c) ==
    /\ pstate' = [pstate EXCEPT ![c] = "UNUSED"]
    /\ pid' = [pid EXCEPT ![c] = NoPid]
    /\ pcr3' = [pcr3 EXCEPT ![c] = NoSpace]
    /\ pml4s' = pml4s \ {pcr3[c]}
    /\ UNCHANGED <<schedVars, ppid, pthread, next_pid, tproc, waitpid>>

-----------------------------------------------------------------------------
(***************************************************************************)
(* kernel_main up to sched_start, with interrupts off: create init_thread  *)
(* (its stack may be refused), then spawn the boot images one by one.      *)
(***************************************************************************)
CreateInit ==
    /\ init_pc = "uncreated"
    /\ \/ Adopt(KernelSpace) /\ init_pc' = "spawn"
       \/ CreateWithoutStack /\ init_pc' = "absent"
    /\ UNCHANGED <<procVars, init_pid>>

BootSpawn ==
    /\ ~scheduler_active /\ init_pc # "uncreated"
    /\ SpawnOk(0) \/ SpawnAbort(0)
    /\ UNCHANGED initVars

Start ==
    /\ init_pc # "uncreated"
    /\ sched_start
    /\ UNCHANGED <<procVars, initVars>>

\* Timer interrupt or yield, in any thread.
Tick == sched_tick /\ UNCHANGED <<procVars, initVars>>

\* kernel_main's last loop: the boot thread reaps the children of pid 0.
BootReap ==
    /\ scheduler_active /\ current = BootThread
    /\ ZombiesOf(0, AnyChild) # {}
    /\ Destroy(Lowest(ZombiesOf(0, AnyChild)))
    /\ UNCHANGED initVars

(***************************************************************************)
(* init_thread: spawn the init process, then reap it, yielding (Tick) as   *)
(* long as it runs.  Whoever reaped it, the thread then returns and exits. *)
(***************************************************************************)
InitRuns == scheduler_active /\ current = InitThread

InitSpawn ==
    /\ InitRuns /\ init_pc = "spawn"
    /\ \/ /\ SpawnOk(0)
          /\ init_pid' = next_pid
          /\ init_pc' = "reap"
       \/ /\ SpawnAbort(0) \/ UNCHANGED <<schedVars, procVars>>
          /\ init_pc' = "exit"
          /\ UNCHANGED init_pid

InitReap ==
    /\ InitRuns /\ init_pc = "reap"
    /\ \/ /\ ZombiesOf(0, init_pid) # {}
          /\ Destroy(Lowest(ZombiesOf(0, init_pid)))
       \/ /\ ChildrenOf(0, init_pid) = {}
          /\ UNCHANGED <<schedVars, procVars>>
    /\ init_pc' = "exit"
    /\ UNCHANGED init_pid

InitExit ==
    /\ InitRuns /\ init_pc = "exit"
    /\ ExitCurrent({})
    /\ init_pc' = "gone"
    /\ UNCHANGED <<procVars, init_pid>>

-----------------------------------------------------------------------------
\* process_fork_current.
Fork ==
    /\ UserCall
    /\ pstate[Caller] \notin {"ZOMBIE", "BLOCKED"}
    /\ SpawnOk(pid[Caller]) \/ SpawnAbort(pid[Caller])
    /\ UNCHANGED initVars

\* Mutant: CR3 is left to the next switch.
SwapSpaceLater(cr3) ==
    /\ pml4s' = (pml4s \cup {cr3}) \ {pcr3[Caller]}
    /\ pcr3' = [pcr3 EXCEPT ![Caller] = cr3]
    /\ tcr3' = [tcr3 EXCEPT ![pthread[Caller]] = cr3]
    /\ UNCHANGED cpu_cr3

\* execve's swap: the old space is freed, the new one is installed in the
\* process, in its thread and in CR3.
SwapSpace(cr3) ==
    /\ pml4s' = (pml4s \cup {cr3}) \ {pcr3[Caller]}
    /\ pcr3' = [pcr3 EXCEPT ![Caller] = cr3]
    /\ tcr3' = [tcr3 EXCEPT ![pthread[Caller]] = cr3]
    /\ cpu_cr3' = cr3

(***************************************************************************)
(* process_execve_current when the new image loads: the space built on the *)
(* side replaces the old one, in the table, in the thread and in CR3.  On  *)
(* any failure the scratch space is freed and nothing has changed.         *)
(***************************************************************************)
Execve ==
    /\ UserCall
    /\ pstate[Caller] # "ZOMBIE"
    /\ \E cr3 \in Spaces \ pml4s : SwapSpace(cr3)
    /\ UNCHANGED <<tstate, tnext, current, next_tid, scheduler_active>>
    /\ UNCHANGED <<pstate, pid, ppid, pthread, next_pid, tproc, waitpid, initVars>>

\* Mutant: the children keep the parent that is gone.
ReparentNone(p) == ppid

\* Mutant: orphans go straight to the kernel.
ReparentToKernel(p) ==
    [c \in Slots |-> IF c \in UsedSlots /\ ppid[c] = pid[p] THEN 0 ELSE ppid[c]]

\* exit hands every child of p, dead or alive, to p's parent.
Reparent(p) ==
    [c \in Slots |->
        IF c \in UsedSlots /\ ppid[c] = pid[p] THEN ppid[p] ELSE ppid[c]]

\* Mutant: exit forgets that the parent may be waiting.
WokenByNobody(p) == {}

\* The processes p's exit wakes: its parent, if blocked, whatever child the
\* parent waits for.
WokenBy(p) == {q \in {process_get(ppid[p])} : q # NoSlot /\ pstate[q] = "BLOCKED"}

(***************************************************************************)
(* process_exit_current (SYS_exit, or a fault taken in user mode): become  *)
(* a zombie, hand every child to the parent, wake the parent if it is      *)
(* blocked, and switch away for good.  The PML4 stays until the reap.      *)
(***************************************************************************)
Exit ==
    LET p     == Caller
        woken == WokenBy(p)
    IN  /\ UserCall
        /\ ppid' = Reparent(p)
        /\ pstate' = [s \in Slots |-> IF s = p THEN "ZOMBIE"
                                      ELSE IF s \in woken THEN "READY"
                                      ELSE pstate[s]]
        /\ waitpid' = [s \in Slots |-> IF s \in woken THEN AnyChild ELSE waitpid[s]]
        /\ ExitCurrent({pthread[s] : s \in woken})
        /\ UNCHANGED <<pid, pthread, pcr3, next_pid, tproc, pml4s, initVars>>

(***************************************************************************)
(* process_wait_current(arg).  With a matching zombie the caller reaps it; *)
(* with a matching child still alive it blocks (and, once woken, returns 0 *)
(* to a caller that is expected to call again); with none it returns       *)
(* -VE_CHILD and nothing changes.  The branch that undoes the block when   *)
(* sched_tick declines to switch is dead: the scheduler is active whenever *)
(* user code runs, and a BLOCKED thread is not picked.                     *)
(***************************************************************************)
WaitReap(arg) ==
    /\ UserCall
    /\ ZombiesOf(pid[Caller], arg) # {}
    /\ Destroy(Lowest(ZombiesOf(pid[Caller], arg)))
    /\ UNCHANGED initVars

WaitBlock(arg) ==
    /\ UserCall
    /\ ChildrenOf(pid[Caller], arg) # {}
    /\ ZombiesOf(pid[Caller], arg) = {}
    /\ pstate' = [pstate EXCEPT ![Caller] = "BLOCKED"]
    /\ waitpid' = [waitpid EXCEPT ![Caller] = arg]
    /\ BlockCurrent
    /\ UNCHANGED <<pid, ppid, pthread, pcr3, next_pid, tproc, pml4s, initVars>>

Pids == 0 .. MaxPid

Next ==
    \/ CreateInit
    \/ BootSpawn
    \/ Start
    \/ Tick
    \/ BootReap
    \/ InitSpawn
    \/ InitReap
    \/ InitExit
    \/ Fork
    \/ Execve
    \/ Exit
    \/ \E arg \in Pids \cup {AnyChild} : WaitReap(arg) \/ WaitBlock(arg)

Spec == Init /\ [][Next]_vars

\* The timer interrupt keeps arriving (lapic_init programs it periodic).
FairSpec == Spec /\ WF_vars(Tick)

-----------------------------------------------------------------------------
\* The types of the process layer's state (and of the scheduler's).
TypeOK ==
    /\ SchedTypeOK
    /\ pstate \in [Slots -> ProcState]
    /\ pid \in [Slots -> Pids \cup {NoPid}]
    /\ ppid \in [Slots -> Pids \cup {NoPid}]
    /\ pthread \in [Slots -> Threads \cup {NoThread}]
    /\ pcr3 \in [Slots -> Spaces \cup {NoSpace}]
    /\ next_pid \in 1 .. MaxPid + 1
    /\ tproc \in [Threads -> Slots \cup {NoSlot}]
    /\ waitpid \in [Slots -> Pids \cup {AnyChild}]
    /\ pml4s \in SUBSET Spaces
    /\ init_pc \in {"uncreated", "absent", "spawn", "reap", "exit", "gone"}
    /\ init_pid \in Pids \cup {NoPid}

(***************************************************************************)
(* Every process but pid 0 has a parent that is in the table, has not      *)
(* exited and is older.  So the chain of parents ends at pid 0, and "no    *)
(* zombie ever becomes unreachable by a reaper" (process_exit_current's    *)
(* reparenting), across any order of forks, exits and reaps.               *)
(***************************************************************************)
ParentIsAlive ==
    \A s \in UsedSlots \ {KernelSlot} :
        \E q \in UsedSlots :
            pid[q] = ppid[s] /\ pstate[q] # "ZOMBIE" /\ pid[q] < pid[s]

(***************************************************************************)
(* No lost wakeup: while a process is blocked in wait4, some child it      *)
(* waits for has yet to exit and none that it waits for is a zombie, so    *)
(* the exit that will wake it is still to come.                            *)
(***************************************************************************)
NoLostWakeup ==
    \A s \in UsedSlots : pstate[s] = "BLOCKED" =>
        /\ ChildrenOf(pid[s], waitpid[s]) # {}
        /\ ZombiesOf(pid[s], waitpid[s]) = {}

ThreadState4(st) ==
    CASE st = "BLOCKED" -> {"BLOCKED"}
      [] st = "ZOMBIE"  -> {"EXITED"}
      [] OTHER          -> {"READY", "RUNNING"}

(***************************************************************************)
(* A process and its thread agree: the thread of a live process is ready   *)
(* or running, that of a blocked one is blocked, that of a zombie has      *)
(* exited; and a thread that can still run belongs to the process that     *)
(* names it, never to a slot since freed or reused.                        *)
(***************************************************************************)
ThreadsMatchProcesses ==
    /\ \A s \in UsedSlots : /\ pthread[s] # NoThread
                            /\ tproc[pthread[s]] = s
                            /\ tstate[pthread[s]] \in ThreadState4(pstate[s])
    /\ \A t \in Threads : (tproc[t] # NoSlot /\ tstate[t] # "EXITED")
                             => tproc[t] \in UsedSlots /\ pthread[tproc[t]] = t

(***************************************************************************)
(* Page-table roots are neither leaked nor shared: the frames in use are   *)
(* exactly the kernel's PML4 and one per process in the table, through     *)
(* fork and exec failures, exec's swap and the late free at the reap.      *)
(***************************************************************************)
SpacesAreOwned ==
    /\ pml4s = {KernelSpace} \cup {pcr3[s] : s \in UsedSlots}
    /\ \A s, q \in UsedSlots : pcr3[s] = pcr3[q] => s = q

(***************************************************************************)
(* The CPU never runs on a freed PML4, and no thread that may still be     *)
(* switched to has one recorded: not after an exit, whose space a reaper   *)
(* frees later, nor after an exec, which frees the space it runs on.       *)
(***************************************************************************)
NoFreedSpaceRuns ==
    /\ cpu_cr3 \in pml4s
    /\ \A t \in Ring : tstate[t] # "EXITED" => tcr3[t] \in pml4s

(***************************************************************************)
(* Round robin starves nobody: no thread of the ring stays READY for ever, *)
(* however many threads are inserted ahead of it behind the running one.   *)
(* (Only by being run does a thread leave READY.)                          *)
(***************************************************************************)
ReadyRuns ==
    \A t \in Threads : []<>~(scheduler_active /\ t \in Ring /\ tstate[t] = "READY")

(***************************************************************************)
(* A zombie whose parent is pid 0, by birth or by adoption, is reaped by   *)
(* the boot thread (or, init's own child, by init_thread): "reap them      *)
(* here, cheaply, whenever one exits" (kernel_main's idle loop).           *)
(***************************************************************************)
OrphansAreReaped ==
    \A s \in Slots, n \in Pids :
        (pstate[s] = "ZOMBIE" /\ ppid[s] = 0 /\ pid[s] = n) ~> (pid[s] # n)

=============================================================================
