------------------------------ MODULE KPreempt ------------------------------
(***************************************************************************)
(* The process layer with its kernel threads preemptible, as they are: the *)
(* boot thread's reaping loop and init_thread (main.c) call                *)
(* process_try_reap and process_spawn_elf with interrupts enabled, so the  *)
(* timer can switch away between any two of their statements and system    *)
(* calls of user processes run in between.                                 *)
(*                                                                         *)
(* The calls are cut where another thread sees a difference: before and    *)
(* after a process slot is filled in or its space torn down, at every      *)
(* other write to its state, pid and thread, at every use of next_tid and  *)
(* at every link of the ring.  A scan of the process table for a slot, a   *)
(* call of the PMM and the loading of an image count as single steps.      *)
(*                                                                         *)
(* sched_adopt_thread reads next_tid twice.  When a fork comes in between, *)
(* init_thread goes on to fill a slot that is already in the ring for      *)
(* another process and links it a second time.  The ring is then no cycle, *)
(* and pick_next may walk it for ever: the model stops there, at `torn'.   *)
(***************************************************************************)
EXTENDS Process

VARIABLES
    boot_pc,    \* where the boot thread stands in process_try_reap
    boot_slot,  \* its local variable c
    init_slot,  \* init_thread's local p (spawning) or c (reaping)
    init_cr3,   \* init_thread's local cr3 in process_alloc
    init_t,     \* init_thread's local t in sched_adopt_thread
    torn        \* init_thread's insertion and another took one thread slot

localVars == <<boot_pc, boot_slot, init_slot, init_cr3, init_t, torn>>
kvars == <<vars, localVars>>

Idle == "scan"

KInit ==
    /\ Init
    /\ boot_pc = Idle
    /\ boot_slot = NoSlot
    /\ init_slot = NoSlot
    /\ init_cr3 = NoSpace
    /\ init_t = NoThread
    /\ torn = FALSE

BootRuns == scheduler_active /\ current = BootThread

-----------------------------------------------------------------------------
(***************************************************************************)
(* process_destroy of slot c in a kernel thread that stands at `pc': the   *)
(* guard on PROC_UNUSED and process_destroy_user_space, then the two last  *)
(* statements; then it is at `after'.                                      *)
(***************************************************************************)
DestroyStep(c, pc, next, after) ==
    /\ \/ /\ pc = "destroy" /\ pstate[c] = "UNUSED"
          /\ next = after
          /\ UNCHANGED <<pml4s, pcr3, pstate, pid>>
       \/ /\ pc = "destroy" /\ pstate[c] # "UNUSED"
          /\ next = "unuse"
          /\ pml4s' = pml4s \ {pcr3[c]}
          /\ pcr3' = [pcr3 EXCEPT ![c] = NoSpace]
          /\ UNCHANGED <<pstate, pid>>
       \/ /\ pc = "unuse" /\ next = "unpid"
          /\ pstate' = [pstate EXCEPT ![c] = "UNUSED"]
          /\ UNCHANGED <<pml4s, pcr3, pid>>
       \/ /\ pc = "unpid" /\ next = after
          /\ pid' = [pid EXCEPT ![c] = NoPid]
          /\ UNCHANGED <<pml4s, pcr3, pstate>>
    /\ UNCHANGED <<schedVars, ppid, pthread, next_pid, tproc, waitpid>>

\* Finding the zombie: the scan stops at the first one.
BootFind ==
    /\ BootRuns /\ boot_pc = Idle
    /\ ZombiesOf(0, AnyChild) # {}
    /\ boot_slot' = Lowest(ZombiesOf(0, AnyChild))
    /\ boot_pc' = "destroy"
    /\ UNCHANGED <<vars, init_slot, init_cr3, init_t, torn>>

BootStep ==
    /\ BootRuns
    /\ DestroyStep(boot_slot, boot_pc, boot_pc', Idle)
    /\ UNCHANGED <<initVars, boot_slot, init_slot, init_cr3, init_t, torn>>

\* The same call in init_thread, for the pid it spawned.
InitFind ==
    /\ InitRuns /\ init_pc = "reap"
    /\ \/ /\ ZombiesOf(0, init_pid) # {}
          /\ init_slot' = Lowest(ZombiesOf(0, init_pid))
          /\ init_pc' = "destroy"
       \/ /\ ChildrenOf(0, init_pid) = {}
          /\ init_pc' = "exit"
          /\ UNCHANGED init_slot
    /\ UNCHANGED <<schedVars, procVars, init_pid, boot_pc, boot_slot, init_cr3, init_t, torn>>

InitStep ==
    /\ InitRuns
    /\ DestroyStep(init_slot, init_pc, init_pc', "exit")
    /\ UNCHANGED <<init_pid, localVars>>

-----------------------------------------------------------------------------
(***************************************************************************)
(* process_spawn_elf in init_thread.  process_alloc sees a free slot and   *)
(* gets a PML4.                                                            *)
(***************************************************************************)
AllocFind ==
    /\ InitRuns /\ init_pc = "spawn"
    /\ \E cr3 \in Spaces :
          /\ CanAlloc(cr3)
          /\ pml4s' = pml4s \cup {cr3}
          /\ init_cr3' = cr3
    /\ init_slot' = Lowest(FreeSlots)
    /\ init_pc' = "alloc"
    /\ UNCHANGED <<schedVars, pstate, pid, ppid, pthread, pcr3, next_pid, tproc, waitpid>>
    /\ UNCHANGED <<init_pid, boot_pc, boot_slot, init_t, torn>>

\* It fills the slot in: pid, ppid, EMBRYO, the space and no thread.
AllocFill ==
    /\ InitRuns /\ init_pc = "alloc"
    /\ next_pid <= MaxPid
    /\ pid' = [pid EXCEPT ![init_slot] = next_pid]
    /\ next_pid' = next_pid + 1
    /\ ppid' = [ppid EXCEPT ![init_slot] = 0]
    /\ pstate' = [pstate EXCEPT ![init_slot] = "EMBRYO"]
    /\ pcr3' = [pcr3 EXCEPT ![init_slot] = init_cr3]
    /\ pthread' = [pthread EXCEPT ![init_slot] = NoThread]
    /\ init_pc' = "adopt"
    /\ UNCHANGED <<schedVars, tproc, waitpid, pml4s, init_pid, localVars>>

\* No slot or no frame, or a failure after process_alloc, the full thread
\* table included: the process is destroyed again.
SpawnFails ==
    /\ InitRuns
    /\ \/ init_pc = "spawn" /\ init_pc' = "exit"
       \/ init_pc = "adopt" /\ init_pc' = "destroy"
    /\ UNCHANGED <<schedVars, procVars, init_pid, localVars>>

\* sched_adopt_thread: t = &threads[next_tid].
AdoptTake ==
    /\ InitRuns /\ init_pc = "adopt"
    /\ next_tid < MaxThreads
    /\ init_t' = next_tid
    /\ init_pc' = "count"
    /\ UNCHANGED <<schedVars, procVars, init_pid, boot_pc, boot_slot, init_slot, init_cr3, torn>>

\* t->tid = next_tid++, whether next_tid is read again or kept in a register.
AdoptCount ==
    /\ InitRuns /\ init_pc = "count"
    /\ next_tid' \in {next_tid + 1, init_t + 1}
    /\ torn' = (init_t # next_tid)
    /\ init_pc' = "fill"
    /\ UNCHANGED <<tstate, tnext, tcr3, current, scheduler_active, cpu_cr3>>
    /\ UNCHANGED <<procVars, init_pid, boot_pc, boot_slot, init_slot, init_cr3, init_t>>

\* The other fields of the slot, which no other thread looks at yet.
AdoptFill ==
    /\ InitRuns /\ init_pc = "fill"
    /\ tstate' = [tstate EXCEPT ![init_t] = "READY"]
    /\ tcr3' = [tcr3 EXCEPT ![init_t] = pcr3[init_slot]]
    /\ tproc' = [tproc EXCEPT ![init_t] = init_slot]
    /\ init_pc' = "link"
    /\ UNCHANGED <<tnext, current, next_tid, scheduler_active, cpu_cr3>>
    /\ UNCHANGED <<pstate, pid, ppid, pthread, pcr3, next_pid, waitpid, pml4s>>
    /\ UNCHANGED <<init_pid, localVars>>

\* Mutant: the two links are made in the other order.
AdoptLinkSwapped ==
    /\ InitRuns /\ init_pc = "link"
    /\ tnext' = [tnext EXCEPT ![current] = init_t]
    /\ init_pc' = "enter"
    /\ UNCHANGED <<tstate, tcr3, current, next_tid, scheduler_active, cpu_cr3>>
    /\ UNCHANGED <<procVars, init_pid, localVars>>

\* t->next = current->next.
AdoptLink ==
    /\ InitRuns /\ init_pc = "link"
    /\ tnext' = [tnext EXCEPT ![init_t] = tnext[current]]
    /\ init_pc' = "enter"
    /\ UNCHANGED <<tstate, tcr3, current, next_tid, scheduler_active, cpu_cr3>>
    /\ UNCHANGED <<procVars, init_pid, localVars>>

\* current->next = t: the thread may run from here on.
AdoptEnter ==
    /\ InitRuns /\ init_pc = "enter"
    /\ tnext' = [tnext EXCEPT ![current] = init_t]
    /\ init_pc' = "thread"
    /\ UNCHANGED <<tstate, tcr3, current, next_tid, scheduler_active, cpu_cr3>>
    /\ UNCHANGED <<procVars, init_pid, localVars>>

\* p->thread = t; p->state = PROC_READY; return p->pid.
Publish ==
    /\ InitRuns
    /\ \/ /\ init_pc = "thread" /\ init_pc' = "ready"
          /\ pthread' = [pthread EXCEPT ![init_slot] = init_t]
          /\ UNCHANGED <<pstate, init_pid>>
       \/ /\ init_pc = "ready"
          /\ pstate' = [pstate EXCEPT ![init_slot] = "READY"]
          /\ init_pid' = pid[init_slot]
          /\ init_pc' = IF init_pid' < 0 THEN "exit" ELSE "reap"
          /\ UNCHANGED pthread
    /\ UNCHANGED <<schedVars, pid, ppid, pcr3, next_pid, tproc, waitpid, pml4s, localVars>>

-----------------------------------------------------------------------------
(***************************************************************************)
(* Everything that runs with interrupts disabled stays one step.  (execve  *)
(* by a process whose thread field is still NULL would fault in the        *)
(* kernel; it is not followed.)                                            *)
(***************************************************************************)
Uninterrupted ==
    /\ \/ CreateInit \/ BootSpawn \/ Start \/ Tick \/ InitExit
       \/ Fork \/ Exit
       \/ UserCall /\ pthread[Caller] # NoThread /\ Execve
       \/ \E arg \in Pids \cup {AnyChild} : WaitReap(arg) \/ WaitBlock(arg)
    /\ UNCHANGED localVars

PreemptibleReap == BootFind \/ BootStep \/ InitFind \/ InitStep
PreemptibleSpawn ==
    \/ AllocFind \/ AllocFill \/ SpawnFails
    \/ AdoptTake \/ AdoptCount \/ AdoptFill \/ AdoptLink \/ AdoptEnter \/ Publish

\* The kernel as built: both calls preemptible.
KNext == ~torn /\ (Uninterrupted \/ PreemptibleReap \/ PreemptibleSpawn)

KSpec == KInit /\ [][KNext]_kvars

\* Only the reaping preempted, to tell its effects apart from the spawn's.
ReapNext ==
    \/ Uninterrupted
    \/ PreemptibleReap
    \/ InitSpawn /\ UNCHANGED localVars

ReapSpec == KInit /\ [][ReapNext]_kvars

\* Only the spawn preempted, for the same reason.
SpawnNext ==
    \/ ~torn /\ (Uninterrupted \/ PreemptibleSpawn)
    \/ (BootReap \/ InitReap) /\ UNCHANGED localVars

(***************************************************************************)
(* The timer keeps ticking.  The boot thread's reaping is strongly fair: a *)
(* quantum is long enough for an iteration of its loop.  One quantum alone *)
(* may miss a zombie: the scan that it resumes may be past its slot.       *)
(***************************************************************************)
FairSpawnSpec ==
    /\ KInit /\ [][SpawnNext]_kvars
    /\ WF_kvars(Tick /\ UNCHANGED localVars)
    /\ SF_kvars(BootReap /\ UNCHANGED localVars)

-----------------------------------------------------------------------------
Entered == Ring \ (IF init_pc = "enter" THEN {init_t} ELSE {})

QueueIsCycle ==
    /\ current \in Entered
    /\ \A t \in Entered : tnext[t] \in Entered
    /\ \A S \in SUBSET Entered :
          (S # {} /\ \A t \in S : tnext[t] \in S) => S = Entered
    /\ init_pc = "enter" => tnext[init_t] = tnext[InitThread]

(***************************************************************************)
(* Until init_thread and a fork take the same thread slot, the ready queue *)
(* stays one cycle through every thread that has entered it, also while    *)
(* init_thread is preempted between the two links of its insert and other  *)
(* threads insert: each links only behind itself.                          *)
(***************************************************************************)
RingSurvivesPreemption == ~torn => QueueIsCycle

(***************************************************************************)
(* init_thread takes a child already reclaimed by the idle reaper to be    *)
(* "a normal completion": the two reapers may race.  Then a race must not  *)
(* free the address space of a process that has not exited.                *)
(***************************************************************************)
LiveSpaceIsKept ==
    [][\A s \in Slots : pstate[s] \in {"READY", "BLOCKED"}
          => pcr3'[s] # NoSpace]_kvars
=============================================================================
