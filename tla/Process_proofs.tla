--------------------------- MODULE Process_proofs ---------------------------
(***************************************************************************)
(* Proofs of the safety properties of module Process, for any sizes of the *)
(* thread and process tables and any set of address spaces.  First the     *)
(* steps that switch threads: timer ticks, kernel threads coming and       *)
(* going, execve, exit and wait4; then the reaps, and the properties       *)
(* themselves.  Then that the table implements the tree of Lifecycle.      *)
(***************************************************************************)
EXTENDS ProcessTable_proofs, ProcessLifecycle

(***************************************************************************)
(* A switch keeps threads and processes in agreement, if the thread states *)
(* it starts from agree with the process states it ends with.              *)
(***************************************************************************)
LEMMA SwitchKeepsThreads ==
    ASSUME ProcInv, AfterCreateInit, AfterCreateInit',
           NEW st \in [Threads -> ThreadState],
           \A t \in Threads \ {current} :
               \/ st[t] = tstate[t]
               \/ tstate[t] = "BLOCKED" /\ st[t] = "READY",
           current = IdleThread => st[current] = "RUNNING",
           SwitchFrom(st),
           UNCHANGED <<pthread, pcr3, tproc>>,
           UsedSlots' = UsedSlots,
           \A u \in UsedSlots : st[pthread[u]] \in ThreadState4(pstate'[u])
    PROVE  SchedInv' /\ ThreadsMatchProcesses' /\ ThreadSpaces' /\ KernelThreads'
<1>1. /\ SchedInv'
      /\ \A t \in Threads :
            /\ st[t] \in {"BLOCKED", "EXITED"} => tstate'[t] = st[t]
            /\ st[t] \in {"READY", "RUNNING"} => tstate'[t] \in {"READY", "RUNNING"}
    BY SwitchKeepsInv DEF ProcInv
<1>2. UNCHANGED <<tcr3, next_tid, scheduler_active>>
    BY DEF SwitchFrom
<1>3. tstate[current] = "RUNNING" /\ current \in Threads
    BY DEF ProcInv, SchedInv, SchedTypeOK, RunningIsCurrent
<1>4. \A t \in Threads : tstate'[t] # "EXITED" => tstate[t] # "EXITED"
    BY <1>1, <1>3
<1>5. \A u \in UsedSlots : pthread[u] \in Threads
    BY SMTT(30) DEF ProcInv, ThreadsMatchProcesses, TypeOK, UsedSlots
<1>6. ASSUME NEW u \in UsedSlots
      PROVE  tstate'[pthread[u]] \in ThreadState4(pstate'[u])
    BY <1>1, <1>5 DEF ThreadState4
<1>7. ThreadsMatchProcesses'
    BY <1>4, <1>6 DEF ProcInv, ThreadsMatchProcesses
<1>8. ThreadSpaces'
    BY <1>2, <1>4 DEF ProcInv, ThreadSpaces
<1>9. KernelThreads'
    BY <1>2 DEF ProcInv, KernelThreads, AfterCreateInit
<1> QED BY <1>1, <1>7, <1>8, <1>9

\* What a step that leaves the process table alone cannot disturb.
LEMMA TableUnchanged ==
    ASSUME ProcInv, SchedInv', UNCHANGED procVars,
           init_pc' \in {"uncreated", "absent", "spawn", "reap", "exit", "gone"},
           init_pid' = init_pid,
           ThreadsMatchProcesses', ThreadSpaces', KernelThreads'
    PROVE  ProcInv'
<1> USE DEF procVars
<1>1. UsedSlots' = UsedSlots
    BY DEF UsedSlots
<1>2. TypeOK'
    BY DEF ProcInv, TypeOK, SchedInv
<1>3. KernelProcess' /\ PidsAreUnique' /\ SettledStates' /\ ParentIsAlive' /\ SpacesAreOwned'
    BY <1>1, SMTT(30) DEF ProcInv, KernelProcess, PidsAreUnique, SettledStates, ParentIsAlive,
                SpacesAreOwned
<1>4. NoLostWakeup'
    BY <1>1, SMTT(30) DEF ProcInv, NoLostWakeup, ChildrenOf, ZombiesOf
<1> QED BY <1>2, <1>3, <1>4 DEF ProcInv

\* kernel_main's creation of init_thread keeps the invariant.
LEMMA CreateInitKeepsInv ==
    ASSUME ProcInv, SchedInv', CreateInit
    PROVE  ProcInv'
<1>1. /\ next_tid = InitThread /\ next_tid \in Threads
      /\ next_tid' = next_tid + 1
      /\ \A t \in Threads \ {next_tid} : tstate'[t] = tstate[t] /\ tcr3'[t] = tcr3[t]
      /\ tstate'[next_tid] = "READY" /\ tcr3'[next_tid] = KernelSpace
      /\ scheduler_active' = scheduler_active
    BY ThreadTableAssumption
    DEF CreateInit, Adopt, CreateWithoutStack, ProcInv, KernelThreads, SchedInv,
        SchedTypeOK, Threads, InitThread
<1>2. UNCHANGED procVars /\ init_pid' = init_pid /\ init_pc' \in {"spawn", "absent"}
    BY DEF CreateInit
<1>3. tproc[next_tid] = NoSlot
    BY <1>1 DEF ProcInv, KernelThreads
<1>4. KernelThreads'
    BY <1>1, <1>2, SMTT(30) DEF ProcInv, KernelThreads, procVars, Threads, InitThread
<1>5. ThreadSpaces'
    BY <1>1, <1>2, <1>3 DEF ProcInv, ThreadSpaces, procVars
<1>6. \A u \in UsedSlots : pthread[u] \in Threads \ {next_tid}
    <2> TAKE u \in UsedSlots
    <2>1. u \in Slots /\ pthread[u] # NoThread /\ tproc[pthread[u]] = u
        BY DEF ProcInv, ThreadsMatchProcesses, UsedSlots
    <2>2. pthread[u] \in Threads
        BY <2>1 DEF ProcInv, TypeOK
    <2> QED BY <1>3, <2>1, <2>2, FixedSlots
<1>7. ThreadsMatchProcesses'
    BY <1>1, <1>2, <1>3, <1>6 DEF ProcInv, ThreadsMatchProcesses, procVars, UsedSlots
<1> QED BY <1>2, <1>4, <1>5, <1>7, TableUnchanged

\* sched_start keeps the invariant: it only sets scheduler_active.
LEMMA StartKeepsInv ==
    ASSUME ProcInv, SchedInv', Start
    PROVE  ProcInv'
<1>1. /\ UNCHANGED <<tstate, tcr3, next_tid, procVars, initVars>>
      /\ init_pc # "uncreated"
    BY DEF Start, sched_start
<1>2. KernelThreads' /\ ThreadSpaces' /\ ThreadsMatchProcesses'
    BY <1>1 DEF ProcInv, KernelThreads, ThreadSpaces, ThreadsMatchProcesses, procVars,
                initVars, UsedSlots
<1>3. /\ init_pc' \in {"uncreated", "absent", "spawn", "reap", "exit", "gone"}
      /\ init_pid' = init_pid
    BY <1>1 DEF ProcInv, TypeOK, initVars
<1> QED BY <1>1, <1>2, <1>3, TableUnchanged

\* A timer tick keeps the invariant: READY and RUNNING threads change
\* places, nothing else.
LEMMA TickKeepsInv ==
    ASSUME ProcInv, Tick
    PROVE  ProcInv'
<1>1. SwitchFrom(tstate) /\ UNCHANGED <<procVars, initVars>>
    BY DEF Tick, sched_tick
<1>2. AfterCreateInit /\ AfterCreateInit'
    BY <1>1 DEF SwitchFrom, ProcInv, KernelThreads, TypeOK, AfterCreateInit, initVars
<1>3. /\ tstate \in [Threads -> ThreadState]
      /\ tstate[current] = "RUNNING"
    BY Zenon DEF ProcInv, SchedInv, SchedTypeOK, RunningIsCurrent
<1>4. \A u \in UsedSlots : tstate[pthread[u]] \in ThreadState4(pstate'[u])
    BY <1>1 DEF ProcInv, ThreadsMatchProcesses, procVars
<1>5. UNCHANGED <<pthread, pcr3, tproc>> /\ UsedSlots' = UsedSlots
    BY <1>1 DEF procVars, UsedSlots
<1>6. SchedInv' /\ ThreadsMatchProcesses' /\ ThreadSpaces' /\ KernelThreads'
    BY <1>1, <1>2, <1>3, <1>4, <1>5, SwitchKeepsThreads
<1> QED BY <1>1, <1>2, <1>6, TableUnchanged DEF AfterCreateInit, initVars

\* init_thread's exit keeps the invariant: it belongs to no process.
LEMMA InitExitKeepsInv ==
    ASSUME ProcInv, InitExit
    PROVE  ProcInv'
<1> DEFINE st == [t \in Threads |-> IF t = current THEN "EXITED"
                                    ELSE IF t \in {} THEN "READY" ELSE tstate[t]]
<1>1. /\ SwitchFrom(st) /\ UNCHANGED <<procVars, init_pid>>
      /\ current = InitThread
      /\ init_pc = "exit" /\ init_pc' = "gone"
    BY DEF InitExit, ExitCurrent, InitRuns
<1>2. AfterCreateInit /\ AfterCreateInit'
    BY <1>1 DEF ProcInv, TypeOK, AfterCreateInit
<1>3. /\ tstate \in [Threads -> ThreadState]
      /\ current \in Threads
    BY DEF ProcInv, SchedInv, SchedTypeOK
<1>4. /\ st \in [Threads -> ThreadState]
      /\ \A t \in Threads \ {current} : st[t] = tstate[t]
    BY <1>3 DEF ThreadState
<1> HIDE DEF st
<1>5. current # IdleThread
    BY <1>1 DEF InitThread, IdleThread
<1>6. tproc[current] = NoSlot
    BY <1>1, <1>3 DEF ProcInv, KernelThreads
<1>7. \A u \in UsedSlots : pthread[u] \in Threads \ {current}
    <2> TAKE u \in UsedSlots
    <2>1. u \in Slots /\ pthread[u] # NoThread /\ tproc[pthread[u]] = u
        BY DEF ProcInv, ThreadsMatchProcesses, UsedSlots
    <2>2. pthread[u] \in Threads
        BY <2>1 DEF ProcInv, TypeOK
    <2> QED BY <1>6, <2>1, <2>2, FixedSlots, Zenon
<1>8. \A u \in UsedSlots : st[pthread[u]] \in ThreadState4(pstate'[u])
    BY <1>1, <1>4, <1>7 DEF ProcInv, ThreadsMatchProcesses, procVars
<1>9. UNCHANGED <<pthread, pcr3, tproc>> /\ UsedSlots' = UsedSlots
    BY <1>1 DEF procVars, UsedSlots
<1>10. SchedInv' /\ ThreadsMatchProcesses' /\ ThreadSpaces' /\ KernelThreads'
    BY <1>1, <1>2, <1>4, <1>5, <1>8, <1>9, SwitchKeepsThreads
<1> QED BY <1>1, <1>10, TableUnchanged

(***************************************************************************)
(* execve: a fresh space takes the place of the caller's everywhere.       *)
(***************************************************************************)
LEMMA ExecveKeepsInv ==
    ASSUME ProcInv, SchedInv', Execve
    PROVE  ProcInv'
<1> DEFINE p == Caller
<1>1. PICK cr3 \in Spaces \ pml4s : SwapSpace(cr3)
    BY Zenon DEF Execve
<1>2. /\ p \in UsedSlots /\ p \in Slots /\ p # KernelSlot
      /\ pthread[p] = current /\ tproc[current] = p /\ current \in Threads
      /\ init_pc # "uncreated"
    BY CallerFacts, Zenon DEF Execve
<1>3. /\ pml4s' = (pml4s \cup {cr3}) \ {pcr3[p]}
      /\ pcr3' = [pcr3 EXCEPT ![p] = cr3]
      /\ tcr3' = [tcr3 EXCEPT ![current] = cr3]
      /\ UNCHANGED <<tstate, tnext, current, next_tid, scheduler_active>>
      /\ UNCHANGED <<pstate, pid, ppid, pthread, next_pid, tproc, waitpid, initVars>>
    BY <1>1, <1>2 DEF Execve, SwapSpace
<1> HIDE DEF p
<1>t. TypeOK /\ SchedTypeOK /\ UsedSlots \subseteq Slots /\ UsedSlots' = UsedSlots
    BY <1>3, Zenon DEF ProcInv, SchedInv, UsedSlots
<1>4. /\ pcr3'[p] = cr3 /\ tcr3'[current] = cr3
      /\ \A u \in Slots \ {p} : pcr3'[u] = pcr3[u]
      /\ \A t \in Threads \ {current} : tcr3'[t] = tcr3[t]
    BY <1>2, <1>3, <1>t DEF TypeOK, SchedTypeOK
<1>5. TypeOK'
    BY <1>1, <1>3, <1>t, ZenonT(30) DEF TypeOK, SchedInv, initVars
<1>6. KernelProcess' /\ PidsAreUnique' /\ SettledStates' /\ ParentIsAlive'
    BY <1>2, <1>3, <1>4, <1>t, FixedSlots, SMTT(30), Z3T(30)
    DEF ProcInv, KernelProcess, PidsAreUnique, SettledStates, ParentIsAlive
<1>7. KernelThreads' /\ ThreadsMatchProcesses'
    BY <1>3, <1>t, Zenon DEF ProcInv, KernelThreads, ThreadsMatchProcesses, initVars
<1>8. NoLostWakeup'
    BY <1>3, <1>t, SMTT(30) DEF ProcInv, NoLostWakeup, ChildrenOf, ZombiesOf
<1>9. ThreadSpaces'
    <2> SUFFICES ASSUME NEW t \in Threads, tstate'[t] # "EXITED"
                 PROVE  tcr3'[t] = IF tproc'[t] = NoSlot THEN KernelSpace
                                   ELSE pcr3'[tproc'[t]]
        BY DEF ThreadSpaces
    <2>0. tstate' = tstate /\ tproc' = tproc
        BY <1>3
    <2>1. CASE t = current
        BY <1>2, <1>4, <2>0, <2>1, FixedSlots
    <2>2. CASE t # current
        <3>1. tproc[t] # p
            BY <1>2, <2>0, <2>2, FixedSlots DEF ProcInv, ThreadsMatchProcesses
        <3>2. tproc[t] \in Slots \cup {NoSlot}
            BY <1>t DEF TypeOK
        <3>3. tcr3[t] = IF tproc[t] = NoSlot THEN KernelSpace ELSE pcr3[tproc[t]]
            BY <2>0 DEF ProcInv, ThreadSpaces
        <3> QED BY <1>4, <2>0, <2>2, <3>1, <3>2, <3>3, Zenon
    <2> QED BY <2>1, <2>2
<1>10. SpacesAreOwned'
    <2>1. \A u \in UsedSlots \ {p} : pcr3'[u] = pcr3[u] /\ pcr3[u] # pcr3[p] /\ pcr3[u] # cr3
        BY <1>1, <1>2, <1>4, <1>t, SMTT(30) DEF ProcInv, SpacesAreOwned
    <2>2. KernelSpace # pcr3[p] /\ KernelSpace # cr3 /\ cr3 # pcr3[p]
        BY <1>1, <1>2, FixedSlots, Zenon DEF ProcInv, KernelProcess, SpacesAreOwned, UsedSlots
    <2>3. pml4s' = {KernelSpace} \cup {pcr3'[u] : u \in UsedSlots'}
        BY <1>2, <1>3, <1>4, <1>t, <2>1, <2>2, SMTT(30) DEF ProcInv, SpacesAreOwned
    <2>4. \A u, v \in UsedSlots' : pcr3'[u] = pcr3'[v] => u = v
        BY <1>4, <1>t, <2>1 DEF ProcInv, SpacesAreOwned
    <2> QED BY <2>3, <2>4, Zenon DEF SpacesAreOwned
<1> QED BY <1>5, <1>6, <1>7, <1>8, <1>9, <1>10 DEF ProcInv

(***************************************************************************)
(* exit: the children go to the caller's parent, which is alive and older  *)
(* than both; a process that stays blocked is not that parent, so what it  *)
(* waits for is as before.                                                 *)
(***************************************************************************)
LEMMA ExitKeepsInv ==
    ASSUME ProcInv, Exit
    PROVE  ProcInv'
<1> DEFINE p == Caller
           woken == WokenBy(p)
           st == [t \in Threads |-> IF t = current THEN "EXITED"
                                    ELSE IF t \in {pthread[s] : s \in woken} THEN "READY"
                                    ELSE tstate[t]]
<1>1. /\ p \in UsedSlots /\ p \in Slots /\ p # KernelSlot
      /\ pthread[p] = current /\ tproc[current] = p /\ current \in Threads
      /\ current # IdleThread
      /\ init_pc # "uncreated"
    BY CallerFacts DEF Exit
<1>2. /\ ppid' = [c \in Slots |-> IF c \in UsedSlots /\ ppid[c] = pid[p]
                                   THEN ppid[p] ELSE ppid[c]]
      /\ pstate' = [s \in Slots |-> IF s = p THEN "ZOMBIE"
                                     ELSE IF s \in woken THEN "READY"
                                     ELSE pstate[s]]
      /\ waitpid' = [s \in Slots |-> IF s \in woken THEN AnyChild ELSE waitpid[s]]
      /\ SwitchFrom(st)
      /\ UNCHANGED <<pid, pthread, pcr3, next_pid, tproc, pml4s, initVars>>
    BY DEF Exit, Reparent, ExitCurrent
<1>3. PICK q \in UsedSlots :
            /\ process_get(ppid[p]) = q
            /\ pid[q] = ppid[p] /\ pstate[q] # "ZOMBIE" /\ q # p
    BY <1>1, ParentOfCaller
<1>4. \A u \in woken : u = q /\ pstate[u] = "BLOCKED"
    BY <1>3 DEF WokenBy
<1>5. pstate[q] = "BLOCKED" => q \in woken
    BY <1>3, FixedSlots DEF WokenBy, UsedSlots
<1>t. TypeOK /\ SchedTypeOK /\ UsedSlots \subseteq Slots /\ q \in Slots
    BY Zenon DEF ProcInv, SchedInv, UsedSlots
<1>6. UsedSlots' = UsedSlots
    BY <1>1, <1>2, <1>3, <1>4, Zenon DEF UsedSlots
<1>7. AfterCreateInit /\ AfterCreateInit'
    BY <1>1, <1>2, <1>t, Zenon DEF TypeOK, AfterCreateInit, initVars
<1>8. \A u \in UsedSlots : /\ pthread[u] \in Threads
                            /\ tproc[pthread[u]] = u
                            /\ tstate[pthread[u]] \in ThreadState4(pstate[u])
    BY <1>t DEF ProcInv, ThreadsMatchProcesses, TypeOK
<1>9. /\ st \in [Threads -> ThreadState]
      /\ \A t \in Threads \ {current} :
            \/ st[t] = tstate[t]
            \/ tstate[t] = "BLOCKED" /\ st[t] = "READY"
    BY <1>3, <1>4, <1>8, <1>t DEF SchedTypeOK, ThreadState, ThreadState4
<1>10. ASSUME NEW u \in UsedSlots
       PROVE  st[pthread[u]] \in ThreadState4(pstate'[u])
    <2>1. CASE u = p
        BY <1>1, <1>2, <2>1 DEF ThreadState4
    <2>2. CASE u # p /\ u \in woken
        BY <1>1, <1>2, <1>8, <1>t, <2>2 DEF ThreadState4
    <2>3. CASE u # p /\ u \notin woken
        <3>1. pthread[u] # current /\ \A v \in woken : pthread[v] # pthread[u]
            BY <1>1, <1>3, <1>4, <1>8, <2>3, SMTT(30), Z3T(30)
        <3>2. st[pthread[u]] = tstate[pthread[u]] /\ pstate'[u] = pstate[u]
            BY <1>2, <1>8, <1>t, <2>3, <3>1, Zenon
        <3> QED BY <1>8, <3>2, Zenon
    <2> QED BY <2>1, <2>2, <2>3
<1> HIDE DEF st, p
<1>11. SchedInv' /\ ThreadsMatchProcesses' /\ ThreadSpaces' /\ KernelThreads'
    BY <1>1, <1>2, <1>6, <1>7, <1>9, <1>10, SwitchKeepsThreads, Zenon
<1> HIDE DEF woken
<1>12. TypeOK'
    <2>1. ppid[p] \in Pids \cup {NoPid}
        BY <1>1, <1>t, Zenon DEF TypeOK
    <2>2. /\ ppid' \in [Slots -> Pids \cup {NoPid}]
          /\ pstate' \in [Slots -> ProcState]
          /\ waitpid' \in [Slots -> Pids \cup {AnyChild}]
        BY <1>2, <1>t, <2>1 DEF TypeOK, ProcState
    <2> QED BY <1>2, <1>11, <1>t, <2>2, Zenon DEF TypeOK, SchedInv, initVars
<1>13. \A u \in Slots : pstate'[u] = "ZOMBIE" <=> (u = p \/ pstate[u] = "ZOMBIE")
    BY <1>2, <1>3, <1>4, ZenonT(30)
<1>14. KernelProcess'
    <2>1. KernelSlot \notin woken /\ ppid[KernelSlot] # pid[p]
        <3>1. pid[p] \in Nat
            BY <1>1, SMTT(30) DEF ProcInv, PidsAreUnique
        <3> QED BY <1>4, <3>1 DEF ProcInv, KernelProcess, NoPid
    <2> QED BY <1>1, <1>2, <2>1, FixedSlots, ZenonT(30) DEF ProcInv, KernelProcess
<1>15. PidsAreUnique'
    BY <1>2, <1>6, ZenonT(30) DEF ProcInv, PidsAreUnique
<1>16. SettledStates'
    <2> SUFFICES ASSUME NEW u \in UsedSlots \ {KernelSlot}
                 PROVE  pstate'[u] \in {"READY", "BLOCKED", "ZOMBIE"}
        BY <1>6 DEF SettledStates
    <2>1. pstate[u] \in {"READY", "BLOCKED", "ZOMBIE"}
        BY SMTT(30), Z3T(30) DEF ProcInv, SettledStates
    <2>2. pstate'[u] \in {pstate[u], "READY", "ZOMBIE"}
        BY <1>2, <1>t, Zenon
    <2> QED BY <2>1, <2>2
<1>17. SpacesAreOwned'
    BY <1>2, <1>6, Zenon DEF ProcInv, SpacesAreOwned
<1>p. \A u \in UsedSlots : pid[u] \in Nat
    BY DEF ProcInv, PidsAreUnique
<1>18. ParentIsAlive'
    <2> SUFFICES ASSUME NEW u \in UsedSlots \ {KernelSlot}
                 PROVE  \E v \in UsedSlots : pid[v] = ppid'[u] /\ pstate'[v] # "ZOMBIE"
                                               /\ pid[v] < pid[u]
        BY <1>2, <1>6 DEF ParentIsAlive
    <2>1. PICK v \in UsedSlots : pid[v] = ppid[u] /\ pstate[v] # "ZOMBIE" /\ pid[v] < pid[u]
        BY Zenon DEF ProcInv, ParentIsAlive
    <2>2. CASE ppid[u] = pid[p]
        <3>1. PICK w \in UsedSlots : pid[w] = ppid[p] /\ pid[w] < pid[p]
            BY <1>1 DEF ProcInv, ParentIsAlive
        <3>2. pid[q] < pid[p] /\ pid[p] < pid[u]
            BY <1>3, <2>1, <2>2, <3>1
        <3>3. pid[q] < pid[u]
            BY <1>1, <1>p, <3>2
        <3>4. ppid'[u] = ppid[p]
            BY <1>2, <1>t, <2>2, Zenon
        <3> QED BY <1>3, <1>13, <1>t, <3>3, <3>4, Zenon
    <2>3. CASE ppid[u] # pid[p]
        <3>1. v # p /\ ppid'[u] = ppid[u]
            BY <1>2, <1>t, <2>1, <2>3, Zenon
        <3> QED BY <1>13, <1>t, <2>1, <3>1, Zenon
    <2> QED BY <2>2, <2>3, ZenonT(30)
<1>19. NoLostWakeup'
    <2> SUFFICES ASSUME NEW u \in UsedSlots, pstate'[u] = "BLOCKED"
                 PROVE  /\ ChildrenOf(pid[u], waitpid[u])' # {}
                        /\ ZombiesOf(pid[u], waitpid[u])' = {}
        BY <1>6, Zenon DEF NoLostWakeup
    <2>1. u # p /\ u \notin woken /\ pstate[u] = "BLOCKED"
        BY <1>2, <1>t, Zenon
    <2>2. pid[u] # ppid[p] /\ pid[u] # pid[p]
        BY <1>1, <1>3, <1>5, <2>1, Zenon DEF ProcInv, PidsAreUnique
    <2>3. pid'[u] = pid[u] /\ waitpid'[u] = waitpid[u]
        BY <1>2, <1>t, <2>1, Zenon
    <2>4. \A c \in UsedSlots : ppid'[c] = pid[u] <=> ppid[c] = pid[u]
        BY <1>2, <1>t, <2>2, Zenon
    <2>5. ChildrenOf(pid[u], waitpid[u])' = ChildrenOf(pid[u], waitpid[u])
        BY <1>2, <1>6, <2>3, <2>4, SMTT(30) DEF ChildrenOf
    <2>6. p \notin ChildrenOf(pid[u], waitpid[u])
        BY <2>2, Zenon DEF ChildrenOf
    <2>7. ZombiesOf(pid[u], waitpid[u])' = ZombiesOf(pid[u], waitpid[u])
        BY <1>13, <1>t, <2>5, <2>6, Zenon DEF ZombiesOf, ChildrenOf
    <2> QED BY <2>1, <2>5, <2>7, Zenon DEF ProcInv, NoLostWakeup
<1> QED BY <1>11, <1>12, <1>14, <1>15, <1>16, <1>17, <1>18, <1>19, Zenon DEF ProcInv

\* wait4 that blocks: it has just seen a child to wait for and no zombie.
LEMMA WaitBlockKeepsInv ==
    ASSUME ProcInv, NEW arg \in Pids \cup {AnyChild}, WaitBlock(arg)
    PROVE  ProcInv'
<1> DEFINE p == Caller
           st == [tstate EXCEPT ![current] = "BLOCKED"]
<1>1. /\ p \in UsedSlots /\ p \in Slots /\ p # KernelSlot
      /\ pthread[p] = current /\ tproc[current] = p /\ current \in Threads
      /\ current # IdleThread
      /\ pstate[p] = "READY"
      /\ init_pc # "uncreated"
    BY CallerFacts, Zenon DEF WaitBlock
<1>2. /\ ChildrenOf(pid[p], arg) # {}
      /\ ZombiesOf(pid[p], arg) = {}
      /\ pstate' = [pstate EXCEPT ![p] = "BLOCKED"]
      /\ waitpid' = [waitpid EXCEPT ![p] = arg]
      /\ SwitchFrom(st)
      /\ UNCHANGED <<pid, ppid, pthread, pcr3, next_pid, tproc, pml4s, initVars>>
    BY DEF WaitBlock, BlockCurrent
<1> HIDE DEF p
<1>t. TypeOK /\ SchedTypeOK /\ UsedSlots \subseteq Slots
    BY Zenon DEF ProcInv, SchedInv, UsedSlots
<1>3. /\ pstate'[p] = "BLOCKED" /\ waitpid'[p] = arg
      /\ \A u \in Slots \ {p} : pstate'[u] = pstate[u] /\ waitpid'[u] = waitpid[u]
    BY <1>1, <1>2, <1>t, Zenon DEF TypeOK
<1>4. UsedSlots' = UsedSlots
    BY <1>1, <1>3, Zenon DEF UsedSlots
<1>5. AfterCreateInit /\ AfterCreateInit'
    BY <1>1, <1>2, <1>t, Zenon DEF TypeOK, AfterCreateInit, initVars
<1>6. /\ st \in [Threads -> ThreadState]
      /\ st[current] = "BLOCKED"
      /\ \A t \in Threads \ {current} : st[t] = tstate[t]
    BY <1>1, <1>t, Zenon DEF SchedTypeOK, ThreadState
<1> HIDE DEF st
<1>7. ASSUME NEW u \in UsedSlots PROVE st[pthread[u]] \in ThreadState4(pstate'[u])
    <2>1. CASE u = p
        BY <1>1, <1>3, <1>6, <2>1, Zenon DEF ThreadState4
    <2>2. CASE u # p
        <3>1. /\ pthread[u] \in Threads /\ tproc[pthread[u]] = u
              /\ tstate[pthread[u]] \in ThreadState4(pstate[u])
            BY <1>t, SMTT(30), Z3T(30) DEF ProcInv, ThreadsMatchProcesses, TypeOK
        <3>2. pthread[u] # current
            BY <1>1, <2>2, <3>1
        <3> QED BY <1>3, <1>6, <1>t, <2>2, <3>1, <3>2, ZenonT(30)
    <2> QED BY <2>1, <2>2
<1>8. SchedInv' /\ ThreadsMatchProcesses' /\ ThreadSpaces' /\ KernelThreads'
    BY <1>1, <1>2, <1>4, <1>5, <1>6, <1>7, SwitchKeepsThreads, ZenonT(30)
<1>9. TypeOK'
    BY <1>1, <1>2, <1>8, <1>t DEF TypeOK, SchedInv, ProcState, initVars
<1>10. /\ KernelProcess' /\ SettledStates'
       /\ PidsAreUnique' /\ SpacesAreOwned'
    <2>1. KernelProcess'
        BY <1>1, <1>2, <1>3, FixedSlots, ZenonT(30) DEF ProcInv, KernelProcess
    <2>2. SettledStates'
        BY <1>3, <1>4, <1>t, ZenonT(30) DEF ProcInv, SettledStates
    <2>3. PidsAreUnique' /\ SpacesAreOwned'
        BY <1>2, <1>4, SMTT(30) DEF ProcInv, PidsAreUnique, SpacesAreOwned
    <2> QED BY <2>1, <2>2, <2>3
<1>11. \A u \in UsedSlots : pstate'[u] = "ZOMBIE" <=> pstate[u] = "ZOMBIE"
    BY <1>1, <1>3, <1>t, Zenon
<1>12. ParentIsAlive'
    <2>1. pid' = pid /\ ppid' = ppid
        BY <1>2, Zenon
    <2> SUFFICES ASSUME NEW u \in UsedSlots \ {KernelSlot}
                 PROVE  \E v \in UsedSlots : pid[v] = ppid[u] /\ pstate'[v] # "ZOMBIE"
                                               /\ pid[v] < pid[u]
        BY <1>4, <2>1, Zenon DEF ParentIsAlive
    <2> QED BY <1>11, Zenon DEF ProcInv, ParentIsAlive
<1>13. NoLostWakeup'
    <2> SUFFICES ASSUME NEW u \in UsedSlots, pstate'[u] = "BLOCKED"
                 PROVE  /\ ChildrenOf(pid[u], waitpid[u])' # {}
                        /\ ZombiesOf(pid[u], waitpid[u])' = {}
        BY <1>4, Zenon DEF NoLostWakeup
    <2>1. /\ ChildrenOf(pid[u], waitpid[u])' = ChildrenOf(pid[u], waitpid'[u])
          /\ ZombiesOf(pid[u], waitpid[u])' = ZombiesOf(pid[u], waitpid'[u])
        BY <1>2, <1>4, <1>11 DEF ChildrenOf, ZombiesOf
    <2>2. CASE u = p
        BY <1>2, <1>3, <2>1, <2>2, ZenonT(30)
    <2>3. CASE u # p
        BY <1>3, <1>t, <2>1, <2>3, ZenonT(30) DEF ProcInv, NoLostWakeup
    <2> QED BY <2>2, <2>3, Zenon
<1> QED BY <1>8, <1>9, <1>10, <1>12, <1>13, Zenon DEF ProcInv

-----------------------------------------------------------------------------
(***************************************************************************)
(* A reap: the slot freed was a zombie's, so no thread that can run and no *)
(* other process depends on it or on its address space.                    *)
(***************************************************************************)
LEMMA DestroyKeepsInv ==
    ASSUME ProcInv, AfterCreateInit, AfterCreateInit',
           NEW c \in UsedSlots \ {KernelSlot}, pstate[c] = "ZOMBIE", Destroy(c)
    PROVE  ProcInv'
<1>1. /\ pstate' = [pstate EXCEPT ![c] = "UNUSED"]
      /\ pid' = [pid EXCEPT ![c] = NoPid]
      /\ pcr3' = [pcr3 EXCEPT ![c] = NoSpace]
      /\ pml4s' = pml4s \ {pcr3[c]}
      /\ UNCHANGED <<schedVars, ppid, pthread, next_pid, tproc, waitpid>>
    BY DEF Destroy
<1>t. TypeOK /\ UsedSlots \subseteq Slots /\ c \in Slots
    BY Zenon DEF ProcInv, UsedSlots
<1>2. UsedSlots' = UsedSlots \ {c}
    BY <1>1, <1>t, Zenon DEF UsedSlots, TypeOK
<1>3. \A u \in Slots \ {c} :
        pstate'[u] = pstate[u] /\ pid'[u] = pid[u] /\ pcr3'[u] = pcr3[u]
    BY <1>1, <1>t, Zenon DEF TypeOK
<1>4. SchedInv'
    BY <1>1, Zenon DEF ProcInv, schedVars, SchedInv, SchedTypeOK, RunningIsCurrent,
                RingIsOneCycle, CpuSpaceIsCurrents, IdleNeverStops, FreshSlots, Ring
<1>5. TypeOK'
    <2>1. SchedTypeOK'
        BY <1>4, Zenon DEF SchedInv
    <2>2. /\ pstate' \in [Slots -> ProcState]
          /\ pid' \in [Slots -> Pids \cup {NoPid}]
          /\ pcr3' \in [Slots -> Spaces \cup {NoSpace}]
          /\ pml4s' \in SUBSET Spaces
        BY <1>1, <1>t, Zenon DEF TypeOK, ProcState
    <2> QED BY <1>1, <1>t, <2>1, <2>2, Zenon DEF TypeOK, AfterCreateInit
<1>6. KernelProcess' /\ SettledStates'
    BY <1>1, <1>2, <1>3, <1>t, FixedSlots, Zenon DEF ProcInv, KernelProcess, SettledStates
<1>7. PidsAreUnique'
    BY <1>1, <1>2, <1>3, <1>t, SMTT(30) DEF ProcInv, PidsAreUnique
<1>8. KernelThreads'
    BY <1>1 DEF ProcInv, KernelThreads, AfterCreateInit, schedVars
<1>c. \A t \in Threads : tproc[t] # NoSlot /\ tstate[t] # "EXITED"
                             => tproc[t] \in UsedSlots \ {c}
    BY SMTT(30), Z3T(30) DEF ProcInv, ThreadsMatchProcesses, ThreadState4
<1>9. ThreadsMatchProcesses'
    BY <1>1, <1>2, <1>3, <1>c, <1>t, Zenon DEF ProcInv, ThreadsMatchProcesses, schedVars
<1>10. ThreadSpaces'
    <2> SUFFICES ASSUME NEW t \in Threads, tstate[t] # "EXITED", tproc[t] # NoSlot
                 PROVE  pcr3'[tproc[t]] = pcr3[tproc[t]]
        BY <1>1, Zenon DEF ProcInv, ThreadSpaces, schedVars
    <2> QED BY <1>3, <1>c, <1>t, Zenon
<1>11. ParentIsAlive'
    BY <1>1, <1>2, <1>3, <1>t DEF ProcInv, ParentIsAlive
<1>12. NoLostWakeup'
    <2> SUFFICES ASSUME NEW u \in UsedSlots', pstate'[u] = "BLOCKED"
                 PROVE  /\ ChildrenOf(pid[u], waitpid[u])' # {}
                        /\ ZombiesOf(pid[u], waitpid[u])' = {}
        BY Zenon DEF NoLostWakeup
    <2>1. u \in UsedSlots /\ pstate[u] = "BLOCKED"
        BY <1>2, <1>3, <1>t, Zenon
    <2>2. pid'[u] = pid[u] /\ waitpid'[u] = waitpid[u]
        BY <1>1, <1>2, <1>3, <1>t, Zenon
    <2>3. /\ ChildrenOf(pid[u], waitpid[u]) # {}
          /\ ZombiesOf(pid[u], waitpid[u]) = {}
        BY <2>1, Zenon DEF ProcInv, NoLostWakeup
    <2>4. c \notin ChildrenOf(pid[u], waitpid[u])
        BY <2>3, Zenon DEF ZombiesOf
    <2>5. ChildrenOf(pid[u], waitpid[u])' = ChildrenOf(pid[u], waitpid[u])
        BY <1>1, <1>2, <1>3, <1>t, <2>2, <2>4, Zenon DEF ChildrenOf
    <2>6. ZombiesOf(pid[u], waitpid[u])' = {}
        BY <1>3, <1>t, <2>3, <2>4, <2>5, ZenonT(30) DEF ZombiesOf, ChildrenOf
    <2> QED BY <2>3, <2>5, <2>6, ZenonT(30)
<1>13. SpacesAreOwned'
    <2>1. \A u \in UsedSlots \ {c} : pcr3'[u] = pcr3[u] /\ pcr3[u] # pcr3[c]
        BY <1>3, <1>t, Zenon DEF ProcInv, SpacesAreOwned
    <2>2. KernelSpace # pcr3[c] /\ KernelSlot \in UsedSlots
        BY FixedSlots, Zenon DEF ProcInv, KernelProcess, SpacesAreOwned, UsedSlots
    <2>3. pml4s' = {KernelSpace} \cup {pcr3'[u] : u \in UsedSlots'}
        BY <1>1, <1>2, <2>1, <2>2, SMTT(30) DEF ProcInv, SpacesAreOwned
    <2>4. \A u, v \in UsedSlots' : pcr3'[u] = pcr3'[v] => u = v
        BY <1>2, <2>1, SMTT(30), Z3T(30) DEF ProcInv, SpacesAreOwned
    <2> QED BY <2>3, <2>4, Zenon DEF SpacesAreOwned
<1> QED BY <1>4, <1>5, <1>6, <1>7, <1>8, <1>9, <1>10, <1>11, <1>12, <1>13, Zenon DEF ProcInv

-----------------------------------------------------------------------------
(***************************************************************************)
(* Every step of the process layer uses the scheduler as SchedNext allows. *)
(***************************************************************************)
LEMMA SpawnUsesScheduler ==
    ASSUME NEW parent, SpawnOk(parent) \/ SpawnAbort(parent)
    PROVE  SchedNext \/ UNCHANGED schedVars
BY Zenon DEF SpawnOk, SpawnAbort, SchedNext

\* execve's swap of spaces is, for the scheduler, the current thread
\* entering a space: the thread it writes to is the current one.
LEMMA ExecveUsesScheduler ==
    ASSUME ProcInv, Execve
    PROVE  SchedNext
<1>1. PICK cr3 \in Spaces : SwapSpace(cr3)
    BY DEF Execve
<1>2. UserCall
    BY DEF Execve
<1>3. EnterSpace(cr3)
    BY <1>1, <1>2, CallerFacts, ZenonT(30) DEF SwapSpace, EnterSpace, Execve
<1>4. MayStop
    BY <1>2, CallerFacts, Zenon DEF MayStop
<1> QED BY <1>3, <1>4 DEF SchedNext

\* process_exit_current is, for the scheduler, the exit of the current
\* thread with at most one blocked thread woken.
LEMMA ExitUsesScheduler ==
    ASSUME ProcInv, Exit
    PROVE  SchedNext
<1> DEFINE woken == {pthread[s] : s \in WokenBy(Caller)}
<1>1. UserCall /\ ExitCurrent(woken)
    BY Zenon DEF Exit
<1>2. MayStop
    BY <1>1, CallerFacts, Zenon DEF MayStop
<1>3. PICK q \in UsedSlots : process_get(ppid[Caller]) = q
    BY <1>1, CallerFacts, ParentOfCaller, Zenon
<1>4. ASSUME NEW s \in WokenBy(Caller) PROVE pthread[s] \in Blocked
    <2>1. s \in UsedSlots /\ pstate[s] = "BLOCKED"
        BY <1>3, <1>4 DEF WokenBy
    <2>2. tstate[pthread[s]] = "BLOCKED" /\ pthread[s] # NoThread
        BY <2>1, Zenon DEF ProcInv, ThreadsMatchProcesses, ThreadState4
    <2>3. pthread[s] \in Threads
        BY <2>1, <2>2 DEF ProcInv, TypeOK, UsedSlots
    <2> QED BY <2>2, <2>3 DEF Blocked
<1>5. woken \in SUBSET Blocked
    BY <1>4, Zenon
<1> QED BY <1>1, <1>2, <1>5, Zenon DEF SchedNext

\* Every step of the process layer is a step the scheduler allows, or
\* leaves the scheduler's variables alone.
LEMMA StepUsesScheduler ==
    ASSUME ProcInv, [Next]_vars
    PROVE  [SchedNext]_schedVars
<1>1. CASE CreateInit
    BY <1>1, SpacesAssumption DEF CreateInit, SchedNext
<1>2. CASE BootSpawn
    BY <1>2, SpawnUsesScheduler DEF BootSpawn
<1>3. CASE Start
    BY <1>3 DEF Start, SchedNext
<1>4. CASE Tick
    BY <1>4, Zenon DEF Tick, SchedNext
<1>5. CASE BootReap
    BY <1>5 DEF BootReap, Destroy
<1>6. CASE InitSpawn
    BY <1>6, SpawnUsesScheduler, Zenon DEF InitSpawn
<1>7. CASE InitReap
    BY <1>7 DEF InitReap, Destroy
<1>8. CASE InitExit
    <2>1. MayStop
        BY <1>8 DEF InitExit, InitRuns, MayStop, InitThread, BootThread, IdleThread
    <2> QED BY <1>8, <2>1 DEF InitExit, SchedNext
<1>9. CASE Fork
    BY <1>9, SpawnUsesScheduler DEF Fork
<1>10. CASE Execve
    BY <1>10, ExecveUsesScheduler
<1>11. CASE Exit
    BY <1>11, ExitUsesScheduler, Zenon
<1>12. ASSUME NEW arg \in Pids \cup {AnyChild}, WaitReap(arg)
       PROVE  UNCHANGED schedVars
    BY <1>12 DEF WaitReap, Destroy
<1>13. ASSUME NEW arg \in Pids \cup {AnyChild}, WaitBlock(arg)
       PROVE  SchedNext
    <2>1. UserCall /\ BlockCurrent
        BY <1>13, Zenon DEF WaitBlock
    <2>2. MayStop
        BY <2>1, CallerFacts DEF MayStop
    <2> QED BY <2>1, <2>2 DEF SchedNext
<1>14. CASE UNCHANGED vars
    BY <1>14 DEF vars
<1> QED
    BY <1>1, <1>2, <1>3, <1>4, <1>5, <1>6, <1>7, <1>8, <1>9, <1>10, <1>11,
       <1>12, <1>13, <1>14, Zenon DEF Next

-----------------------------------------------------------------------------
\* The invariant holds after sched_init and process_init.
LEMMA InitGivesProcInv == Init => ProcInv
<1> SUFFICES ASSUME Init PROVE ProcInv
    BY Zenon
<1>1. SchedInv
    BY InitEstablishesInv, Zenon DEF Init
<1>2. UsedSlots = {KernelSlot}
    BY FixedSlots, Zenon DEF Init, UsedSlots
<1>3. KernelProcess /\ PidsAreUnique /\ SettledStates
    BY <1>2, FixedSlots, SMTT(30) DEF Init, KernelProcess, PidsAreUnique, SettledStates
<1>4. TypeOK
    <2>1. SchedTypeOK
        BY <1>1, Zenon DEF SchedInv
    <2>2. /\ pstate \in [Slots -> ProcState]
          /\ pid \in [Slots -> Pids \cup {NoPid}]
          /\ ppid \in [Slots -> Pids \cup {NoPid}]
        BY MaxPidAssumption DEF Init, ProcState, Pids
    <2>3. /\ pthread \in [Slots -> Threads \cup {NoThread}]
          /\ pcr3 \in [Slots -> Spaces \cup {NoSpace}]
          /\ tproc \in [Threads -> Slots \cup {NoSlot}]
          /\ waitpid \in [Slots -> Pids \cup {AnyChild}]
          /\ pml4s \in SUBSET Spaces
        BY FixedThreads, FixedSlots, SpacesAssumption, Zenon DEF Init
    <2>4. next_pid \in 1 .. MaxPid + 1
        BY MaxPidAssumption DEF Init
    <2> QED BY <2>1, <2>2, <2>3, <2>4 DEF TypeOK, Init
<1>5. KernelThreads
    BY FixedThreads
    DEF Init, SchedInit, KernelThreads, Threads, InitThread, IdleThread, BootThread
<1>6. ThreadSpaces
    BY FixedSlots DEF Init, SchedInit, ThreadSpaces
<1>7. ThreadsMatchProcesses
    BY <1>2, FixedThreads, FixedSlots, Zenon
    DEF Init, SchedInit, ThreadsMatchProcesses, ThreadState4
<1>8. ParentIsAlive /\ SpacesAreOwned /\ NoLostWakeup
    BY <1>2, FixedSlots, Zenon DEF Init, ParentIsAlive, SpacesAreOwned, NoLostWakeup
<1> QED BY <1>1, <1>3, <1>4, <1>5, <1>6, <1>7, <1>8 DEF ProcInv

-----------------------------------------------------------------------------
\* Every step of the process layer keeps the invariant.
LEMMA ProcStepKeepsInv ==
    ASSUME ProcInv, [Next]_vars
    PROVE  ProcInv'
<1>s. SchedInv'
    BY StepUsesScheduler, StepKeepsInv DEF ProcInv
<1>k. KernelSlot \in UsedSlots /\ pid[KernelSlot] = 0 /\ pstate[KernelSlot] = "RUNNING"
    BY FixedSlots DEF ProcInv, KernelProcess, UsedSlots
<1>z. 0 \in Pids
    BY MaxPidAssumption DEF Pids
<1>1. CASE CreateInit
    BY <1>1, <1>s, CreateInitKeepsInv, Zenon
<1>2. CASE BootSpawn
    <2>1. AfterCreateInit /\ AfterCreateInit'
        BY <1>2 DEF BootSpawn, ProcInv, TypeOK, AfterCreateInit, initVars
    <2> QED BY <1>2, <1>k, <1>s, <2>1, SpawnKeepsInv, AbortKeepsInv, Zenon DEF BootSpawn
<1>3. CASE Start
    BY <1>3, <1>s, StartKeepsInv
<1>4. CASE Tick
    BY <1>4, TickKeepsInv, Zenon
<1>5. CASE BootReap
    <2>1. AfterCreateInit /\ AfterCreateInit'
        BY <1>5 DEF BootReap, ProcInv, KernelThreads, TypeOK, AfterCreateInit, initVars
    <2> QED BY <1>5, <1>z, <2>1, LowestZombie, DestroyKeepsInv, Zenon DEF BootReap
<1>6. CASE InitSpawn
    <2>1. AfterCreateInit
        BY <1>6, Zenon DEF InitSpawn, ProcInv, TypeOK, AfterCreateInit
    <2>2. CASE SpawnOk(0) /\ init_pid' = next_pid /\ init_pc' = "reap"
        <3>1. next_pid \in Pids
            BY <2>2, MaxPidAssumption DEF SpawnOk, CanAlloc, ProcInv, TypeOK, Pids
        <3>2. AfterCreateInit'
            BY <2>2, <3>1, Zenon DEF AfterCreateInit
        <3> QED BY <1>k, <1>s, <2>1, <2>2, <3>2, SpawnKeepsInv, ZenonT(30)
    <2>3. CASE SpawnAbort(0) /\ init_pc' = "exit" /\ UNCHANGED init_pid
        <3>1. AfterCreateInit'
            BY <2>1, <2>3, Zenon DEF AfterCreateInit
        <3> QED BY <1>k, <2>1, <2>3, <3>1, AbortKeepsInv, Zenon
    <2>4. CASE UNCHANGED <<schedVars, procVars>> /\ init_pc' = "exit" /\ UNCHANGED init_pid
        <3>1. KernelThreads' /\ ThreadSpaces' /\ ThreadsMatchProcesses'
            BY <2>1, <2>4, Zenon
            DEF ProcInv, KernelThreads, ThreadSpaces, ThreadsMatchProcesses, procVars,
                schedVars, UsedSlots, AfterCreateInit
        <3> QED BY <1>s, <2>4, <3>1, TableUnchanged, Zenon
    <2> QED BY <1>6, <2>2, <2>3, <2>4, Zenon DEF InitSpawn
<1>7. CASE InitReap
    <2>1. AfterCreateInit /\ AfterCreateInit'
        BY <1>7, Zenon DEF InitReap, ProcInv, TypeOK, AfterCreateInit
    <2>2. CASE ZombiesOf(0, init_pid) # {} /\ Destroy(Lowest(ZombiesOf(0, init_pid)))
        BY <1>z, <2>1, <2>2, LowestZombie, DestroyKeepsInv, Zenon
    <2>3. CASE UNCHANGED <<schedVars, procVars>>
        <3>1. KernelThreads' /\ ThreadSpaces' /\ ThreadsMatchProcesses'
            BY <2>1, <2>3, Zenon
            DEF ProcInv, KernelThreads, ThreadSpaces, ThreadsMatchProcesses, procVars,
                schedVars, UsedSlots, AfterCreateInit
        <3> QED BY <1>7, <1>s, <2>3, <3>1, TableUnchanged, ZenonT(30) DEF InitReap
    <2> QED BY <1>7, <2>2, <2>3, Zenon DEF InitReap
<1>8. CASE InitExit
    BY <1>8, InitExitKeepsInv
<1>9. CASE Fork
    <2>1. AfterCreateInit /\ AfterCreateInit'
        BY <1>9, CallerFacts DEF Fork, ProcInv, TypeOK, AfterCreateInit, initVars
    <2>2. Caller \in UsedSlots /\ pstate[Caller] \notin {"ZOMBIE", "BLOCKED"}
        BY <1>9, CallerFacts, ZenonT(30) DEF Fork
    <2> QED BY <1>9, <1>s, <2>1, <2>2, SpawnKeepsInv, AbortKeepsInv, ZenonT(30) DEF Fork
<1>10. CASE Execve
    BY <1>10, <1>s, ExecveKeepsInv
<1>11. CASE Exit
    BY <1>11, ExitKeepsInv
<1>12. ASSUME NEW arg \in Pids \cup {AnyChild}, WaitReap(arg) PROVE ProcInv'
    <2>1. AfterCreateInit /\ AfterCreateInit'
        BY <1>12, CallerFacts, Zenon DEF WaitReap, ProcInv, TypeOK, AfterCreateInit, initVars
    <2>2. pid[Caller] \in Pids
        <3>1. pid[Caller] \in 0 .. next_pid - 1
            BY <1>12, CallerFacts DEF WaitReap, ProcInv, PidsAreUnique
        <3> QED BY <3>1, MaxPidAssumption, SMTT(30), Z3T(30) DEF ProcInv, TypeOK, Pids
    <2> QED BY <1>12, <2>1, <2>2, LowestZombie, DestroyKeepsInv, Zenon DEF WaitReap
<1>13. ASSUME NEW arg \in Pids \cup {AnyChild}, WaitBlock(arg) PROVE ProcInv'
    BY <1>13, WaitBlockKeepsInv, Zenon
<1>14. CASE UNCHANGED vars
    <2>1. UNCHANGED <<schedVars, procVars, initVars>>
        BY <1>14, SMTT(30), Z3T(30) DEF vars
    <2>2. KernelThreads' /\ ThreadSpaces' /\ ThreadsMatchProcesses'
        BY <2>1, Zenon
        DEF ProcInv, KernelThreads, ThreadSpaces, ThreadsMatchProcesses, procVars,
            schedVars, initVars, UsedSlots
    <2>3. /\ init_pc' \in {"uncreated", "absent", "spawn", "reap", "exit", "gone"}
          /\ init_pid' = init_pid
        BY <2>1 DEF ProcInv, TypeOK, initVars
    <2> QED BY <1>s, <2>1, <2>2, <2>3, TableUnchanged
<1> QED
    BY <1>1, <1>2, <1>3, <1>4, <1>5, <1>6, <1>7, <1>8, <1>9, <1>10, <1>11,
       <1>12, <1>13, <1>14, Zenon DEF Next

-----------------------------------------------------------------------------
\* The inductive invariant of the process layer.
THEOREM ProcInvariance == Spec => []ProcInv
<1>1. ProcInv /\ [Next]_vars => ProcInv'
    BY ProcStepKeepsInv
<1> QED BY <1>1, InitGivesProcInv, PTL DEF Spec

(***************************************************************************)
(* The process layer uses the scheduler only as SchedSpec allows, so every *)
(* theorem about the scheduler holds of the two composed.                  *)
(***************************************************************************)
THEOREM ProcessUsesScheduler == Spec => SchedSpec
<1>1. Init => SchedInit
    BY DEF Init
<1>2. ProcInv /\ [Next]_vars => [SchedNext]_schedVars
    BY StepUsesScheduler
<1> QED BY <1>1, <1>2, ProcInvariance, PTL DEF Spec, SchedSpec

\* The state of process.c stays well typed.
THEOREM ProcessTypeCorrect == Spec => []TypeOK
<1>1. ProcInv => TypeOK
    BY DEF ProcInv
<1> QED BY <1>1, ProcInvariance, PTL

(***************************************************************************)
(* exit's reparenting: every process has a living, older parent, so every  *)
(* zombie can be reaped.                                                   *)
(***************************************************************************)
THEOREM ParentsStayAlive == Spec => []ParentIsAlive
<1>1. ProcInv => ParentIsAlive
    BY DEF ProcInv
<1> QED BY <1>1, ProcInvariance, PTL

\* wait4 and exit lose no wakeup, whatever order children exit in.
THEOREM WakeupsAreNotLost == Spec => []NoLostWakeup
<1>1. ProcInv => NoLostWakeup
    BY DEF ProcInv
<1> QED BY <1>1, ProcInvariance, PTL

\* Threads and processes agree, and page-table roots are owned by one process.
THEOREM TablesAgree == Spec => [](ThreadsMatchProcesses /\ SpacesAreOwned)
<1>1. ProcInv => ThreadsMatchProcesses /\ SpacesAreOwned
    BY DEF ProcInv
<1> QED BY <1>1, ProcInvariance, PTL

\* No thread that can run, and not the CPU, is on a freed address space.
THEOREM FreedSpacesNeverRun == Spec => []NoFreedSpaceRuns
<1>1. ASSUME ProcInv PROVE NoFreedSpaceRuns
    <2>1. ASSUME NEW t \in Threads, tstate[t] # "EXITED" PROVE tcr3[t] \in pml4s
        BY <2>1, <1>1, SMTT(30) DEF ProcInv, ThreadSpaces, ThreadsMatchProcesses, SpacesAreOwned
    <2>2. cpu_cr3 = tcr3[current] /\ current \in Threads /\ tstate[current] = "RUNNING"
        BY <1>1, Zenon DEF ProcInv, SchedInv, CpuSpaceIsCurrents, SchedTypeOK, RunningIsCurrent
    <2> QED BY <2>1, <2>2, Zenon DEF NoFreedSpaceRuns, Ring
<1> QED BY <1>1, ProcInvariance, PTL

-----------------------------------------------------------------------------
(***************************************************************************)
(* The process tree.  The variables of module Lifecycle, and what they are *)
(* under the invariant: a pid stands for the one slot that has it.         *)
(***************************************************************************)
AlivePids == PidsIn({"READY", "RUNNING", "BLOCKED"})
ZombiePids == PidsIn({"ZOMBIE"})
WaitingPids == PidsIn({"BLOCKED"})
KnownPids == PidsIn(ProcState \ {"UNUSED"})
ParentTree == [n \in KnownPids |-> ppid[process_get(n)]]

\* Every pid in the tree is that of a slot ...
TreeToTable ==
    /\ \A n \in KnownPids : \E s \in UsedSlots : pid[s] = n /\ ParentTree[n] = ppid[s]
    /\ \A n \in AlivePids : \E s \in UsedSlots : pid[s] = n /\ pstate[s] # "ZOMBIE"
    /\ \A n \in ZombiePids : \E s \in UsedSlots : pid[s] = n /\ pstate[s] = "ZOMBIE"
    /\ \A n \in WaitingPids : \E s \in UsedSlots : pid[s] = n /\ pstate[s] = "BLOCKED"

\* ... and every slot in use is in the tree as its state says.
TableToTree ==
    \A s \in UsedSlots :
        /\ pid[s] \in KnownPids
        /\ pid[s] \in AlivePids <=> pstate[s] # "ZOMBIE"
        /\ pid[s] \in ZombiePids <=> pstate[s] = "ZOMBIE"
        /\ pid[s] \in WaitingPids <=> pstate[s] = "BLOCKED"
        /\ ParentTree[pid[s]] = ppid[s]

TreeFacts ==
    /\ TreeToTable
    /\ TableToTree
    /\ KnownPids = AlivePids \cup ZombiePids

\* The pids of the slots in some states, when a pid names one slot.
LEMMA PidsInStates ==
    ASSUME ProcInv, NEW S \in SUBSET (ProcState \ {"UNUSED"})
    PROVE  /\ \A n \in PidsIn(S) : \E s \in UsedSlots : pid[s] = n /\ pstate[s] \in S
           /\ \A s \in UsedSlots : pid[s] \in PidsIn(S) <=> pstate[s] \in S
<1>1. \A n \in PidsIn(S) : \E s \in UsedSlots : pid[s] = n /\ pstate[s] \in S
    BY Zenon DEF PidsIn, UsedSlots
<1>2. ASSUME NEW s \in UsedSlots
      PROVE  pid[s] \in PidsIn(S) <=> pstate[s] \in S
    <2>1. pstate[s] \in S => pid[s] \in PidsIn(S)
        BY Zenon DEF PidsIn, UsedSlots
    <2>2. ASSUME pid[s] \in PidsIn(S) PROVE pstate[s] \in S
        <3>1. PICK q \in UsedSlots : pid[q] = pid[s] /\ pstate[q] \in S
            BY <1>1, <2>2, Zenon
        <3>2. q = s
            BY <3>1, Zenon DEF ProcInv, PidsAreUnique
        <3> QED BY <3>1, <3>2, Zenon
    <2> QED BY <2>1, <2>2, Zenon
<1> QED BY <1>1, <1>2, Zenon

\* process_get finds the slot of a pid in use.
LEMMA GetFindsSlot ==
    ASSUME ProcInv, NEW s \in UsedSlots
    PROVE  process_get(pid[s]) = s
<1> DEFINE hits == {u \in UsedSlots : pid[u] = pid[s]}
<1>1. hits = {s}
    BY Zenon DEF ProcInv, PidsAreUnique
<1>2. {s} \in SUBSET Nat /\ {s} # {}
    BY FixedSlots, Zenon DEF UsedSlots
<1>3. Lowest({s}) \in {s}
    BY <1>2, LowestIsMember, Zenon
<1>4. process_get(pid[s]) = Lowest(hits)
    BY <1>1, <1>2, Zenon DEF process_get
<1> QED BY <1>1, <1>3, <1>4, Zenon

\* A process in the table is awake, waiting or a zombie.
LEMMA SlotStates ==
    ASSUME ProcInv, NEW s \in UsedSlots
    PROVE  pstate[s] \in {"READY", "RUNNING", "BLOCKED", "ZOMBIE"}
BY Zenon DEF ProcInv, SettledStates, KernelProcess

\* The tree's variables, slot by slot.
LEMMA TreeIsTable == ProcInv => TreeFacts
<1> SUFFICES ASSUME ProcInv PROVE TreeFacts
    OBVIOUS
<1>1. /\ {"READY", "RUNNING", "BLOCKED"} \in SUBSET (ProcState \ {"UNUSED"})
      /\ {"ZOMBIE"} \in SUBSET (ProcState \ {"UNUSED"})
      /\ {"BLOCKED"} \in SUBSET (ProcState \ {"UNUSED"})
      /\ ProcState \ {"UNUSED"} \in SUBSET (ProcState \ {"UNUSED"})
    BY DEF ProcState
<1>2. /\ \A n \in KnownPids : \E s \in UsedSlots : pid[s] = n
      /\ \A s \in UsedSlots : pid[s] \in KnownPids <=> pstate[s] \in ProcState \ {"UNUSED"}
    BY <1>1, PidsInStates, Zenon DEF KnownPids
<1>3. \A s \in UsedSlots : pstate[s] \in ProcState \ {"UNUSED"}
    BY Zenon DEF UsedSlots, ProcInv, TypeOK
<1>4. /\ \A n \in AlivePids : \E s \in UsedSlots : pid[s] = n
      /\ \A s \in UsedSlots :
            pid[s] \in AlivePids <=> pstate[s] \in {"READY", "RUNNING", "BLOCKED"}
    BY <1>1, PidsInStates, Zenon DEF AlivePids
<1>5. /\ \A n \in ZombiePids : \E s \in UsedSlots : pid[s] = n
      /\ \A s \in UsedSlots : pid[s] \in ZombiePids <=> pstate[s] \in {"ZOMBIE"}
    BY <1>1, PidsInStates, Zenon DEF ZombiePids
<1>6. /\ \A n \in WaitingPids : \E s \in UsedSlots : pid[s] = n
      /\ \A s \in UsedSlots : pid[s] \in WaitingPids <=> pstate[s] \in {"BLOCKED"}
    BY <1>1, PidsInStates, Zenon DEF WaitingPids
<1>7. ASSUME NEW s \in UsedSlots
      PROVE  /\ pid[s] \in KnownPids
             /\ pid[s] \in AlivePids <=> pstate[s] # "ZOMBIE"
             /\ pid[s] \in ZombiePids <=> pstate[s] = "ZOMBIE"
             /\ pid[s] \in WaitingPids <=> pstate[s] = "BLOCKED"
    <2>1. pstate[s] \in {"READY", "RUNNING", "BLOCKED"} <=> pstate[s] # "ZOMBIE"
        <3>1. pstate[s] \in {"READY", "RUNNING", "BLOCKED", "ZOMBIE"}
            BY SlotStates
        <3> QED BY <3>1
    <2> QED BY <1>2, <1>3, <1>4, <1>5, <1>6, <2>1, Zenon
<1>8. \A s \in UsedSlots : ParentTree[pid[s]] = ppid[s]
    BY <1>7, GetFindsSlot, Zenon DEF ParentTree
<1>9. KnownPids = AlivePids \cup ZombiePids
    <2>1. ASSUME NEW n \in KnownPids PROVE n \in AlivePids \cup ZombiePids
        BY <1>2, <1>7, <2>1, Zenon
    <2>2. ASSUME NEW n \in AlivePids PROVE n \in KnownPids
        BY <1>4, <1>7, <2>2, Zenon
    <2>3. ASSUME NEW n \in ZombiePids PROVE n \in KnownPids
        BY <1>5, <1>7, <2>3, Zenon
    <2> QED BY <2>1, <2>2, <2>3, Zenon
<1>10. \A n \in KnownPids : \E s \in UsedSlots : pid[s] = n /\ ParentTree[n] = ppid[s]
    BY <1>2, <1>8, ZenonT(30)
<1>11. /\ \A n \in AlivePids : \E s \in UsedSlots : pid[s] = n /\ pstate[s] # "ZOMBIE"
       /\ \A n \in ZombiePids : \E s \in UsedSlots : pid[s] = n /\ pstate[s] = "ZOMBIE"
       /\ \A n \in WaitingPids : \E s \in UsedSlots : pid[s] = n /\ pstate[s] = "BLOCKED"
    BY <1>4, <1>5, <1>6, <1>7, ZenonT(30)
<1>12. TreeToTable
    BY <1>10, <1>11, Zenon DEF TreeToTable
<1>13. TableToTree
    BY <1>7, <1>8, Zenon DEF TableToTree
<1> QED BY <1>9, <1>12, <1>13, Zenon DEF TreeFacts

\* The same, before a step.
LEMMA TreeBefore ==
    ASSUME ProcInv
    PROVE  TreeToTable /\ TableToTree /\ KnownPids = AlivePids \cup ZombiePids
BY TreeIsTable, Zenon DEF TreeFacts

\* After the step.
LEMMA TreeAfter ==
    ASSUME ProcInv'
    PROVE  TreeToTable' /\ TableToTree' /\ KnownPids' = AlivePids' \cup ZombiePids'
<1>1. TreeFacts'
    BY TreeIsTable, PTL
<1> QED BY <1>1, Zenon DEF TreeFacts

(***************************************************************************)
(* What the steps of process.c do to the tree.  First a spawn or a fork    *)
(* that succeeds: a child of q, alive, under a pid never used.             *)
(***************************************************************************)
LEMMA SpawnGrowsTree ==
    ASSUME ProcInv, ProcInv', NEW q \in UsedSlots, SpawnOk(pid[q])
    PROVE  /\ AlivePids' = AlivePids \cup {next_pid}
           /\ ZombiePids' = ZombiePids
           /\ WaitingPids' = WaitingPids
           /\ ParentTree' = [n \in (AlivePids \cup ZombiePids) \cup {next_pid} |->
                                IF n = next_pid THEN pid[q] ELSE ParentTree[n]]
           /\ next_pid <= MaxPid
           /\ next_pid' = next_pid + 1
<1> DEFINE s == Lowest(FreeSlots)
<1>1. /\ FreeSlots # {} /\ next_pid <= MaxPid /\ next_pid' = next_pid + 1
      /\ pstate' = [pstate EXCEPT ![s] = "READY"]
      /\ pid' = [pid EXCEPT ![s] = next_pid]
      /\ ppid' = [ppid EXCEPT ![s] = pid[q]]
    BY Zenon DEF SpawnOk, CanAlloc
<1>2. s \in Slots /\ s \notin UsedSlots
    BY <1>1, LowestFreeSlot, Zenon
<1> HIDE DEF s
<1>3. /\ pstate'[s] = "READY" /\ pid'[s] = next_pid /\ ppid'[s] = pid[q]
      /\ \A u \in UsedSlots : /\ pstate'[u] = pstate[u] /\ pid'[u] = pid[u]
                              /\ ppid'[u] = ppid[u]
    BY <1>1, <1>2, Zenon DEF ProcInv, TypeOK, UsedSlots
<1>4. UsedSlots' = UsedSlots \cup {s}
    <2>1. \A u \in Slots : u # s => pstate'[u] = pstate[u]
        BY <1>1, <1>2, Zenon DEF ProcInv, TypeOK
    <2>2. pstate'[s] # "UNUSED"
        BY <1>3
    <2> QED BY <1>2, <1>3, <2>1, <2>2, Zenon DEF UsedSlots
<1>5. TreeToTable /\ TableToTree
    BY TreeBefore, Zenon
<1>6. TreeToTable' /\ TableToTree'
    BY TreeAfter, Zenon
<1>7. \A n \in KnownPids : n # next_pid
    <2>1. \A u \in UsedSlots : pid[u] # next_pid
        <3>1. next_pid \in Nat
            BY MaxPidAssumption DEF ProcInv, TypeOK
        <3>2. ASSUME NEW u \in UsedSlots PROVE pid[u] # next_pid
            <4>1. pid[u] \in 0 .. next_pid - 1
                BY Zenon DEF ProcInv, PidsAreUnique
            <4> QED BY <3>1, <4>1
        <3> QED BY <3>2, Zenon
    <2>2. \A n \in KnownPids : \E u \in UsedSlots : pid[u] = n
        BY <1>5, Zenon DEF TreeToTable
    <2> QED BY <2>1, <2>2, Zenon
<1>8. "READY" # "ZOMBIE" /\ "READY" # "BLOCKED"
    OBVIOUS
<1>9. AlivePids' = AlivePids \cup {next_pid}
    <2>1. ASSUME NEW n \in AlivePids' PROVE n \in AlivePids \cup {next_pid}
        <3>1. PICK u \in UsedSlots' : pid'[u] = n /\ pstate'[u] # "ZOMBIE"
            BY <1>6, Zenon DEF TreeToTable
        <3> QED BY <1>3, <1>4, <1>5, <3>1, Zenon DEF TableToTree
    <2>2. ASSUME NEW n \in AlivePids PROVE n \in AlivePids'
        <3>1. PICK u \in UsedSlots : pid[u] = n /\ pstate[u] # "ZOMBIE"
            BY <1>5, Zenon DEF TreeToTable
        <3> QED BY <1>3, <1>4, <1>6, <3>1, Zenon DEF TableToTree
    <2>3. next_pid \in AlivePids'
        BY <1>3, <1>4, <1>6, <1>8, Zenon DEF TableToTree
    <2> QED BY <2>1, <2>2, <2>3, Zenon
<1>10. ZombiePids' = ZombiePids
    <2>1. ASSUME NEW n \in ZombiePids' PROVE n \in ZombiePids
        <3>1. PICK u \in UsedSlots' : pid'[u] = n /\ pstate'[u] = "ZOMBIE"
            BY <1>6, Zenon DEF TreeToTable
        <3> QED BY <1>3, <1>4, <1>5, <1>8, <3>1, Zenon DEF TableToTree
    <2>2. ASSUME NEW n \in ZombiePids PROVE n \in ZombiePids'
        <3>1. PICK u \in UsedSlots : pid[u] = n /\ pstate[u] = "ZOMBIE"
            BY <1>5, Zenon DEF TreeToTable
        <3> QED BY <1>3, <1>4, <1>6, <3>1, Zenon DEF TableToTree
    <2> QED BY <2>1, <2>2, Zenon
<1>11. WaitingPids' = WaitingPids
    <2>1. ASSUME NEW n \in WaitingPids' PROVE n \in WaitingPids
        <3>1. PICK u \in UsedSlots' : pid'[u] = n /\ pstate'[u] = "BLOCKED"
            BY <1>6, Zenon DEF TreeToTable
        <3> QED BY <1>3, <1>4, <1>5, <1>8, <3>1, Zenon DEF TableToTree
    <2>2. ASSUME NEW n \in WaitingPids PROVE n \in WaitingPids'
        <3>1. PICK u \in UsedSlots : pid[u] = n /\ pstate[u] = "BLOCKED"
            BY <1>5, Zenon DEF TreeToTable
        <3> QED BY <1>3, <1>4, <1>6, <3>1, Zenon DEF TableToTree
    <2> QED BY <2>1, <2>2, Zenon
<1>12. KnownPids' = (AlivePids \cup ZombiePids) \cup {next_pid}
    BY <1>9, <1>10, TreeAfter, Zenon
<1>13. ASSUME NEW n \in KnownPids'
       PROVE  ParentTree'[n] = IF n = next_pid THEN pid[q] ELSE ParentTree[n]
    <2>1. PICK u \in UsedSlots' : pid'[u] = n /\ ParentTree'[n] = ppid'[u]
        BY <1>6, Zenon DEF TreeToTable
    <2>2. CASE u = s
        BY <1>3, <2>1, <2>2, Zenon
    <2>3. CASE u \in UsedSlots
        <3>1. pid[u] = n /\ ParentTree[n] = ppid[u] /\ n \in KnownPids
            BY <1>3, <1>5, <2>1, <2>3, Zenon DEF TableToTree
        <3> QED BY <1>3, <1>7, <2>1, <2>3, <3>1, Zenon
    <2> QED BY <1>4, <2>2, <2>3, Zenon
<1>14. ParentTree' = [n \in KnownPids' |-> ParentTree'[n]]
    BY Zenon DEF ParentTree
<1>15. ParentTree' = [n \in KnownPids' |-> IF n = next_pid THEN pid[q] ELSE ParentTree[n]]
    BY <1>13, <1>14, Zenon
<1> QED BY <1>1, <1>9, <1>10, <1>11, <1>12, <1>15, Zenon

\* A step that leaves states, pids and the parents in the table alone, as an
\* aborted spawn does, leaves the tree alone.
LEMMA SameTree ==
    ASSUME ProcInv, ProcInv', pstate' = pstate, pid' = pid,
           \A u \in UsedSlots : ppid'[u] = ppid[u]
    PROVE  /\ AlivePids' = AlivePids
           /\ ZombiePids' = ZombiePids
           /\ WaitingPids' = WaitingPids
           /\ ParentTree' = ParentTree
<1>1. /\ AlivePids' = AlivePids /\ ZombiePids' = ZombiePids
      /\ WaitingPids' = WaitingPids /\ KnownPids' = KnownPids
    BY Zenon DEF AlivePids, ZombiePids, WaitingPids, KnownPids, PidsIn
<1>2. UsedSlots' = UsedSlots
    BY Zenon DEF UsedSlots
<1>3. ASSUME NEW n \in KnownPids PROVE ParentTree'[n] = ParentTree[n]
    <2>1. PICK u \in UsedSlots : pid[u] = n /\ ParentTree[n] = ppid[u]
        BY TreeBefore, Zenon DEF TreeToTable
    <2>2. pid'[u] = n /\ u \in UsedSlots'
        BY <1>2, <2>1, Zenon
    <2>3. ParentTree'[n] = ppid'[u]
        BY <2>2, TreeAfter, Zenon DEF TableToTree
    <2> QED BY <2>1, <2>3, Zenon
<1>4. /\ ParentTree' = [n \in KnownPids' |-> ParentTree'[n]]
      /\ ParentTree = [n \in KnownPids |-> ParentTree[n]]
    BY Zenon DEF ParentTree
<1> QED BY <1>1, <1>3, <1>4, Zenon

\* process_destroy of the zombie c takes it off the tree.
LEMMA DestroyPrunesTree ==
    ASSUME ProcInv, ProcInv', NEW c \in UsedSlots, pstate[c] = "ZOMBIE", Destroy(c)
    PROVE  /\ AlivePids' = AlivePids
           /\ ZombiePids' = ZombiePids \ {pid[c]}
           /\ WaitingPids' = WaitingPids
           /\ ParentTree' = [n \in (AlivePids \cup ZombiePids) \ {pid[c]} |-> ParentTree[n]]
<1>1. /\ pstate' = [pstate EXCEPT ![c] = "UNUSED"]
      /\ pid' = [pid EXCEPT ![c] = NoPid]
      /\ ppid' = ppid
    BY Zenon DEF Destroy
<1>2. c \in Slots
    BY Zenon DEF UsedSlots
<1>3. \A u \in UsedSlots : u # c => pstate'[u] = pstate[u] /\ pid'[u] = pid[u]
    BY <1>1, <1>2, Zenon DEF ProcInv, TypeOK, UsedSlots
<1>4. UsedSlots' = UsedSlots \ {c}
    <2>1. \A u \in Slots : u # c => pstate'[u] = pstate[u]
        BY <1>1, <1>2, Zenon DEF ProcInv, TypeOK
    <2>2. pstate'[c] = "UNUSED"
        BY <1>1, <1>2, Zenon DEF ProcInv, TypeOK
    <2> QED BY <1>2, <2>1, <2>2, Zenon DEF UsedSlots
<1>5. TreeToTable /\ TableToTree
    BY TreeBefore, Zenon
<1>6. TreeToTable' /\ TableToTree'
    BY TreeAfter, Zenon
<1>7. \A u \in UsedSlots : pid[u] = pid[c] => u = c
    BY Zenon DEF ProcInv, PidsAreUnique
<1>8. "BLOCKED" # "ZOMBIE"
    OBVIOUS
<1>9. AlivePids' = AlivePids
    <2>1. ASSUME NEW n \in AlivePids' PROVE n \in AlivePids
        <3>1. PICK u \in UsedSlots' : pid'[u] = n /\ pstate'[u] # "ZOMBIE"
            BY <1>6, Zenon DEF TreeToTable
        <3> QED BY <1>3, <1>4, <1>5, <3>1, Zenon DEF TableToTree
    <2>2. ASSUME NEW n \in AlivePids PROVE n \in AlivePids'
        <3>1. PICK u \in UsedSlots : pid[u] = n /\ pstate[u] # "ZOMBIE"
            BY <1>5, Zenon DEF TreeToTable
        <3> QED BY <1>3, <1>4, <1>6, <3>1, Zenon DEF TableToTree
    <2> QED BY <2>1, <2>2, Zenon
<1>10. ZombiePids' = ZombiePids \ {pid[c]}
    <2>1. ASSUME NEW n \in ZombiePids' PROVE n \in ZombiePids \ {pid[c]}
        <3>1. PICK u \in UsedSlots' : pid'[u] = n /\ pstate'[u] = "ZOMBIE"
            BY <1>6, Zenon DEF TreeToTable
        <3>2. u \in UsedSlots /\ u # c /\ pid[u] = n /\ pstate[u] = "ZOMBIE"
            BY <1>3, <1>4, <3>1, Zenon
        <3> QED BY <1>5, <1>7, <3>2, Zenon DEF TableToTree
    <2>2. ASSUME NEW n \in ZombiePids, n # pid[c] PROVE n \in ZombiePids'
        <3>1. PICK u \in UsedSlots : pid[u] = n /\ pstate[u] = "ZOMBIE"
            BY <1>5, Zenon DEF TreeToTable
        <3> QED BY <1>3, <1>4, <1>6, <2>2, <3>1, Zenon DEF TableToTree
    <2> QED BY <2>1, <2>2, Zenon
<1>11. WaitingPids' = WaitingPids
    <2>1. ASSUME NEW n \in WaitingPids' PROVE n \in WaitingPids
        <3>1. PICK u \in UsedSlots' : pid'[u] = n /\ pstate'[u] = "BLOCKED"
            BY <1>6, Zenon DEF TreeToTable
        <3> QED BY <1>3, <1>4, <1>5, <3>1, Zenon DEF TableToTree
    <2>2. ASSUME NEW n \in WaitingPids PROVE n \in WaitingPids'
        <3>1. PICK u \in UsedSlots : pid[u] = n /\ pstate[u] = "BLOCKED"
            BY <1>5, Zenon DEF TreeToTable
        <3> QED BY <1>3, <1>4, <1>6, <1>8, <3>1, Zenon DEF TableToTree
    <2> QED BY <2>1, <2>2, Zenon
<1>12. KnownPids' = (AlivePids \cup ZombiePids) \ {pid[c]}
    <2>1. pid[c] \notin AlivePids
        BY <1>5, Zenon DEF TableToTree
    <2> QED BY <1>9, <1>10, <2>1, TreeAfter, Zenon
<1>13. ASSUME NEW n \in KnownPids' PROVE ParentTree'[n] = ParentTree[n]
    <2>1. PICK u \in UsedSlots' : pid'[u] = n /\ ParentTree'[n] = ppid'[u]
        BY <1>6, Zenon DEF TreeToTable
    <2>2. u \in UsedSlots /\ pid[u] = n /\ ppid'[u] = ppid[u]
        BY <1>1, <1>3, <1>4, <2>1, Zenon
    <2> QED BY <1>5, <2>1, <2>2, Zenon DEF TableToTree
<1>14. ParentTree' = [n \in KnownPids' |-> ParentTree'[n]]
    BY Zenon DEF ParentTree
<1> QED BY <1>9, <1>10, <1>11, <1>12, <1>13, <1>14, Zenon

\* process_exit_current: the caller becomes a zombie, its children pass to
\* its parent, and the parent, if it waits, waits no more.
LEMMA ExitMovesTree ==
    ASSUME ProcInv, ProcInv', Exit
    PROVE  LET n == pid[Caller]
           IN  /\ n \in (AlivePids \ WaitingPids) \ {0}
               /\ AlivePids' = AlivePids \ {n}
               /\ ZombiePids' = ZombiePids \cup {n}
               /\ WaitingPids' = WaitingPids \ {ParentTree[n]}
               /\ ParentTree' = [m \in AlivePids \cup ZombiePids |->
                                   IF ParentTree[m] = n THEN ParentTree[n] ELSE ParentTree[m]]
<1> DEFINE p == Caller
           n == pid[p]
<1>u. UserCall
    BY Zenon DEF Exit
<1>1. p \in UsedSlots /\ p \in Slots /\ p # KernelSlot /\ pstate[p] = "READY"
    BY <1>u, CallerFacts, Zenon
<1>2. PICK q \in UsedSlots : /\ process_get(ppid[p]) = q
                             /\ pid[q] = ppid[p] /\ pstate[q] # "ZOMBIE" /\ q # p
    BY <1>1, ParentOfCaller, Zenon
<1>3. /\ \A s \in Slots : pstate'[s] = IF s = p THEN "ZOMBIE"
                                       ELSE IF s \in WokenBy(p) THEN "READY"
                                       ELSE pstate[s]
      /\ pid' = pid
      /\ \A s \in UsedSlots : ppid'[s] = IF ppid[s] = pid[p] THEN ppid[p] ELSE ppid[s]
    BY Zenon DEF Exit, Reparent, UsedSlots
<1>4. \A s \in Slots : s \in WokenBy(p) <=> s = q /\ pstate[s] = "BLOCKED"
    BY <1>2, FixedSlots, Zenon DEF WokenBy, UsedSlots
<1> HIDE DEF p
<1>5. \A s \in Slots : /\ pstate'[s] = "ZOMBIE" <=> s = p \/ pstate[s] = "ZOMBIE"
                       /\ pstate'[s] = "BLOCKED" <=> pstate[s] = "BLOCKED" /\ s # q
                       /\ pstate'[s] = "UNUSED" <=> pstate[s] = "UNUSED"
    <2>1. ASSUME NEW s \in Slots
          PROVE  /\ pstate'[s] = "ZOMBIE" <=> s = p \/ pstate[s] = "ZOMBIE"
                 /\ pstate'[s] = "BLOCKED" <=> pstate[s] = "BLOCKED" /\ s # q
                 /\ pstate'[s] = "UNUSED" <=> pstate[s] = "UNUSED"
        <3>1. CASE s = p
            BY <1>1, <1>3, <3>1, SMTT(30)
        <3>2. CASE s # p /\ s = q /\ pstate[s] = "BLOCKED"
            <4>1. pstate'[s] = "READY"
                BY <1>3, <1>4, <3>2, Zenon
            <4> QED BY <3>2, <4>1
        <3>3. CASE s # p /\ ~(s = q /\ pstate[s] = "BLOCKED")
            BY <1>3, <1>4, <3>3, Zenon
        <3> QED BY <3>1, <3>2, <3>3, ZenonT(30)
    <2> QED BY <2>1, Zenon
<1>6. UsedSlots' = UsedSlots /\ UsedSlots \subseteq Slots
    BY <1>5, Zenon DEF UsedSlots
<1>7. TreeToTable /\ TableToTree
    BY TreeBefore, Zenon
<1>8. TreeToTable' /\ TableToTree'
    BY TreeAfter, Zenon
<1>9. \A u, v \in UsedSlots : pid[u] = pid[v] => u = v
    BY Zenon DEF ProcInv, PidsAreUnique
<1>10. n \in (AlivePids \ WaitingPids) \ {0}
    <2>1. n \in AlivePids /\ n \notin WaitingPids
        <3>1. pstate[p] # "ZOMBIE" /\ pstate[p] # "BLOCKED"
            BY <1>1
        <3> QED BY <1>1, <1>7, <3>1, Zenon DEF TableToTree
    <2>2. n # 0
        <3>1. KernelSlot \in UsedSlots /\ pid[KernelSlot] = 0
            BY FixedSlots DEF ProcInv, KernelProcess, UsedSlots
        <3> QED BY <1>1, <1>9, <3>1, ZenonT(30)
    <2> QED BY <2>1, <2>2, Zenon
<1>11. AlivePids' = AlivePids \ {n}
    <2>1. ASSUME NEW m \in AlivePids' PROVE m \in AlivePids \ {n}
        <3>p. PICK u \in UsedSlots' : pid'[u] = m /\ pstate'[u] # "ZOMBIE"
            BY <1>8, Zenon DEF TreeToTable
        <3>1. u \in UsedSlots /\ pid[u] = m /\ pstate'[u] # "ZOMBIE"
            BY <1>3, <1>6, <3>p, Zenon
        <3>2. u # p /\ pstate[u] # "ZOMBIE"
            BY <1>5, <1>6, <3>1, Zenon
        <3> QED BY <1>1, <1>7, <1>9, <3>1, <3>2, Zenon DEF TableToTree
    <2>2. ASSUME NEW m \in AlivePids, m # n PROVE m \in AlivePids'
        <3>1. PICK u \in UsedSlots : pid[u] = m /\ pstate[u] # "ZOMBIE"
            BY <1>7, Zenon DEF TreeToTable
        <3>2. u # p /\ pstate'[u] # "ZOMBIE" /\ pid'[u] = m /\ u \in UsedSlots'
            BY <1>3, <1>5, <1>6, <2>2, <3>1, Zenon
        <3> QED BY <1>8, <3>2, Zenon DEF TableToTree
    <2> QED BY <2>1, <2>2, Zenon
<1>12. ZombiePids' = ZombiePids \cup {n}
    <2>1. ASSUME NEW m \in ZombiePids' PROVE m \in ZombiePids \cup {n}
        <3>p. PICK u \in UsedSlots' : pid'[u] = m /\ pstate'[u] = "ZOMBIE"
            BY <1>8, Zenon DEF TreeToTable
        <3>1. u \in UsedSlots /\ pid[u] = m /\ pstate'[u] = "ZOMBIE"
            BY <1>3, <1>6, <3>p, Zenon
        <3>2. u = p \/ pstate[u] = "ZOMBIE"
            BY <1>5, <1>6, <3>1, Zenon
        <3> QED BY <1>7, <3>1, <3>2, Zenon DEF TableToTree
    <2>2. ASSUME NEW m \in ZombiePids PROVE m \in ZombiePids'
        <3>1. PICK u \in UsedSlots : pid[u] = m /\ pstate[u] = "ZOMBIE"
            BY <1>7, Zenon DEF TreeToTable
        <3>2. pstate'[u] = "ZOMBIE" /\ pid'[u] = m /\ u \in UsedSlots'
            BY <1>3, <1>5, <1>6, <3>1, Zenon
        <3> QED BY <1>8, <3>2, Zenon DEF TableToTree
    <2>3. n \in ZombiePids'
        <3>1. pstate'[p] = "ZOMBIE" /\ pid'[p] = n /\ p \in UsedSlots'
            BY <1>1, <1>3, <1>5, <1>6, Zenon
        <3> QED BY <1>8, <3>1, Zenon DEF TableToTree
    <2> QED BY <2>1, <2>2, <2>3, Zenon
<1>13. ParentTree[n] = ppid[p] /\ pid[q] = ppid[p]
    BY <1>1, <1>2, <1>7, Zenon DEF TableToTree, p
<1>14. WaitingPids' = WaitingPids \ {ParentTree[n]}
    <2>1. ASSUME NEW m \in WaitingPids' PROVE m \in WaitingPids /\ m # pid[q]
        <3>p. PICK u \in UsedSlots' : pid'[u] = m /\ pstate'[u] = "BLOCKED"
            BY <1>8, Zenon DEF TreeToTable
        <3>1. u \in UsedSlots /\ pid[u] = m /\ pstate'[u] = "BLOCKED"
            BY <1>3, <1>6, <3>p, Zenon
        <3>2. u # q /\ pstate[u] = "BLOCKED"
            BY <1>5, <1>6, <3>1, Zenon
        <3> QED BY <1>7, <1>9, <3>1, <3>2, Zenon DEF TableToTree
    <2>2. ASSUME NEW m \in WaitingPids, m # pid[q] PROVE m \in WaitingPids'
        <3>1. PICK u \in UsedSlots : pid[u] = m /\ pstate[u] = "BLOCKED"
            BY <1>7, Zenon DEF TreeToTable
        <3>2. pstate'[u] = "BLOCKED" /\ pid'[u] = m /\ u \in UsedSlots'
            BY <1>3, <1>5, <1>6, <2>2, <3>1, Zenon
        <3> QED BY <1>8, <3>2, Zenon DEF TableToTree
    <2> QED BY <1>13, <2>1, <2>2, Zenon
<1>15. KnownPids' = AlivePids \cup ZombiePids
    BY <1>10, <1>11, <1>12, TreeAfter, Zenon
<1>16. ASSUME NEW m \in KnownPids'
       PROVE  ParentTree'[m] = IF ParentTree[m] = n THEN ParentTree[n] ELSE ParentTree[m]
    <2>p. PICK u \in UsedSlots' : pid'[u] = m /\ ParentTree'[m] = ppid'[u]
        BY <1>8, Zenon DEF TreeToTable
    <2>1. u \in UsedSlots /\ pid[u] = m /\ ParentTree'[m] = ppid'[u]
        BY <1>3, <1>6, <2>p, Zenon
    <2>2. ParentTree[m] = ppid[u]
        BY <1>7, <2>1, Zenon DEF TableToTree
    <2> QED BY <1>3, <1>13, <2>1, <2>2, Zenon
<1>17. ParentTree' = [m \in KnownPids' |-> ParentTree'[m]]
    BY Zenon DEF ParentTree
<1>18. ParentTree' = [m \in AlivePids \cup ZombiePids |->
                        IF ParentTree[m] = n THEN ParentTree[n] ELSE ParentTree[m]]
    BY <1>15, <1>16, <1>17, Zenon
<1> QED BY <1>10, <1>11, <1>12, <1>14, <1>18, Zenon DEF p

\* process_wait_current with no zombie to reap: the caller, which has a child
\* alive, waits.
LEMMA WaitMovesTree ==
    ASSUME ProcInv, ProcInv', NEW arg, WaitBlock(arg)
    PROVE  /\ pid[Caller] \in (AlivePids \ WaitingPids) \ {0}
           /\ \E m \in AlivePids : ParentTree[m] = pid[Caller]
           /\ AlivePids' = AlivePids
           /\ ZombiePids' = ZombiePids
           /\ WaitingPids' = WaitingPids \cup {pid[Caller]}
           /\ ParentTree' = ParentTree
<1> DEFINE p == Caller
<1>u. UserCall
    BY Zenon DEF WaitBlock
<1>1. p \in UsedSlots /\ p \in Slots /\ p # KernelSlot /\ pstate[p] = "READY"
    BY <1>u, CallerFacts, Zenon
<1>2. PICK c \in UsedSlots : ppid[c] = pid[p] /\ pstate[c] # "ZOMBIE"
    BY Zenon DEF WaitBlock, ChildrenOf, ZombiesOf
<1>3. pstate' = [pstate EXCEPT ![p] = "BLOCKED"] /\ pid' = pid /\ ppid' = ppid
    BY Zenon DEF WaitBlock
<1> HIDE DEF p
<1>4. pstate'[p] = "BLOCKED" /\ \A s \in Slots : s # p => pstate'[s] = pstate[s]
    BY <1>1, <1>3, Zenon DEF ProcInv, TypeOK
<1>5. \A s \in Slots : /\ pstate'[s] = "ZOMBIE" <=> pstate[s] = "ZOMBIE"
                       /\ pstate'[s] = "BLOCKED" <=> pstate[s] = "BLOCKED" \/ s = p
                       /\ pstate'[s] = "UNUSED" <=> pstate[s] = "UNUSED"
    <2>1. ASSUME NEW s \in Slots
          PROVE  /\ pstate'[s] = "ZOMBIE" <=> pstate[s] = "ZOMBIE"
                 /\ pstate'[s] = "BLOCKED" <=> pstate[s] = "BLOCKED" \/ s = p
                 /\ pstate'[s] = "UNUSED" <=> pstate[s] = "UNUSED"
        <3>1. CASE s = p
            BY <1>1, <1>4, <3>1
        <3>2. CASE s # p
            BY <1>4, <3>2, Zenon
        <3> QED BY <3>1, <3>2, Zenon
    <2> QED BY <2>1, Zenon
<1>6. UsedSlots' = UsedSlots /\ UsedSlots \subseteq Slots
    BY <1>5, Zenon DEF UsedSlots
<1>7. TreeToTable /\ TableToTree
    BY TreeBefore, Zenon
<1>8. TreeToTable' /\ TableToTree'
    BY TreeAfter, Zenon
<1>9. pid[p] \in (AlivePids \ WaitingPids) \ {0}
    <2>1. pid[p] \in AlivePids /\ pid[p] \notin WaitingPids
        <3>1. pstate[p] # "ZOMBIE" /\ pstate[p] # "BLOCKED"
            BY <1>1
        <3> QED BY <1>1, <1>7, <3>1, Zenon DEF TableToTree
    <2>2. pid[p] # 0
        <3>1. KernelSlot \in UsedSlots /\ pid[KernelSlot] = 0
            BY FixedSlots DEF ProcInv, KernelProcess, UsedSlots
        <3> QED BY <1>1, <3>1, Zenon DEF ProcInv, PidsAreUnique
    <2> QED BY <2>1, <2>2, Zenon
<1>10. pid[c] \in AlivePids /\ ParentTree[pid[c]] = pid[p]
    BY <1>2, <1>7, Zenon DEF TableToTree, p
<1>11. AlivePids' = AlivePids
    <2>1. ASSUME NEW m \in AlivePids' PROVE m \in AlivePids
        <3>p. PICK u \in UsedSlots' : pid'[u] = m /\ pstate'[u] # "ZOMBIE"
            BY <1>8, Zenon DEF TreeToTable
        <3>1. u \in UsedSlots /\ pid[u] = m /\ pstate'[u] # "ZOMBIE"
            BY <1>3, <1>6, <3>p, Zenon
        <3> QED BY <1>5, <1>6, <1>7, <3>1, Zenon DEF TableToTree
    <2>2. ASSUME NEW m \in AlivePids PROVE m \in AlivePids'
        <3>1. PICK u \in UsedSlots : pid[u] = m /\ pstate[u] # "ZOMBIE"
            BY <1>7, Zenon DEF TreeToTable
        <3>2. pstate'[u] # "ZOMBIE" /\ pid'[u] = m /\ u \in UsedSlots'
            BY <1>3, <1>5, <1>6, <3>1, Zenon
        <3> QED BY <1>8, <3>2, Zenon DEF TableToTree
    <2> QED BY <2>1, <2>2, Zenon
<1>12. ZombiePids' = ZombiePids
    <2>1. ASSUME NEW m \in ZombiePids' PROVE m \in ZombiePids
        <3>p. PICK u \in UsedSlots' : pid'[u] = m /\ pstate'[u] = "ZOMBIE"
            BY <1>8, Zenon DEF TreeToTable
        <3>1. u \in UsedSlots /\ pid[u] = m /\ pstate'[u] = "ZOMBIE"
            BY <1>3, <1>6, <3>p, Zenon
        <3> QED BY <1>5, <1>6, <1>7, <3>1, Zenon DEF TableToTree
    <2>2. ASSUME NEW m \in ZombiePids PROVE m \in ZombiePids'
        <3>1. PICK u \in UsedSlots : pid[u] = m /\ pstate[u] = "ZOMBIE"
            BY <1>7, Zenon DEF TreeToTable
        <3>2. pstate'[u] = "ZOMBIE" /\ pid'[u] = m /\ u \in UsedSlots'
            BY <1>3, <1>5, <1>6, <3>1, Zenon
        <3> QED BY <1>8, <3>2, Zenon DEF TableToTree
    <2> QED BY <2>1, <2>2, Zenon
<1>13. WaitingPids' = WaitingPids \cup {pid[p]}
    <2>1. ASSUME NEW m \in WaitingPids' PROVE m \in WaitingPids \cup {pid[p]}
        <3>p. PICK u \in UsedSlots' : pid'[u] = m /\ pstate'[u] = "BLOCKED"
            BY <1>8, Zenon DEF TreeToTable
        <3>1. u \in UsedSlots /\ pid[u] = m /\ pstate'[u] = "BLOCKED"
            BY <1>3, <1>6, <3>p, Zenon
        <3> QED BY <1>5, <1>6, <1>7, <3>1, Zenon DEF TableToTree
    <2>2. ASSUME NEW m \in WaitingPids PROVE m \in WaitingPids'
        <3>1. PICK u \in UsedSlots : pid[u] = m /\ pstate[u] = "BLOCKED"
            BY <1>7, Zenon DEF TreeToTable
        <3>2. pstate'[u] = "BLOCKED" /\ pid'[u] = m /\ u \in UsedSlots'
            BY <1>3, <1>5, <1>6, <3>1, Zenon
        <3> QED BY <1>8, <3>2, Zenon DEF TableToTree
    <2>3. pid[p] \in WaitingPids'
        <3>1. pstate'[p] = "BLOCKED" /\ pid'[p] = pid[p] /\ p \in UsedSlots'
            BY <1>1, <1>3, <1>4, <1>6, Zenon
        <3> QED BY <1>8, <3>1, Zenon DEF TableToTree
    <2> QED BY <2>1, <2>2, <2>3, Zenon
<1>14. KnownPids' = KnownPids
    BY <1>11, <1>12, TreeBefore, TreeAfter, Zenon
<1>15. ASSUME NEW m \in KnownPids PROVE ParentTree'[m] = ParentTree[m]
    <2>1. PICK u \in UsedSlots : pid[u] = m /\ ParentTree[m] = ppid[u]
        BY <1>7, Zenon DEF TreeToTable
    <2>2. pid'[u] = m /\ u \in UsedSlots'
        BY <1>3, <1>6, <2>1, Zenon
    <2> QED BY <1>3, <1>8, <2>1, <2>2, Zenon DEF TableToTree
<1>16. /\ ParentTree' = [m \in KnownPids' |-> ParentTree'[m]]
       /\ ParentTree = [m \in KnownPids |-> ParentTree[m]]
    BY Zenon DEF ParentTree
<1>17. ParentTree' = ParentTree
    BY <1>14, <1>15, <1>16, Zenon
<1> QED BY <1>9, <1>10, <1>11, <1>12, <1>13, <1>17, Zenon DEF p

-----------------------------------------------------------------------------
\* The tree as module Lifecycle sees it.
LEMMA SpawnIsLife ==
    ASSUME ProcInv, ProcInv', NEW q \in UsedSlots, pstate[q] \notin {"ZOMBIE", "BLOCKED"},
           SpawnOk(pid[q])
    PROVE  Life!LifeNext
<1>1. pid[q] \in AlivePids /\ pid[q] \notin WaitingPids
    <2>1. pstate[q] # "ZOMBIE" /\ pstate[q] # "BLOCKED"
        OBVIOUS
    <2> QED BY <2>1, TreeBefore, Zenon DEF TableToTree
<1>2. Life!Spawn(pid[q])
    BY <1>1, SpawnGrowsTree, Zenon
    DEF Life!Spawn, Life!Awake, Life!Known, AlivePids, ZombiePids, WaitingPids, KnownPids,
        ParentTree
<1> QED BY <1>1, <1>2, Zenon DEF Life!LifeNext, AlivePids

\* A spawn that fails after process_alloc spends a pid.
LEMMA AbortIsLife ==
    ASSUME ProcInv, ProcInv', NEW parent, SpawnAbort(parent)
    PROVE  Life!LifeNext
<1>1. /\ FreeSlots # {} /\ next_pid <= MaxPid /\ next_pid' = next_pid + 1
      /\ pstate' = pstate /\ pid' = pid
      /\ ppid' = [ppid EXCEPT ![Lowest(FreeSlots)] = parent]
    BY Zenon DEF SpawnAbort, CanAlloc
<1>2. \A u \in UsedSlots : ppid'[u] = ppid[u]
    <2>1. Lowest(FreeSlots) \notin UsedSlots
        BY <1>1, LowestFreeSlot, Zenon
    <2> QED BY <1>1, <2>1, Zenon DEF ProcInv, TypeOK, UsedSlots
<1>3. Life!LoseFreshPid
    BY <1>1, <1>2, SameTree, Zenon
    DEF Life!LoseFreshPid, AlivePids, ZombiePids, WaitingPids, KnownPids, ParentTree
<1> QED BY <1>3, Zenon DEF Life!LifeNext

\* A reap, by the process in slot q, of one of its zombies.
LEMMA ReapIsLife ==
    ASSUME ProcInv, ProcInv', NEW q \in UsedSlots, pstate[q] \notin {"ZOMBIE", "BLOCKED"},
           NEW arg, pid[q] \in Pids, ZombiesOf(pid[q], arg) # {},
           Destroy(Lowest(ZombiesOf(pid[q], arg)))
    PROVE  Life!LifeNext
<1> DEFINE c == Lowest(ZombiesOf(pid[q], arg))
<1>1. c \in UsedSlots /\ pstate[c] = "ZOMBIE" /\ ppid[c] = pid[q] /\ Destroy(c)
    BY LowestZombie, Zenon
<1> HIDE DEF c
<1>2. pid[q] \in AlivePids /\ pid[q] \notin WaitingPids
    <2>1. pstate[q] # "ZOMBIE" /\ pstate[q] # "BLOCKED"
        OBVIOUS
    <2> QED BY <2>1, TreeBefore, Zenon DEF TableToTree
<1>3. pid[c] \in ZombiePids /\ ParentTree[pid[c]] = pid[q]
    BY <1>1, TreeBefore, Zenon DEF TableToTree
<1>4. next_pid' = next_pid
    BY <1>1, Zenon DEF Destroy
<1>5. Life!Reaps(pid[q], pid[c])
    BY <1>1, <1>2, <1>3, <1>4, DestroyPrunesTree, Zenon
    DEF Life!Reaps, Life!Awake, Life!Known, AlivePids, ZombiePids, WaitingPids, KnownPids,
        ParentTree
<1> QED BY <1>2, <1>3, <1>5, Zenon DEF Life!LifeNext, AlivePids, ZombiePids

\* process_exit_current.
LEMMA ExitIsLife ==
    ASSUME ProcInv, ProcInv', Exit
    PROVE  Life!LifeNext
<1>1. next_pid' = next_pid
    BY Zenon DEF Exit
<1>2. Life!Exits(pid[Caller])
    BY <1>1, ExitMovesTree, Zenon
    DEF Life!Exits, Life!Awake, Life!Known, Life!Kernel, AlivePids, ZombiePids, WaitingPids,
        KnownPids, ParentTree
<1>3. pid[Caller] \in AlivePids
    BY ExitMovesTree, Zenon
<1> QED BY <1>2, <1>3, Zenon DEF Life!LifeNext, AlivePids

\* process_wait_current that blocks.
LEMMA WaitIsLife ==
    ASSUME ProcInv, ProcInv', NEW arg, WaitBlock(arg)
    PROVE  Life!LifeNext
<1>1. next_pid' = next_pid
    BY Zenon DEF WaitBlock
<1>2. PICK m \in AlivePids : ParentTree[m] = pid[Caller]
    BY WaitMovesTree, Zenon
<1>3. Life!Waits(pid[Caller], m)
    BY <1>1, <1>2, WaitMovesTree, Zenon
    DEF Life!Waits, Life!Awake, Life!Known, Life!Kernel, AlivePids, ZombiePids, WaitingPids,
        KnownPids, ParentTree
<1>4. pid[Caller] \in AlivePids
    BY WaitMovesTree, Zenon
<1> QED BY <1>2, <1>3, <1>4, Zenon DEF Life!LifeNext, AlivePids

\* A step that does not touch the table is none of the tree.
LEMMA StutterInLife ==
    ASSUME pstate' = pstate, pid' = pid, ppid' = ppid, next_pid' = next_pid
    PROVE  UNCHANGED Life!lifeVars
BY Zenon DEF Life!lifeVars, PidsIn, process_get, UsedSlots

\* Every step of the process layer is a step of the tree, or none.
LEMMA StepIsLife ==
    ASSUME ProcInv, [Next]_vars
    PROVE  [Life!LifeNext]_(Life!lifeVars)
<1>i. ProcInv'
    BY ProcStepKeepsInv
<1>k. /\ KernelSlot \in UsedSlots /\ pid[KernelSlot] = 0
      /\ pstate[KernelSlot] \notin {"ZOMBIE", "BLOCKED"}
    BY FixedSlots DEF ProcInv, KernelProcess, UsedSlots
<1>z. 0 \in Pids
    BY MaxPidAssumption DEF Pids
<1>1. CASE CreateInit \/ Start \/ Tick \/ InitExit
    BY <1>1, StutterInLife, Zenon DEF CreateInit, Start, Tick, InitExit, procVars
<1>2. CASE BootSpawn
    BY <1>2, <1>i, <1>k, SpawnIsLife, AbortIsLife, Zenon DEF BootSpawn
<1>3. CASE BootReap
    BY <1>3, <1>i, <1>k, <1>z, ReapIsLife, Zenon DEF BootReap
<1>4. CASE InitSpawn
    <2>1. CASE SpawnOk(0) \/ SpawnAbort(0)
        BY <1>i, <1>k, <2>1, SpawnIsLife, AbortIsLife, Zenon
    <2>2. CASE UNCHANGED procVars
        BY <2>2, StutterInLife, Zenon DEF procVars
    <2> QED BY <1>4, <2>1, <2>2, Zenon DEF InitSpawn
<1>5. CASE InitReap
    <2>1. CASE ZombiesOf(0, init_pid) # {} /\ Destroy(Lowest(ZombiesOf(0, init_pid)))
        BY <1>i, <1>k, <1>z, <2>1, ReapIsLife, ZenonT(30)
    <2>2. CASE UNCHANGED procVars
        BY <2>2, StutterInLife, Zenon DEF procVars
    <2> QED BY <1>5, <2>1, <2>2, Zenon DEF InitReap
<1>c. UserCall => /\ Caller \in UsedSlots /\ pstate[Caller] \notin {"ZOMBIE", "BLOCKED"}
                  /\ pid[Caller] \in Pids
    <2> SUFFICES ASSUME UserCall
                 PROVE  /\ Caller \in UsedSlots /\ pstate[Caller] \notin {"ZOMBIE", "BLOCKED"}
                        /\ pid[Caller] \in Pids
        OBVIOUS
    <2>1. Caller \in UsedSlots /\ pstate[Caller] = "READY"
        BY CallerFacts, Zenon
    <2>2. pid[Caller] \in 0 .. next_pid - 1
        BY <2>1, Zenon DEF ProcInv, PidsAreUnique
    <2>3. pid[Caller] \in Pids
        BY <2>2, MaxPidAssumption, SMTT(30), Z3T(30) DEF ProcInv, TypeOK, Pids
    <2> QED BY <2>1, <2>3
<1>6. CASE Fork
    BY <1>6, <1>i, <1>c, SpawnIsLife, AbortIsLife, Zenon DEF Fork
<1>7. CASE Execve
    BY <1>7, StutterInLife, Zenon DEF Execve
<1>8. CASE Exit
    BY <1>8, <1>i, ExitIsLife, Zenon
<1>9. ASSUME NEW arg \in Pids \cup {AnyChild}, WaitReap(arg) PROVE Life!LifeNext
    BY <1>9, <1>i, <1>c, ReapIsLife, Zenon DEF WaitReap
<1>10. ASSUME NEW arg \in Pids \cup {AnyChild}, WaitBlock(arg) PROVE Life!LifeNext
    BY <1>10, <1>i, WaitIsLife, Zenon
<1>11. CASE UNCHANGED vars
    BY <1>11, StutterInLife, Zenon DEF vars, procVars
<1> QED
    BY <1>1, <1>2, <1>3, <1>4, <1>5, <1>6, <1>7, <1>8, <1>9, <1>10, <1>11, Zenon DEF Next

\* The table process_init leaves is the tree with the kernel alone.
LEMMA InitIsLife == Init => Life!LifeInit
<1> SUFFICES ASSUME Init PROVE Life!LifeInit
    OBVIOUS
<1>1. ProcInv
    BY InitGivesProcInv
<1>2. UsedSlots = {KernelSlot} /\ pid[KernelSlot] = 0 /\ ppid[KernelSlot] = NoPid
    BY FixedSlots, Zenon DEF Init, UsedSlots
<1>3. pstate[KernelSlot] = "RUNNING"
    BY FixedSlots, Zenon DEF Init
<1>4. pstate[KernelSlot] # "ZOMBIE" /\ pstate[KernelSlot] # "BLOCKED"
    BY <1>3
<1>5. TreeToTable /\ TableToTree /\ KnownPids = AlivePids \cup ZombiePids
    BY <1>1, TreeBefore, Zenon
<1>6. AlivePids = {0}
    <2>1. 0 \in AlivePids
        BY <1>2, <1>4, <1>5, Zenon DEF TableToTree
    <2>2. \A n \in AlivePids : \E s \in UsedSlots : pid[s] = n
        BY <1>5, Zenon DEF TreeToTable
    <2> QED BY <1>2, <2>1, <2>2, Zenon
<1>7. ZombiePids = {} /\ WaitingPids = {}
    BY <1>2, <1>4, <1>5, ZenonT(30) DEF TreeToTable
<1>8. KnownPids = {0}
    BY <1>5, <1>6, <1>7, Zenon
<1>9. ParentTree[0] = NoPid
    BY <1>2, <1>5, Zenon DEF TableToTree
<1>10. ParentTree = [n \in {0} |-> NoPid]
    <2>1. ParentTree = [n \in KnownPids |-> ParentTree[n]]
        BY Zenon DEF ParentTree
    <2> QED BY <1>8, <1>9, <2>1, Zenon
<1>11. next_pid = 1
    BY Zenon DEF Init
<1> QED BY <1>6, <1>7, <1>10, <1>11, Zenon
    DEF Life!LifeInit, Life!Kernel, AlivePids, ZombiePids, WaitingPids, KnownPids, ParentTree,
        NoPid

(***************************************************************************)
(* The process table implements the tree of module Lifecycle: whatever     *)
(* slots are reused, whoever is scheduled, a process is alive, then a      *)
(* zombie, then gone, its orphans go to its parent, only its parent reaps  *)
(* it, and the exit of a child releases a parent that waits.               *)
(***************************************************************************)
THEOREM LifecycleImplemented == Spec => ImplementsLifecycle
<1>1. ProcInv /\ [Next]_vars => [Life!LifeNext]_(Life!lifeVars)
    BY StepIsLife
<1> QED BY <1>1, InitIsLife, ProcInvariance, PTL DEF Spec, ImplementsLifecycle, Life!LifeSpec
=============================================================================
