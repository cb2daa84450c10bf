-------------------------- MODULE ProcessLifecycle --------------------------
(***************************************************************************)
(* The process table implements the abstract tree of processes: a process  *)
(* is known by its pid, and slots, threads, spaces and the run queue are   *)
(* hidden.                                                                 *)
(***************************************************************************)
EXTENDS Process

PidsIn(states) == {pid[s] : s \in {q \in Slots : pstate[q] \in states}}

Life == INSTANCE Lifecycle WITH
    alive   <- PidsIn({"READY", "RUNNING", "BLOCKED"}),
    zombies <- PidsIn({"ZOMBIE"}),
    parent  <- [n \in PidsIn(ProcState \ {"UNUSED"}) |-> ppid[process_get(n)]],
    waiting <- PidsIn({"BLOCKED"}),
    fresh   <- next_pid

\* Every step of the process layer is a step of the process tree, or none.
ImplementsLifecycle == Life!LifeSpec

=============================================================================
