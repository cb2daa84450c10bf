------------------------------ MODULE Lifecycle ------------------------------
(***************************************************************************)
(* What the process layer promises, with no table, thread or scheduler:    *)
(* a tree of processes rooted at the kernel, in which a process is alive,  *)
(* then a zombie, then gone; an exiting process leaves its children to its *)
(* parent; only a parent reaps; and a process that waits is released by    *)
(* the exit of a child.                                                    *)
(***************************************************************************)
EXTENDS Integers

CONSTANT MaxPid

VARIABLES
    alive,    \* pids of processes that have not exited
    zombies,  \* pids of processes that have exited and are not reaped
    parent,   \* the parent of each process
    waiting,  \* the processes blocked in wait4
    fresh     \* pids from here on have never been used

lifeVars == <<alive, zombies, parent, waiting, fresh>>

Kernel == 0
Known == alive \cup zombies
Awake == alive \ waiting

LifeInit ==
    /\ alive = {Kernel}
    /\ zombies = {}
    /\ parent = [n \in {Kernel} |-> -1]
    /\ waiting = {}
    /\ fresh = 1

\* A pid handed out to a process that could not be completed is not reused.
LoseFreshPid ==
    /\ fresh <= MaxPid
    /\ fresh' = fresh + 1
    /\ UNCHANGED <<alive, zombies, parent, waiting>>

Spawn(p) ==
    /\ p \in Awake
    /\ fresh <= MaxPid
    /\ alive' = alive \cup {fresh}
    /\ parent' = [n \in Known \cup {fresh} |-> IF n = fresh THEN p ELSE parent[n]]
    /\ fresh' = fresh + 1
    /\ UNCHANGED <<zombies, waiting>>

Exits(p) ==
    /\ p \in Awake \ {Kernel}
    /\ alive' = alive \ {p}
    /\ zombies' = zombies \cup {p}
    /\ parent' = [n \in Known |-> IF parent[n] = p THEN parent[p] ELSE parent[n]]
    /\ waiting' = waiting \ {parent[p]}
    /\ UNCHANGED fresh

Reaps(p, z) ==
    /\ p \in Awake /\ z \in zombies
    /\ parent[z] = p
    /\ zombies' = zombies \ {z}
    /\ parent' = [n \in Known \ {z} |-> parent[n]]
    /\ UNCHANGED <<alive, waiting, fresh>>

Waits(p, c) ==
    /\ p \in Awake \ {Kernel} /\ c \in alive
    /\ parent[c] = p
    /\ waiting' = waiting \cup {p}
    /\ UNCHANGED <<alive, zombies, parent, fresh>>

LifeNext ==
    \/ LoseFreshPid
    \/ \E p \in alive : Spawn(p) \/ Exits(p)
    \/ \E p \in alive, z \in zombies : Reaps(p, z)
    \/ \E p \in alive, c \in alive : Waits(p, c)

LifeSpec == LifeInit /\ [][LifeNext]_lifeVars
=============================================================================
