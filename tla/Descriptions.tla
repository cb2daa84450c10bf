---------------------------- MODULE Descriptions ----------------------------
(***************************************************************************)
(* What the descriptor layer promises, without reference counts.  An open  *)
(* file description lasts while some descriptor of some process refers to  *)
(* it, and no longer.  Opening makes a new one, fork shares all of the     *)
(* parent's, and only a process that has a descriptor on it moves its      *)
(* position; what it was opened on never changes.                          *)
(***************************************************************************)
CONSTANTS Processes, Slots, Objects, Nothing

VARIABLES
    refers,    \* the description each descriptor refers to
    target,    \* what a description was opened on, "free" if it is none
    position

descVars == <<refers, target, position>>

InUse(r) == {r[p][s] : p \in Processes, s \in Slots} \ {Nothing}

\* Descriptions nothing refers to are gone, the others are as they were.
Collect ==
    /\ target' = [o \in Objects |-> IF o \in InUse(refers') THEN target[o] ELSE "free"]
    /\ position' = [o \in Objects |-> IF o \in InUse(refers') THEN position[o] ELSE 0]

DescInit ==
    /\ refers = [p \in Processes |-> [s \in Slots |-> Nothing]]
    /\ target = [o \in Objects |-> "free"]
    /\ position = [o \in Objects |-> 0]

Open(p, s, o) ==
    /\ refers[p][s] = Nothing /\ o \notin InUse(refers)
    /\ refers' = [refers EXCEPT ![p][s] = o]
    /\ target'[o] # "free" /\ target' = [target EXCEPT ![o] = target'[o]]
    /\ UNCHANGED position

Move(p, s) ==
    /\ refers[p][s] # Nothing
    /\ position' = [position EXCEPT ![refers[p][s]] = position'[refers[p][s]]]
    /\ UNCHANGED <<refers, target>>

Share(p, c) ==
    /\ \A s \in Slots : refers[c][s] = Nothing
    /\ refers' = [refers EXCEPT ![c] = refers[p]]
    /\ UNCHANGED <<target, position>>

Drop(p) ==
    /\ \E S \in SUBSET Slots :
          refers' = [refers EXCEPT ![p] =
                        [s \in Slots |-> IF s \in S THEN Nothing ELSE refers[p][s]]]
    /\ Collect

DescNext ==
    \E p \in Processes :
        \/ \E s \in Slots, o \in Objects : Open(p, s, o)
        \/ \E s \in Slots : Move(p, s)
        \/ \E c \in Processes : Share(p, c)
        \/ Drop(p)

DescSpec == DescInit /\ [][DescNext]_descVars
=============================================================================
