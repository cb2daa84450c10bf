------------------------------ MODULE Directory ------------------------------
(***************************************************************************)
(* What the service registry promises: a name is bound to at most one      *)
(* endpoint, stays bound to it until its server drops the name or dies,    *)
(* and no name of a dead server is left.                                   *)
(***************************************************************************)
CONSTANTS Servers, Endpoints, Names, Nowhere

VARIABLES
    bound,  \* what each name leads to: <<server, endpoint>> or Nowhere
    up      \* the servers that are running

dirVars == <<bound, up>>

NamesOf(p) == {n \in Names : bound[n] # Nowhere /\ bound[n][1] = p}

DirInit ==
    /\ bound = [n \in Names |-> Nowhere]
    /\ up = {}

StartUp(p) == p \notin up /\ up' = up \cup {p} /\ UNCHANGED bound

Bind(p, n, e) ==
    /\ p \in up /\ bound[n] = Nowhere
    /\ bound' = [bound EXCEPT ![n] = <<p, e>>]
    /\ UNCHANGED up

Drop(p, n) ==
    /\ p \in up /\ n \in NamesOf(p)
    /\ bound' = [bound EXCEPT ![n] = Nowhere]
    /\ UNCHANGED up

Die(p) ==
    /\ p \in up
    /\ up' = up \ {p}
    /\ bound' = [n \in Names |-> IF n \in NamesOf(p) THEN Nowhere ELSE bound[n]]

DirNext ==
    \E p \in Servers :
        \/ StartUp(p)
        \/ Die(p)
        \/ \E n \in Names : Drop(p, n) \/ \E e \in Endpoints : Bind(p, n, e)

DirSpec == DirInit /\ [][DirNext]_dirVars
=============================================================================
