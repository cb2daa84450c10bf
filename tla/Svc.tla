--------------------------------- MODULE Svc ---------------------------------
(***************************************************************************)
(* The service registry (kernel/svc/svc.c) over the endpoints of module    *)
(* Ipc: names for endpoints, looked up by clients.  svc_count is left out  *)
(* for the same reason as registry_count.  A service name is a model       *)
(* value; the scan compares whole names and refuses the empty one.         *)
(***************************************************************************)
EXTENDS Ipc

CONSTANTS
    MaxServices,   \* SVC_MAX_SERVICES
    ServiceNames,  \* the names servers use
    NoName         \* name[0] = 0: a free slot

ASSUME SvcAssumption ==
    /\ MaxServices \in Nat /\ MaxServices >= 1
    /\ NoName \notin ServiceNames

VARIABLE svc_registry

ipcVars == <<life, handles, registry>>
vars == <<ipcVars, svc_registry>>

Services == 0 .. MaxServices - 1
FreeSlot == [name |-> NoName, endpoint |-> Unallocated]

-----------------------------------------------------------------------------
FreeSlots == {s \in Services : svc_registry[s] = FreeSlot}
FindName(n) == {s \in Services : svc_registry[s].name = n}
SlotsOf(endpoint) == {s \in Services : svc_registry[s].endpoint = endpoint}

Clear(S) == svc_registry' = [s \in Services |-> IF s \in S THEN FreeSlot ELSE svc_registry[s]]

svc_check_endpoint(p, h) ==
    /\ handles[p][h] # Unallocated
    /\ handles[p][h][1] = p
    /\ Owns(p, Target(p, h))

\* Only the first slot that names the endpoint is cleared.
svc_on_endpoint_close(endpoint) ==
    Clear(IF SlotsOf(endpoint) = {} THEN {} ELSE {Min(SlotsOf(endpoint))})

\* Mutant: the owner's first name is dropped, the others stay.
CleanupFirst(p) ==
    LET mine == {s \in Services : svc_registry[s].endpoint[1] = p}
    IN  Clear(IF mine = {} THEN {} ELSE {Min(mine)})

svc_cleanup_owner(p) == Clear({s \in Services : svc_registry[s].endpoint[1] = p})

-----------------------------------------------------------------------------
SvcInit ==
    /\ IpcInit
    /\ svc_registry = [s \in Services |-> FreeSlot]

\* Mutant: the scan for a name already taken is left out.
RegisterTaken(p, n, h) ==
    /\ p \in Living
    /\ svc_check_endpoint(p, h)
    /\ FreeSlots # {}
    /\ svc_registry' = [svc_registry EXCEPT ![Min(FreeSlots)] =
                           [name |-> n, endpoint |-> handles[p][h]]]
    /\ UNCHANGED ipcVars

sys_sr_register(p, n, h) ==
    /\ p \in Living
    /\ svc_check_endpoint(p, h)
    /\ FindName(n) = {}
    /\ FreeSlots # {}
    /\ svc_registry' = [svc_registry EXCEPT ![Min(FreeSlots)] =
                           [name |-> n, endpoint |-> handles[p][h]]]
    /\ UNCHANGED ipcVars

\* The handle only has to be one of the caller's own endpoints, not the one
\* registered under the name.
sys_sr_unregister(p, n, h) ==
    /\ p \in Living
    /\ svc_check_endpoint(p, h)
    /\ FindName(n) # {}
    /\ LET s == Min(FindName(n)) IN
       /\ svc_registry[s].endpoint[1] = p
       /\ Clear({s})
    /\ UNCHANGED ipcVars

sys_sr_lookup(p, n) ==
    /\ p \in Living
    /\ FindName(n) # {}
    /\ FreeHandles(p) # {}
    /\ Aim(p, Min(FreeHandles(p)), svc_registry[Min(FindName(n))].endpoint)
    /\ UNCHANGED <<life, registry, svc_registry>>

sys_ipc_close(p, h) ==
    /\ CloseHandle(p, h)
    /\ IF Owns(p, Target(p, h))
       THEN svc_on_endpoint_close(handles[p][h])
       ELSE UNCHANGED svc_registry

Exit(p) == ExitEndpoints(p) /\ svc_cleanup_owner(p)
Destroy(p) == DestroyHandles(p) /\ svc_cleanup_owner(p)

Transport(p) ==
    \/ sys_ipc_endpoint_create(p)
    \/ \E h \in Handles, tag \in Tags : sys_ipc_send(p, h, tag)
    \/ \E h \in Handles : sys_ipc_recv(p, h)
    \/ \E name \in EndpointName : sys_ipc_connect(p, name)
    \/ Spawn(p)
    \/ \E c \in Pids : ForkHandles(p, c)

SvcNext ==
    \E p \in Pids :
        \/ Transport(p) /\ UNCHANGED svc_registry
        \/ \E n \in ServiceNames, h \in Handles : sys_sr_register(p, n, h)
        \/ \E n \in ServiceNames, h \in Handles : sys_sr_unregister(p, n, h)
        \/ \E n \in ServiceNames : sys_sr_lookup(p, n)
        \/ \E h \in Handles : sys_ipc_close(p, h)
        \/ Exit(p)
        \/ Destroy(p)

SvcSpec == SvcInit /\ [][SvcNext]_vars

-----------------------------------------------------------------------------
(***************************************************************************)
(* Every table holds values of its type, and only as many messages as a    *)
(* queue has room for.                                                     *)
(***************************************************************************)
SvcTypeOK ==
    /\ life \in [Pids -> {"unborn", "living", "zombie", "reaped"}]
    /\ handles \in [Pids -> [Handles -> EndpointName \cup {Unallocated}]]
    /\ registry \in [Entries -> Endpoint \cup {NoEndpoint}]
    /\ \A i \in Entries : Len(registry[i].queue) <= QueueDepth
    /\ svc_registry \in [Services -> [name : ServiceNames, endpoint : EndpointName]
                                        \cup {FreeSlot}]

(***************************************************************************)
(* A zombie must not keep accepting messages nobody will ever read         *)
(* (process_exit_current): every registered endpoint has a living owner,   *)
(* whatever handles other processes still hold on it.                      *)
(***************************************************************************)
EndpointsHaveLivingOwners ==
    \A i \in Entries : registry[i] # NoEndpoint => registry[i].name[1] \in Living

(***************************************************************************)
(* A lookup never leads to nothing (svc.c, "No stale lookup ever names a   *)
(* dead endpoint"): a registered name belongs to a living process and the  *)
(* endpoint it names is in the IPC registry, so the handle sr_lookup       *)
(* returns resolves.  That it resolves to an OPEN endpoint is not true.    *)
(***************************************************************************)
NamedEndpointExists ==
    \A s \in Services : svc_registry[s] # FreeSlot =>
        /\ svc_registry[s].endpoint[1] \in Living
        /\ ipc_endpoint_lookup(svc_registry[s].endpoint) # NoEntry

(***************************************************************************)
(* A living process's handle on an endpoint of its own always resolves,    *)
(* closed or not: the "already gone" test of svc_check_endpoint cannot     *)
(* fail, and an owner never sees -EBADF for a handle it holds.             *)
(***************************************************************************)
OwnHandlesResolve ==
    \A p \in Living, h \in Handles :
        handles[p][h][1] = p => Owns(p, Target(p, h))

\* In this step p frees a handle it holds on the endpoint.
GivesUp(p, name) ==
    \E h \in Handles : handles[p][h] = name /\ handles'[p][h] = Unallocated

EndedByOwner(i) ==
    LET name == registry[i].name IN
    registry[i] # NoEndpoint =>
        /\ registry'[i].name # name => name[1] \in Living /\ life'[name[1]] = "zombie"
        /\ registry'[i].name = name /\ registry'[i].closed # registry[i].closed
              => GivesUp(name[1], name)

(***************************************************************************)
(* Only an endpoint's owner ends it: an open endpoint is closed only when  *)
(* its owner gives up a handle on it, and leaves the registry only when    *)
(* its owner exits.  Handles inherited over fork or got by connect or      *)
(* sr_lookup let other processes use an endpoint, never end it.            *)
(***************************************************************************)
OnlyOwnerEnds == [][\A i \in Entries : EndedByOwner(i)]_vars

Directory == INSTANCE Directory WITH
    Servers <- Pids,
    Endpoints <- Handles,
    Names <- ServiceNames,
    Nowhere <- Unallocated,
    up <- Living,
    bound <- [n \in ServiceNames |->
                 IF FindName(n) = {} THEN Unallocated
                 ELSE svc_registry[Min(FindName(n))].endpoint]

(***************************************************************************)
(* The slots of the registry implement the directory: binding a name, the  *)
(* owner dropping it (sr_unregister, or closing the endpoint) and the      *)
(* owner's exit are the only steps that change what a name leads to.       *)
(***************************************************************************)
ImplementsDirectory == Directory!DirSpec
=============================================================================
