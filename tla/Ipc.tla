--------------------------------- MODULE Ipc ---------------------------------
(***************************************************************************)
(* Endpoints, handles and messages (kernel/ipc/ipc.c).  Every operation is *)
(* a system call, which runs with interrupts disabled: one action each.    *)
(* This module holds the endpoint registry and the handle tables; closing, *)
(* exiting and the rest of a process's life also touch the service         *)
(* registry and are composed in module Svc.                                *)
(*                                                                         *)
(* An endpoint's queue is the bounded FIFO that module MsgQueue shows the  *)
(* ring buffer to implement.  registry_count is left out: it is a high-    *)
(* water mark above which every entry is free, so scanning to it, and      *)
(* growing it when nothing below is free, is taking the first free entry.  *)
(* A handle table that is not yet allocated is one with no handle in use.  *)
(* Calls that fail change nothing and have no action.                      *)
(*                                                                         *)
(* A definition marked Mutant is no part of the model (see Scheduler).     *)
(***************************************************************************)
EXTENDS Integers, Sequences, FiniteSetsExt

CONSTANTS
    MaxPid,        \* bound: the number of processes ever created
    MaxHandles,    \* IPC_MAX_HANDLES
    MaxEndpoints,  \* IPC_MAX_TOTAL_ENDPOINTS
    QueueDepth,    \* IPC_MAX_QUEUE_DEPTH
    Tags           \* what a sender may put in a message

ASSUME IpcAssumption ==
    /\ MaxPid \in Nat
    /\ MaxHandles \in Nat /\ MaxHandles >= 1
    /\ MaxEndpoints \in Nat /\ MaxEndpoints >= 1
    /\ QueueDepth \in Nat /\ QueueDepth >= 1

VARIABLES
    life,      \* where each pid is in its life; pids are never reused
    handles,   \* p->ipc_handles: the endpoint name each handle holds
    registry   \* ipc_endpoint_registry

Pids == 1 .. MaxPid
Handles == 0 .. MaxHandles - 1
Entries == 0 .. MaxEndpoints - 1

\* An endpoint's name is its owner's pid and the handle it was created as.
EndpointName == Pids \X Handles
Unallocated == <<0, 0>>

Message == [from : Pids, tag : Tags]
Endpoint == [name : EndpointName, closed : BOOLEAN, queue : Seq(Message)]
NoEndpoint == [name |-> Unallocated, closed |-> FALSE, queue |-> << >>]
NoEntry == -1

Living == {p \in Pids : life[p] = "living"}

-----------------------------------------------------------------------------
FreeHandles(p) == {h \in Handles : handles[p][h] = Unallocated}
FreeEntries == {i \in Entries : registry[i] = NoEndpoint}

\* The first entry of that name, closed or not.
ipc_endpoint_lookup(name) ==
    LET hits == {i \in Entries : registry[i] # NoEndpoint /\ registry[i].name = name}
    IN  IF hits = {} THEN NoEntry ELSE Min(hits)

\* What p's handle h reaches.
Target(p, h) ==
    IF handles[p][h] = Unallocated THEN NoEntry ELSE ipc_endpoint_lookup(handles[p][h])

\* The tail of connect, sr_lookup and endpoint_create: aim a handle.
Aim(p, h, name) == handles' = [handles EXCEPT ![p][h] = name]

\* ipc_endpoint_unregister_by_owner: what is left of the registry.
WithoutOwner(p) ==
    [i \in Entries |-> IF registry[i].name[1] = p THEN NoEndpoint ELSE registry[i]]

-----------------------------------------------------------------------------
IpcInit ==
    /\ life = [p \in Pids |-> "unborn"]
    /\ handles = [p \in Pids |-> [h \in Handles |-> Unallocated]]
    /\ registry = [i \in Entries |-> NoEndpoint]

sys_ipc_endpoint_create(p) ==
    /\ p \in Living
    /\ FreeHandles(p) # {} /\ FreeEntries # {}
    /\ LET name == <<p, Min(FreeHandles(p))>> IN
       /\ registry' = [registry EXCEPT ![Min(FreeEntries)] =
                          [name |-> name, closed |-> FALSE, queue |-> << >>]]
       /\ Aim(p, name[2], name)
    /\ UNCHANGED life

sys_ipc_send(p, h, tag) ==
    LET i == Target(p, h) IN
    /\ p \in Living
    /\ i # NoEntry
    /\ Len(registry[i].queue) < QueueDepth
    /\ ~registry[i].closed
    /\ registry' = [registry EXCEPT ![i].queue = Append(@, [from |-> p, tag |-> tag])]
    /\ UNCHANGED <<life, handles>>

\* The message leaves the queue before the caller's buffers are looked at:
\* it is gone whether the copies succeed or fault.
sys_ipc_recv(p, h) ==
    LET i == Target(p, h) IN
    /\ p \in Living
    /\ i # NoEntry
    /\ registry[i].queue # << >>
    /\ registry' = [registry EXCEPT ![i].queue = Tail(@)]
    /\ UNCHANGED <<life, handles>>

sys_ipc_connect(p, name) ==
    LET i == ipc_endpoint_lookup(name) IN
    /\ p \in Living
    /\ i # NoEntry
    /\ ~registry[i].closed
    /\ FreeHandles(p) # {}
    /\ Aim(p, Min(FreeHandles(p)), name)
    /\ UNCHANGED <<life, registry>>

\* Mutant: any holder of a handle closes the endpoint it names.
OwnsAny(p, i) == i # NoEntry

\* The condition of sys_ipc_close's inner branch.
Owns(p, i) == i # NoEntry /\ registry[i].name[1] = p

\* Mutant: closing an endpoint takes it out of the registry at once.
CloseReleases(p, h) ==
    LET i == Target(p, h) IN
    /\ p \in Living
    /\ handles[p][h] # Unallocated
    /\ registry' = IF Owns(p, i) THEN [registry EXCEPT ![i] = NoEndpoint] ELSE registry
    /\ Aim(p, h, Unallocated)
    /\ UNCHANGED life

\* sys_ipc_close without its call into the service registry.
CloseHandle(p, h) ==
    LET i == Target(p, h) IN
    /\ p \in Living
    /\ handles[p][h] # Unallocated
    /\ registry' = IF Owns(p, i) THEN [registry EXCEPT ![i].closed = TRUE] ELSE registry
    /\ Aim(p, h, Unallocated)
    /\ UNCHANGED life

-----------------------------------------------------------------------------
(***************************************************************************)
(* A process as far as IPC sees it: created with no handles, or by fork    *)
(* with a copy of its parent's; its endpoints go when it exits, its table  *)
(* when it is reaped.                                                      *)
(***************************************************************************)
Born(p) == life[p] = "unborn" /\ \A q \in Pids : q < p => life[q] # "unborn"

Spawn(p) ==
    /\ Born(p)
    /\ life' = [life EXCEPT ![p] = "living"]
    /\ UNCHANGED <<handles, registry>>

ForkHandles(p, c) ==
    /\ p \in Living /\ Born(c)
    /\ life' = [life EXCEPT ![c] = "living"]
    /\ handles' = [handles EXCEPT ![c] = handles[p]]
    /\ UNCHANGED registry

\* Mutant: exit leaves the endpoints to the reaper.
ExitEndpointsLater(p) ==
    /\ p \in Living
    /\ life' = [life EXCEPT ![p] = "zombie"]
    /\ UNCHANGED <<handles, registry>>

\* process_exit_current: endpoints go, the handle table stays in the PCB.
ExitEndpoints(p) ==
    /\ p \in Living
    /\ life' = [life EXCEPT ![p] = "zombie"]
    /\ registry' = WithoutOwner(p)
    /\ UNCHANGED handles

\* process_destroy: the endpoints again, and the handle table.
DestroyHandles(p) ==
    /\ life[p] = "zombie"
    /\ life' = [life EXCEPT ![p] = "reaped"]
    /\ registry' = WithoutOwner(p)
    /\ handles' = [handles EXCEPT ![p] = [h \in Handles |-> Unallocated]]
=============================================================================
