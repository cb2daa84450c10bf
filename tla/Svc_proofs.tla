----------------------------- MODULE Svc_proofs -----------------------------
(***************************************************************************)
(* Proofs of the safety properties of module Svc, for any number of        *)
(* processes, handles, endpoints and service slots.                        *)
(***************************************************************************)
EXTENDS Svc, SequenceTheorems, WellFoundedInduction, TLAPS

\* The names ipc_endpoint_lookup finds.
Registered == {registry[i].name : i \in {j \in Entries : registry[j] # NoEndpoint}}

(***************************************************************************)
(* The properties in terms of Registered, and what makes them inductive:   *)
(* a handle never names an endpoint of a pid that has not been handed out, *)
(* so a new process starts with no handle that would count as its own.     *)
(***************************************************************************)
NamesOk == \A s \in Services :
    svc_registry[s] # FreeSlot => svc_registry[s].endpoint \in Registered
OwnOk == \A p \in Living, h \in Handles :
    handles[p][h][1] = p => handles[p][h] \in Registered
BornOk == \A p \in Pids, h \in Handles :
    handles[p][h] # Unallocated => life[handles[p][h][1]] # "unborn"

SvcInv == SvcTypeOK /\ EndpointsHaveLivingOwners /\ NamesOk /\ OwnOk /\ BornOk

-----------------------------------------------------------------------------
\* A scan for the first match returns a match.
LEMMA MinIsMember ==
    ASSUME NEW S \in SUBSET Nat, S # {}
    PROVE  Min(S) \in S
<1> DEFINE R == {ss \in Nat \X Nat : ss[1] < ss[2]}
<1>1. IsWellFoundedOn(R, Nat)
    BY NatLessThanWellFounded DEF OpToRel
<1>2. \A x, y \in Nat : y < x => <<y, x>> \in R
    OBVIOUS
<1> HIDE DEF R
<1>3. PICK x \in S : \A y \in S : ~ (<<y, x>> \in R)
    BY <1>1, WFMin, Zenon
<1>4. \A y \in S : ~(y < x)
    BY <1>2, <1>3, Zenon
<1>5. \A y \in S : x <= y
    BY <1>4
<1> QED BY <1>5, Zenon DEF Min

\* The index sets are sets of naturals without NoEntry, and no endpoint is
\* called Unallocated.
LEMMA Ranges ==
    /\ Entries \in SUBSET Nat /\ Handles \in SUBSET Nat /\ Services \in SUBSET Nat
    /\ NoEntry \notin Entries
    /\ \A name \in EndpointName : /\ name # Unallocated
                                  /\ name[1] \in Pids /\ name[2] \in Handles
                                  /\ name = <<name[1], name[2]>>
    /\ Unallocated[1] \notin Pids
BY IpcAssumption, SvcAssumption
DEF Entries, Handles, Services, NoEntry, EndpointName, Unallocated, Pids

\* ipc_endpoint_lookup finds exactly the registered names.
LEMMA LookupFinds ==
    ASSUME NEW name
    PROVE  LET i == ipc_endpoint_lookup(name) IN
           /\ i # NoEntry <=> name \in Registered
           /\ i # NoEntry => i \in Entries /\ registry[i].name = name /\ registry[i] # NoEndpoint
<1> DEFINE hits == {i \in Entries : registry[i] # NoEndpoint /\ registry[i].name = name}
<1>1. ipc_endpoint_lookup(name) = IF hits = {} THEN NoEntry ELSE Min(hits)
    BY DEF ipc_endpoint_lookup
<1>2. hits \in SUBSET Nat
    BY Ranges
<1>3. hits # {} => Min(hits) \in hits
    BY <1>2, MinIsMember
<1>4. hits # {} <=> name \in Registered
    BY DEF Registered
<1> QED
    BY <1>1, <1>3, <1>4, Ranges, Zenon

\* A slot or entry is in use exactly if it has a name.
LEMMA UsedHasName ==
    ASSUME SvcTypeOK
    PROVE  /\ \A i \in Entries : registry[i] # NoEndpoint =>
                 registry[i] \in Endpoint /\ registry[i].name \in EndpointName
           /\ \A s \in Services : svc_registry[s] # FreeSlot =>
                 svc_registry[s].endpoint \in EndpointName
           /\ NoEndpoint.name = Unallocated /\ FreeSlot.endpoint = Unallocated
BY DEF SvcTypeOK, NoEndpoint, FreeSlot, Endpoint

\* The inductive invariant says what the checked properties say.
LEMMA InvImpliesProperties ==
    ASSUME SvcInv
    PROVE  SvcTypeOK /\ EndpointsHaveLivingOwners /\ NamedEndpointExists /\ OwnHandlesResolve
<1>1. NamedEndpointExists
    <2> SUFFICES ASSUME NEW s \in Services, svc_registry[s] # FreeSlot
                 PROVE  /\ svc_registry[s].endpoint[1] \in Living
                        /\ ipc_endpoint_lookup(svc_registry[s].endpoint) # NoEntry
        BY DEF NamedEndpointExists
    <2> DEFINE name == svc_registry[s].endpoint
    <2>1. name \in Registered
        BY DEF SvcInv, NamesOk
    <2>2. PICK i \in Entries : registry[i] # NoEndpoint /\ registry[i].name = name
        BY <2>1 DEF Registered
    <2>3. name[1] \in Living
        BY <2>2, Zenon DEF SvcInv, EndpointsHaveLivingOwners
    <2> QED
        BY <2>1, <2>3, LookupFinds, Zenon
<1>2. OwnHandlesResolve
    <2> SUFFICES ASSUME NEW p \in Living, NEW h \in Handles, handles[p][h][1] = p
                 PROVE  Owns(p, Target(p, h))
        BY DEF OwnHandlesResolve
    <2>1. handles[p][h] \in Registered
        BY DEF SvcInv, OwnOk
    <2>2. handles[p][h] # Unallocated
        BY Ranges DEF Living
    <2>3. Target(p, h) = ipc_endpoint_lookup(handles[p][h])
        BY <2>2 DEF Target
    <2> QED
        BY <2>1, <2>3, LookupFinds, Zenon DEF Owns
<1> QED
    BY <1>1, <1>2, Zenon DEF SvcInv

-----------------------------------------------------------------------------
\* At boot all tables are empty.
LEMMA SvcInitEstablishesInv == SvcInit => SvcInv
<1> SUFFICES ASSUME SvcInit PROVE SvcInv
    OBVIOUS
<1>1. /\ life = [p \in Pids |-> "unborn"]
      /\ handles = [p \in Pids |-> [h \in Handles |-> Unallocated]]
      /\ registry = [i \in Entries |-> NoEndpoint]
      /\ svc_registry = [s \in Services |-> FreeSlot]
    BY DEF SvcInit, IpcInit
<1>2. SvcTypeOK
    <2>1. Len(NoEndpoint.queue) <= QueueDepth
        BY IpcAssumption DEF NoEndpoint
    <2> QED
        BY <1>1, <2>1 DEF SvcTypeOK
<1>3. EndpointsHaveLivingOwners /\ NamesOk /\ BornOk
    BY <1>1 DEF EndpointsHaveLivingOwners, NamesOk, BornOk
<1>4. OwnOk
    BY <1>1 DEF OwnOk, Living
<1> QED
    BY <1>2, <1>3, <1>4 DEF SvcInv

-----------------------------------------------------------------------------
\* A step that changes queues and closed flags only keeps the names.
LEMMA SameNames ==
    ASSUME \A i \in Entries : /\ registry'[i].name = registry[i].name
                              /\ registry'[i] # NoEndpoint <=> registry[i] # NoEndpoint
    PROVE  Registered' = Registered
BY DEF Registered

\* What the state says of a handle in use.
LEMMA TargetFinds ==
    ASSUME SvcTypeOK, NEW p \in Pids, NEW h \in Handles, Target(p, h) # NoEntry
    PROVE  /\ Target(p, h) \in Entries
           /\ registry[Target(p, h)] \in Endpoint
           /\ registry[Target(p, h)].name = handles[p][h]
<1>1. Target(p, h) = ipc_endpoint_lookup(handles[p][h])
    BY Zenon DEF Target
<1>2. /\ Target(p, h) \in Entries
      /\ registry[Target(p, h)].name = handles[p][h]
      /\ registry[Target(p, h)] # NoEndpoint
    BY <1>1, LookupFinds
<1> QED
    BY <1>2, UsedHasName, Zenon

\* A change of an endpoint in place leaves the type, the names and the
\* owners as they were, and with the other tables unchanged the invariant.
LEMMA UpdateKeepsInv ==
    ASSUME SvcInv,
           NEW i \in Entries, registry[i] \in Endpoint,
           NEW e \in Endpoint, e.name = registry[i].name, Len(e.queue) <= QueueDepth,
           registry' = [registry EXCEPT ![i] = e],
           UNCHANGED <<life, handles, svc_registry>>
    PROVE  SvcInv'
<1>1. SvcTypeOK'
    BY DEF SvcInv, SvcTypeOK
<1>2. e # NoEndpoint /\ registry[i] # NoEndpoint
    BY Ranges DEF Endpoint, NoEndpoint
<1>3. \A j \in Entries : /\ registry'[j].name = registry[j].name
                         /\ registry'[j] # NoEndpoint <=> registry[j] # NoEndpoint
    BY <1>2 DEF SvcInv, SvcTypeOK
<1>4. Registered' = Registered
    BY <1>3, SameNames, Zenon
<1>5. EndpointsHaveLivingOwners'
    BY <1>3, Zenon DEF SvcInv, EndpointsHaveLivingOwners, Living
<1>6. NamesOk' /\ OwnOk' /\ BornOk'
    BY <1>4 DEF SvcInv, NamesOk, OwnOk, BornOk, Living
<1> QED
    BY <1>1, <1>5, <1>6, Zenon DEF SvcInv

\* sys_ipc_send appends to the queue its handle reaches.
LEMMA SendKeepsInv ==
    ASSUME SvcInv, NEW p \in Pids, NEW h \in Handles, NEW tag \in Tags,
           sys_ipc_send(p, h, tag), UNCHANGED svc_registry
    PROVE  SvcInv'
<1> DEFINE i == Target(p, h)
           m == [from |-> p, tag |-> tag]
           e == [registry[i] EXCEPT !.queue = Append(@, m)]
<1>1. i \in Entries /\ registry[i] \in Endpoint
    BY TargetFinds, Zenon DEF SvcInv, sys_ipc_send
<1>2. Len(registry[i].queue) < QueueDepth
    BY DEF sys_ipc_send
<1>3. m \in Message
    BY DEF Message
<1>4. registry[i].queue \in Seq(Message)
    BY <1>1 DEF Endpoint
<1>5. /\ Append(registry[i].queue, m) \in Seq(Message)
      /\ Len(Append(registry[i].queue, m)) = Len(registry[i].queue) + 1
    BY <1>3, <1>4, AppendProperties
<1>6. e \in Endpoint /\ e.name = registry[i].name /\ e.queue = Append(registry[i].queue, m)
    BY <1>1, <1>5, Zenon DEF Endpoint
<1>7. Len(e.queue) <= QueueDepth
    <2>1. Len(registry[i].queue) \in Nat
        BY <1>4, LenProperties
    <2> QED
        BY <2>1, <1>2, <1>5, <1>6, IpcAssumption
<1>8. registry' = [registry EXCEPT ![i] = e] /\ UNCHANGED <<life, handles>>
    BY <1>1 DEF sys_ipc_send, SvcInv, SvcTypeOK
<1> HIDE DEF i, e
<1> QED
    BY <1>1, <1>6, <1>7, <1>8, UpdateKeepsInv, Zenon

\* sys_ipc_recv takes the head off the queue its handle reaches.
LEMMA RecvKeepsInv ==
    ASSUME SvcInv, NEW p \in Pids, NEW h \in Handles,
           sys_ipc_recv(p, h), UNCHANGED svc_registry
    PROVE  SvcInv'
<1> DEFINE i == Target(p, h)
           e == [registry[i] EXCEPT !.queue = Tail(@)]
<1>1. i \in Entries /\ registry[i] \in Endpoint
    BY TargetFinds, Zenon DEF SvcInv, sys_ipc_recv
<1>2. registry[i].queue \in Seq(Message) /\ registry[i].queue # << >>
    BY <1>1, Zenon DEF Endpoint, sys_ipc_recv
<1>3. /\ Tail(registry[i].queue) \in Seq(Message)
      /\ Len(Tail(registry[i].queue)) = Len(registry[i].queue) - 1
    BY <1>2, HeadTailProperties
<1>4. e \in Endpoint /\ e.name = registry[i].name /\ e.queue = Tail(registry[i].queue)
    BY <1>1, <1>3, Zenon DEF Endpoint
<1>5. Len(e.queue) <= QueueDepth
    <2>1. Len(registry[i].queue) \in Nat /\ Len(registry[i].queue) <= QueueDepth
        BY <1>1, <1>2, LenProperties, Zenon DEF SvcInv, SvcTypeOK
    <2> QED
        BY <2>1, <1>3, <1>4, IpcAssumption
<1>6. registry' = [registry EXCEPT ![i] = e] /\ UNCHANGED <<life, handles>>
    BY <1>1, Zenon DEF sys_ipc_recv, SvcInv, SvcTypeOK
<1> HIDE DEF i, e
<1> QED
    BY <1>1, <1>4, <1>5, <1>6, UpdateKeepsInv, Zenon

-----------------------------------------------------------------------------
\* A registered name is an endpoint name, and its owner lives.
LEMMA RegisteredIsOwned ==
    ASSUME SvcInv, NEW name \in Registered
    PROVE  name \in EndpointName /\ name[1] \in Living
<1>1. PICK i \in Entries : registry[i] # NoEndpoint /\ registry[i].name = name
    BY DEF Registered
<1> QED
    BY <1>1, UsedHasName, Zenon DEF SvcInv, EndpointsHaveLivingOwners

\* Handles and slots may be emptied or pointed at registered names.
LEMMA AimKeepsInv ==
    ASSUME SvcInv, SvcTypeOK', EndpointsHaveLivingOwners',
           Registered' = Registered, life' = life,
           \A q \in Pids, k \in Handles :
               \/ handles'[q][k] = handles[q][k]
               \/ handles'[q][k] = Unallocated
               \/ handles'[q][k] \in Registered,
           \A s \in Services :
               \/ svc_registry'[s] = svc_registry[s]
               \/ svc_registry'[s] = FreeSlot
               \/ svc_registry'[s].endpoint \in Registered
    PROVE  SvcInv'
<1>1. NamesOk'
    BY DEF NamesOk, SvcInv
<1>2. OwnOk'
    <2> SUFFICES ASSUME NEW q \in Living, NEW k \in Handles, handles'[q][k][1] = q
                 PROVE  handles'[q][k] \in Registered
        BY DEF OwnOk, Living
    <2>1. q \in Pids /\ handles'[q][k] # Unallocated
        BY Ranges, Zenon DEF Living
    <2> QED
        BY <2>1 DEF SvcInv, OwnOk
<1>3. BornOk'
    <2> SUFFICES ASSUME NEW q \in Pids, NEW k \in Handles, handles'[q][k] # Unallocated
                 PROVE  life[handles'[q][k][1]] # "unborn"
        BY Zenon DEF BornOk
    <2>1. CASE handles'[q][k] = handles[q][k]
        BY <2>1, Zenon DEF SvcInv, BornOk
    <2>2. CASE handles'[q][k] \in Registered
        <3>1. handles'[q][k][1] \in Living
            BY <2>2, RegisteredIsOwned, Zenon
        <3> QED
            BY <3>1, Zenon DEF Living
    <2> QED
        BY <2>1, <2>2, Zenon
<1> QED
    BY <1>1, <1>2, <1>3, Zenon DEF SvcInv

\* Giving p a handle on a registered endpoint: the tail of connect and of
\* sr_lookup.
LEMMA ConnectKeepsInv ==
    ASSUME SvcInv, NEW p \in Pids, NEW name \in Registered, FreeHandles(p) # {},
           Aim(p, Min(FreeHandles(p)), name), UNCHANGED <<life, registry, svc_registry>>
    PROVE  SvcInv'
<1> DEFINE h == Min(FreeHandles(p))
<1>1. h \in Handles
    <2>1. FreeHandles(p) \in SUBSET Nat
        BY Ranges, Zenon DEF FreeHandles
    <2> QED
        BY <2>1, MinIsMember, Zenon DEF FreeHandles
<1>2. handles' = [handles EXCEPT ![p][h] = name]
    BY Zenon DEF Aim
<1> HIDE DEF h
<1>3. SvcTypeOK'
    BY <1>1, <1>2, RegisteredIsOwned, Zenon DEF SvcInv, SvcTypeOK
<1>4. EndpointsHaveLivingOwners' /\ Registered' = Registered
    BY Zenon DEF SvcInv, EndpointsHaveLivingOwners, Living, Registered
<1>5. \A q \in Pids, k \in Handles :
          handles'[q][k] = handles[q][k] \/ handles'[q][k] \in Registered
    BY <1>1, <1>2, Zenon DEF SvcInv, SvcTypeOK
<1> QED
    BY <1>3, <1>4, <1>5, AimKeepsInv, Zenon

\* sys_ipc_close: the endpoint, if the caller's, stays registered but closed;
\* the handle is freed; at most one service name goes.
LEMMA CloseKeepsInv ==
    ASSUME SvcInv, NEW p \in Pids, NEW h \in Handles, sys_ipc_close(p, h)
    PROVE  SvcInv'
<1> DEFINE i == Target(p, h)
<1>1. /\ life' = life
      /\ handles' = [handles EXCEPT ![p][h] = Unallocated]
      /\ registry' = IF Owns(p, i) THEN [registry EXCEPT ![i].closed = TRUE] ELSE registry
    BY DEF sys_ipc_close, CloseHandle, Aim
<1>2. Owns(p, i) => i \in Entries /\ registry[i] \in Endpoint
    BY TargetFinds, Zenon DEF SvcInv, Owns
<1>3. \A s \in Services : svc_registry'[s] = svc_registry[s] \/ svc_registry'[s] = FreeSlot
    BY Zenon DEF sys_ipc_close, svc_on_endpoint_close, Clear
<1>4. svc_registry' \in
          [Services -> [name : ServiceNames, endpoint : EndpointName] \cup {FreeSlot}]
    BY Zenon DEF sys_ipc_close, svc_on_endpoint_close, Clear, SvcInv, SvcTypeOK
<1> HIDE DEF i
<1>5. /\ registry' \in [Entries -> Endpoint \cup {NoEndpoint}]
      /\ \A j \in Entries : registry'[j].queue = registry[j].queue
      /\ \A j \in Entries : /\ registry'[j].name = registry[j].name
                            /\ registry'[j] # NoEndpoint <=> registry[j] # NoEndpoint
    <2>1. CASE Owns(p, i)
        <3> DEFINE e == [registry[i] EXCEPT !.closed = TRUE]
        <3>1. e \in Endpoint /\ e.name = registry[i].name /\ e.queue = registry[i].queue
            BY <1>2, <2>1, Zenon DEF Endpoint
        <3>2. registry' = [registry EXCEPT ![i] = e]
            BY <1>1, <1>2, <2>1, Zenon DEF SvcInv, SvcTypeOK
        <3>3. e # NoEndpoint /\ registry[i] # NoEndpoint
            BY <1>2, <2>1, <3>1, Ranges DEF Endpoint, NoEndpoint
        <3> HIDE DEF e
        <3> QED
            BY <1>2, <2>1, <3>1, <3>2, <3>3, Zenon DEF SvcInv, SvcTypeOK
    <2>2. CASE ~Owns(p, i)
        BY <1>1, <2>2, Zenon DEF SvcInv, SvcTypeOK
    <2> QED
        BY <2>1, <2>2, Zenon
<1>6. SvcTypeOK'
    BY <1>1, <1>4, <1>5, Zenon DEF SvcInv, SvcTypeOK
<1>7. EndpointsHaveLivingOwners' /\ Registered' = Registered
    BY <1>1, <1>5, SameNames, Zenon DEF SvcInv, EndpointsHaveLivingOwners, Living
<1>8. \A q \in Pids, k \in Handles :
          handles'[q][k] = handles[q][k] \/ handles'[q][k] = Unallocated
    BY <1>1 DEF SvcInv, SvcTypeOK
<1> QED
    BY <1>1, <1>3, <1>6, <1>7, <1>8, AimKeepsInv, Zenon

\* sys_sr_register names an endpoint that the caller owns, hence a registered
\* one; sys_sr_unregister empties a slot.
LEMMA RegisterKeepsInv ==
    ASSUME SvcInv, NEW p \in Pids, NEW n \in ServiceNames, NEW h \in Handles,
           sys_sr_register(p, n, h) \/ sys_sr_unregister(p, n, h)
    PROVE  SvcInv'
<1>1. UNCHANGED <<life, handles, registry>>
    BY Zenon DEF sys_sr_register, sys_sr_unregister, ipcVars
<1>2. EndpointsHaveLivingOwners' /\ Registered' = Registered
    BY <1>1, Zenon DEF SvcInv, EndpointsHaveLivingOwners, Living, Registered
<1>3. CASE sys_sr_register(p, n, h)
    <2> DEFINE s == Min(FreeSlots)
               name == handles[p][h]
               r == [name |-> n, endpoint |-> name]
    <2>1. s \in Services
        <3>1. FreeSlots \in SUBSET Nat
            BY Ranges, Zenon DEF FreeSlots
        <3>2. FreeSlots # {}
            BY <1>3, Zenon DEF sys_sr_register
        <3> QED
            BY <3>1, <3>2, MinIsMember, Zenon DEF FreeSlots
    <2>2. name # Unallocated /\ Target(p, h) # NoEntry
        BY <1>3, Zenon DEF sys_sr_register, svc_check_endpoint, Owns
    <2>3. name \in Registered
        BY <2>2, LookupFinds, Zenon DEF Target
    <2>4. svc_registry' = [svc_registry EXCEPT ![s] = r]
        BY <1>3, Zenon DEF sys_sr_register
    <2>5. name \in EndpointName
        BY <2>3, RegisteredIsOwned, Zenon
    <2> HIDE DEF s, name
    <2>6. SvcTypeOK'
        BY <1>1, <2>1, <2>4, <2>5, Zenon DEF SvcInv, SvcTypeOK
    <2>7. \A t \in Services : \/ svc_registry'[t] = svc_registry[t]
                              \/ svc_registry'[t].endpoint \in Registered
        BY <2>1, <2>3, <2>4, Zenon DEF SvcInv, SvcTypeOK
    <2> QED
        BY <1>1, <1>2, <2>6, <2>7, AimKeepsInv, Zenon
<1>4. CASE sys_sr_unregister(p, n, h)
    <2>1. PICK S : Clear(S)
        BY <1>4, Zenon DEF sys_sr_unregister
    <2>2. SvcTypeOK'
        BY <1>1, <2>1, Zenon DEF SvcInv, SvcTypeOK, Clear
    <2>3. \A t \in Services : \/ svc_registry'[t] = svc_registry[t]
                              \/ svc_registry'[t] = FreeSlot
        BY <2>1 DEF Clear
    <2> QED
        BY <1>1, <1>2, <2>2, <2>3, AimKeepsInv, Zenon
<1> QED
    BY <1>3, <1>4, Zenon

\* sys_ipc_endpoint_create adds one name: its owner's, which lives.
LEMMA CreateKeepsInv ==
    ASSUME SvcInv, NEW p \in Pids, sys_ipc_endpoint_create(p), UNCHANGED svc_registry
    PROVE  SvcInv'
<1> DEFINE h == Min(FreeHandles(p))
           i == Min(FreeEntries)
           name == <<p, h>>
           e == [name |-> name, closed |-> FALSE, queue |-> << >>]
<1>1. h \in Handles
    <2>1. FreeHandles(p) \in SUBSET Nat /\ FreeHandles(p) # {}
        BY Ranges, Zenon DEF FreeHandles, sys_ipc_endpoint_create
    <2> QED
        BY <2>1, MinIsMember, Zenon DEF FreeHandles
<1>2. i \in Entries /\ registry[i] = NoEndpoint
    <2>1. FreeEntries \in SUBSET Nat /\ FreeEntries # {}
        BY Ranges, Zenon DEF FreeEntries, sys_ipc_endpoint_create
    <2> QED
        BY <2>1, MinIsMember, Zenon DEF FreeEntries
<1>3. /\ registry' = [registry EXCEPT ![i] = e]
      /\ handles' = [handles EXCEPT ![p][h] = name]
      /\ life' = life
      /\ p \in Living
    BY Zenon DEF sys_ipc_endpoint_create, Aim
<1> HIDE DEF h, i
<1>4. name \in EndpointName /\ name # Unallocated /\ name[1] = p
    BY <1>1, Ranges, Zenon DEF EndpointName
<1>5. << >> \in Seq(Message) /\ Len(<< >>) = 0
    OBVIOUS
<1>6. e \in Endpoint /\ e.name = name /\ e # NoEndpoint /\ Len(e.queue) <= QueueDepth
    BY <1>4, <1>5, IpcAssumption DEF Endpoint, NoEndpoint
<1> HIDE DEF name, e
<1>7. SvcTypeOK'
    BY <1>1, <1>2, <1>3, <1>4, <1>6, Zenon DEF SvcInv, SvcTypeOK
<1>8. \A j \in Entries : registry'[j] = IF j = i THEN e ELSE registry[j]
    BY <1>2, <1>3, Zenon DEF SvcInv, SvcTypeOK
<1>9. Registered' = Registered \cup {name}
    BY <1>2, <1>6, <1>8 DEF Registered
<1>10. EndpointsHaveLivingOwners'
    BY <1>3, <1>4, <1>6, <1>8, Zenon DEF SvcInv, EndpointsHaveLivingOwners, Living
<1>11. \A q \in Pids, k \in Handles :
           handles'[q][k] = IF q = p /\ k = h THEN name ELSE handles[q][k]
    BY <1>1, <1>3, Zenon DEF SvcInv, SvcTypeOK
<1>12. NamesOk'
    BY <1>9, Zenon DEF SvcInv, NamesOk
<1>13. OwnOk'
    BY <1>3, <1>9, <1>11 DEF SvcInv, OwnOk, Living
<1>14. BornOk'
    BY <1>3, <1>4, <1>11 DEF SvcInv, BornOk, Living
<1> QED
    BY <1>7, <1>10, <1>12, <1>13, <1>14, Zenon DEF SvcInv

\* A spawned process has no handles; a forked one has its parent's, none of
\* which can be on an endpoint of its own.
LEMMA BirthKeepsInv ==
    ASSUME SvcInv, NEW p \in Pids, NEW c \in Pids, UNCHANGED svc_registry,
           \/ Spawn(c)
           \/ ForkHandles(p, c)
    PROVE  SvcInv'
<1>1. /\ life[c] = "unborn" /\ life' = [life EXCEPT ![c] = "living"]
      /\ registry' = registry
      /\ handles' = handles \/ handles' = [handles EXCEPT ![c] = handles[p]]
    BY Zenon DEF Spawn, ForkHandles, Born
<1>2. SvcTypeOK'
    BY <1>1, Zenon DEF SvcInv, SvcTypeOK
<1>3. Living \subseteq Living' /\ Living' \subseteq Living \cup {c}
    BY <1>1, Zenon DEF Living, SvcInv, SvcTypeOK
<1>4. Registered' = Registered
    BY <1>1, Zenon DEF Registered
<1>5. EndpointsHaveLivingOwners' /\ NamesOk'
    BY <1>1, <1>3, <1>4, Zenon DEF SvcInv, EndpointsHaveLivingOwners, NamesOk
<1>6. \A q \in Pids, k \in Handles :
          handles'[q][k] = handles[q][k] \/ (q = c /\ handles'[q][k] = handles[p][k])
    BY <1>1, Zenon DEF SvcInv, SvcTypeOK
<1>7. \A q \in Pids, k \in Handles : handles[q][k][1] # c
    BY <1>1, Ranges DEF SvcInv, BornOk
<1>8. OwnOk'
    <2> SUFFICES ASSUME NEW q \in Living', NEW k \in Handles, handles'[q][k][1] = q
                 PROVE  handles'[q][k] \in Registered
        BY <1>4, Zenon DEF OwnOk
    <2>1. q \in Pids
        BY Zenon DEF Living
    <2>2. q # c
        BY <1>6, <1>7, <2>1
    <2>3. q \in Living /\ handles'[q][k] = handles[q][k]
        BY <1>3, <1>6, <2>1, <2>2, Zenon
    <2> QED
        BY <2>3, Zenon DEF SvcInv, OwnOk
<1>9. BornOk'
    <2> SUFFICES ASSUME NEW q \in Pids, NEW k \in Handles, handles'[q][k] # Unallocated
                 PROVE  life'[handles'[q][k][1]] # "unborn"
        BY Zenon DEF BornOk
    <2>1. PICK r \in Pids : handles'[q][k] = handles[r][k]
        BY <1>6, Zenon
    <2>2. handles[r][k] \in EndpointName
        BY <2>1, Zenon DEF SvcInv, SvcTypeOK
    <2>3. handles[r][k][1] \in Pids /\ life[handles[r][k][1]] # "unborn"
        BY <2>1, <2>2, Ranges, Zenon DEF SvcInv, BornOk
    <2> QED
        BY <1>1, <2>1, <2>3, Zenon DEF SvcInv, SvcTypeOK
<1> QED
    BY <1>2, <1>5, <1>8, <1>9, Zenon DEF SvcInv

\* An exit or a reap takes every endpoint and every service name of the
\* process with it; handles of others on its endpoints stay, and lead nowhere.
LEMMA DeathKeepsInv ==
    ASSUME SvcInv, NEW p \in Pids, Exit(p) \/ Destroy(p)
    PROVE  SvcInv'
<1>1. /\ life[p] # "unborn"
      /\ life' = [life EXCEPT ![p] = "zombie"] \/ life' = [life EXCEPT ![p] = "reaped"]
      /\ registry' = WithoutOwner(p)
      /\ svc_cleanup_owner(p)
      /\ \/ handles' = handles
         \/ handles' = [handles EXCEPT ![p] = [h \in Handles |-> Unallocated]]
    BY Zenon DEF Exit, Destroy, ExitEndpoints, DestroyHandles, Living
<1>2. \A i \in Entries :
          registry'[i] = IF registry[i].name[1] = p THEN NoEndpoint ELSE registry[i]
    BY <1>1, Zenon DEF WithoutOwner
<1>3. \A s \in Services :
          svc_registry'[s] = IF svc_registry[s].endpoint[1] = p THEN FreeSlot ELSE svc_registry[s]
    BY <1>1, Zenon DEF svc_cleanup_owner, Clear
<1>4. SvcTypeOK'
    <2>1. life' \in [Pids -> {"unborn", "living", "zombie", "reaped"}]
        BY <1>1, Zenon DEF SvcInv, SvcTypeOK
    <2>2. handles' \in [Pids -> [Handles -> EndpointName \cup {Unallocated}]]
        BY <1>1 DEF SvcInv, SvcTypeOK
    <2>3. registry' \in [Entries -> Endpoint \cup {NoEndpoint}]
        BY <1>1, <1>2, Zenon DEF SvcInv, SvcTypeOK, WithoutOwner
    <2>4. Len(NoEndpoint.queue) <= QueueDepth
        BY IpcAssumption DEF NoEndpoint
    <2>5. \A i \in Entries : Len(registry'[i].queue) <= QueueDepth
        BY <1>2, <2>4, Zenon DEF SvcInv, SvcTypeOK
    <2>6. svc_registry' \in [Services -> [name : ServiceNames, endpoint : EndpointName]
                                             \cup {FreeSlot}]
        BY <1>1, Zenon DEF SvcInv, SvcTypeOK, svc_cleanup_owner, Clear
    <2> QED
        BY <2>1, <2>2, <2>3, <2>5, <2>6, Zenon DEF SvcTypeOK
<1>5. Living' = Living \ {p}
    BY <1>1, Zenon DEF Living, SvcInv, SvcTypeOK
<1>6. \A name \in Registered : name[1] # p => name \in Registered'
    BY <1>2 DEF Registered
<1>7. EndpointsHaveLivingOwners'
    BY <1>2, <1>5, Zenon DEF SvcInv, EndpointsHaveLivingOwners
<1>8. NamesOk'
    BY <1>3, <1>6, Zenon DEF SvcInv, NamesOk
<1>9. \A q \in Pids, k \in Handles :
          handles'[q][k] = handles[q][k] \/ handles'[q][k] = Unallocated
    BY <1>1 DEF SvcInv, SvcTypeOK
<1>10. OwnOk'
    <2> SUFFICES ASSUME NEW q \in Living', NEW k \in Handles, handles'[q][k][1] = q
                 PROVE  handles'[q][k] \in Registered'
        BY Zenon DEF OwnOk
    <2>1. q \in Pids /\ q \in Living /\ q # p
        BY <1>5, Zenon DEF Living
    <2>2. handles'[q][k] = handles[q][k]
        BY <1>9, <2>1, Ranges, Zenon
    <2>3. handles[q][k] \in Registered
        BY <2>1, <2>2, Zenon DEF SvcInv, OwnOk
    <2> QED
        BY <1>6, <2>1, <2>2, <2>3, Zenon
<1>11. BornOk'
    <2>1. \A q \in Pids : life[q] # "unborn" => life'[q] # "unborn"
        BY <1>1, Zenon DEF SvcInv, SvcTypeOK
    <2>2. \A q \in Pids, k \in Handles :
              handles[q][k] # Unallocated => handles[q][k][1] \in Pids
        BY Ranges DEF SvcInv, SvcTypeOK
    <2> QED
        BY <1>9, <2>1, <2>2, Zenon DEF SvcInv, BornOk
<1> QED
    BY <1>4, <1>7, <1>8, <1>10, <1>11, Zenon DEF SvcInv

-----------------------------------------------------------------------------
\* Every system call, birth and death of a process keeps the invariant.
LEMMA SvcStepKeepsInv ==
    ASSUME SvcInv, [SvcNext]_vars
    PROVE  SvcInv'
<1>1. CASE UNCHANGED vars
    <2>1. UNCHANGED <<life, handles, registry, svc_registry>>
        BY <1>1, Zenon DEF vars, ipcVars
    <2>2. Registered' = Registered /\ Living' = Living
        BY <2>1, Zenon DEF Registered, Living
    <2>3. SvcTypeOK'
        BY <2>1, Zenon DEF SvcInv, SvcTypeOK
    <2>4. EndpointsHaveLivingOwners'
        BY <2>1, <2>2, Zenon DEF SvcInv, EndpointsHaveLivingOwners
    <2>5. NamesOk' /\ OwnOk' /\ BornOk'
        BY <2>1, <2>2, Zenon DEF SvcInv, NamesOk, OwnOk, BornOk
    <2> QED
        BY <2>3, <2>4, <2>5, Zenon DEF SvcInv
<1>2. CASE SvcNext
    <2>1. PICK p \in Pids :
              \/ Transport(p) /\ UNCHANGED svc_registry
              \/ \E n \in ServiceNames, h \in Handles : sys_sr_register(p, n, h)
              \/ \E n \in ServiceNames, h \in Handles : sys_sr_unregister(p, n, h)
              \/ \E n \in ServiceNames : sys_sr_lookup(p, n)
              \/ \E h \in Handles : sys_ipc_close(p, h)
              \/ Exit(p)
              \/ Destroy(p)
        BY <1>2, Zenon DEF SvcNext
    <2>2. CASE Transport(p) /\ UNCHANGED svc_registry
        <3>1. CASE sys_ipc_endpoint_create(p)
            BY <2>2, <3>1, CreateKeepsInv, Zenon
        <3>2. ASSUME NEW h \in Handles, NEW tag \in Tags, sys_ipc_send(p, h, tag)
              PROVE  SvcInv'
            BY <2>2, <3>2, SendKeepsInv, Zenon
        <3>3. ASSUME NEW h \in Handles, sys_ipc_recv(p, h)
              PROVE  SvcInv'
            BY <2>2, <3>3, RecvKeepsInv, Zenon
        <3>4. ASSUME NEW name \in EndpointName, sys_ipc_connect(p, name)
              PROVE  SvcInv'
            <4>1. name \in Registered
                BY <3>4, LookupFinds, Zenon DEF sys_ipc_connect
            <4>2. /\ FreeHandles(p) # {} /\ Aim(p, Min(FreeHandles(p)), name)
                  /\ UNCHANGED <<life, registry>>
                BY <3>4, Zenon DEF sys_ipc_connect
            <4> QED
                BY <2>2, <4>1, <4>2, ConnectKeepsInv, Zenon
        <3>5. CASE Spawn(p)
            BY <2>2, <3>5, BirthKeepsInv, Zenon
        <3>6. ASSUME NEW c \in Pids, ForkHandles(p, c)
              PROVE  SvcInv'
            BY <2>2, <3>6, BirthKeepsInv, Zenon
        <3> QED
            BY <2>2, <3>1, <3>2, <3>3, <3>4, <3>5, <3>6, Zenon DEF Transport
    <2>3. ASSUME NEW n \in ServiceNames, NEW h \in Handles,
                 sys_sr_register(p, n, h) \/ sys_sr_unregister(p, n, h)
          PROVE  SvcInv'
        BY <2>3, RegisterKeepsInv, Zenon
    <2>4. ASSUME NEW n \in ServiceNames, sys_sr_lookup(p, n)
          PROVE  SvcInv'
        <3> DEFINE s == Min(FindName(n))
        <3>1. s \in FindName(n)
            <4>1. FindName(n) \in SUBSET Nat /\ FindName(n) # {}
                BY <2>4, Ranges, Zenon DEF FindName, sys_sr_lookup
            <4> QED
                BY <4>1, MinIsMember, Zenon
        <3>2. s \in Services /\ svc_registry[s] # FreeSlot
            BY <3>1, SvcAssumption DEF FindName, FreeSlot
        <3>3. svc_registry[s].endpoint \in Registered
            BY <3>2, Zenon DEF SvcInv, NamesOk
        <3>4. /\ FreeHandles(p) # {}
              /\ Aim(p, Min(FreeHandles(p)), svc_registry[s].endpoint)
              /\ UNCHANGED <<life, registry, svc_registry>>
            BY <2>4, Zenon DEF sys_sr_lookup
        <3> QED
            BY <3>3, <3>4, ConnectKeepsInv, Zenon
    <2>5. ASSUME NEW h \in Handles, sys_ipc_close(p, h)
          PROVE  SvcInv'
        BY <2>5, CloseKeepsInv, Zenon
    <2>6. CASE Exit(p) \/ Destroy(p)
        BY <2>6, DeathKeepsInv, Zenon
    <2> QED
        BY <2>1, <2>2, <2>3, <2>4, <2>5, <2>6, Zenon
<1> QED
    BY <1>1, <1>2, Zenon

\* A step of any other kind than close, exit and reap leaves the name and the
\* closed flag of every registered endpoint as they are.
LEMMA StepEndsOwn ==
    ASSUME SvcInv, SvcNext
    PROVE  \A i \in Entries : EndedByOwner(i)
<1> SUFFICES ASSUME NEW i \in Entries, registry[i] # NoEndpoint
             PROVE  EndedByOwner(i)
    BY Zenon DEF EndedByOwner
<1> DEFINE name == registry[i].name
           Kept == registry'[i].name = name /\ registry'[i].closed = registry[i].closed
<1>1. Kept => EndedByOwner(i)
    BY Zenon DEF EndedByOwner
<1>2. registry[i] \in Endpoint /\ name[1] \in Living
    BY UsedHasName, Zenon DEF SvcInv, EndpointsHaveLivingOwners
<1>3. registry \in [Entries -> Endpoint \cup {NoEndpoint}]
    BY DEF SvcInv, SvcTypeOK
<1>4. UNCHANGED registry => Kept
    OBVIOUS
<1>5. ASSUME NEW p \in Pids, sys_ipc_endpoint_create(p)
      PROVE  Kept
    <2>1. FreeEntries \in SUBSET Nat /\ FreeEntries # {}
        BY <1>5, Ranges, Zenon DEF FreeEntries, sys_ipc_endpoint_create
    <2>2. Min(FreeEntries) # i
        BY <2>1, MinIsMember, Zenon DEF FreeEntries
    <2>3. registry'[i] = registry[i]
        BY <1>3, <1>5, <2>2, Zenon DEF sys_ipc_endpoint_create
    <2> QED
        BY <2>3, Zenon
<1>6. ASSUME NEW p \in Pids, NEW h \in Handles, NEW tag \in Tags, sys_ipc_send(p, h, tag)
      PROVE  Kept
    <2> DEFINE j == Target(p, h)
    <2>1. j \in Entries /\ registry[j] \in Endpoint
        BY <1>6, TargetFinds, Zenon DEF SvcInv, sys_ipc_send
    <2>2. PICK q : registry' = [registry EXCEPT ![j] = [registry[j] EXCEPT !.queue = q]]
        BY <1>3, <1>6, <2>1, Zenon DEF sys_ipc_send
    <2> HIDE DEF j
    <2> QED
        BY <1>2, <1>3, <2>1, <2>2, Zenon DEF Endpoint
<1>7. ASSUME NEW p \in Pids, NEW h \in Handles, sys_ipc_recv(p, h)
      PROVE  Kept
    <2> DEFINE j == Target(p, h)
    <2>1. j \in Entries /\ registry[j] \in Endpoint
        BY <1>7, TargetFinds DEF SvcInv, sys_ipc_recv
    <2>2. PICK q : registry' = [registry EXCEPT ![j] = [registry[j] EXCEPT !.queue = q]]
        BY <1>3, <1>7, <2>1, Zenon DEF sys_ipc_recv
    <2> HIDE DEF j
    <2> QED
        BY <1>2, <1>3, <2>1, <2>2, Zenon DEF Endpoint
<1>8. ASSUME NEW p \in Pids, NEW h \in Handles, sys_ipc_close(p, h)
      PROVE  EndedByOwner(i)
    <2> DEFINE j == Target(p, h)
    <2>1. /\ registry' = IF Owns(p, j) THEN [registry EXCEPT ![j].closed = TRUE] ELSE registry
          /\ handles' = [handles EXCEPT ![p][h] = Unallocated]
        BY <1>8, Zenon DEF sys_ipc_close, CloseHandle, Aim
    <2>2. CASE i = j /\ Owns(p, j)
        <3>1. name = handles[p][h] /\ name[1] = p
            BY <2>2, TargetFinds, Zenon DEF SvcInv, Owns
        <3>2. handles'[p][h] = Unallocated
            BY <2>1, Zenon DEF SvcInv, SvcTypeOK
        <3>3. GivesUp(name[1], name)
            BY <3>1, <3>2, Zenon DEF GivesUp
        <3>4. registry' = [registry EXCEPT ![i] = [registry[i] EXCEPT !.closed = TRUE]]
            BY <1>3, <2>1, <2>2, Zenon
        <3>5. registry'[i].name = name
            BY <1>2, <1>3, <3>4, Zenon DEF Endpoint
        <3> QED
            BY <3>3, <3>5, Zenon DEF EndedByOwner
    <2>3. CASE ~(i = j /\ Owns(p, j))
        <3>1. Owns(p, j) => j \in Entries
            BY TargetFinds, Zenon DEF SvcInv, Owns
        <3> HIDE DEF j
        <3>2. registry'[i] = registry[i]
            BY <1>3, <2>1, <2>3, <3>1, Zenon
        <3> QED
            BY <1>1, <3>2, Zenon
    <2> QED
        BY <2>2, <2>3, Zenon
<1>9. ASSUME NEW p \in Pids, Exit(p) \/ Destroy(p)
      PROVE  EndedByOwner(i)
    <2>1. registry'[i] = IF name[1] = p THEN NoEndpoint ELSE registry[i]
        BY <1>9, Zenon DEF Exit, Destroy, ExitEndpoints, DestroyHandles, WithoutOwner
    <2>2. CASE name[1] # p
        BY <1>1, <2>1, <2>2, Zenon
    <2>3. CASE name[1] = p
        <3>1. Exit(p)
            BY <1>2, <1>9, <2>3, Zenon DEF Destroy, DestroyHandles, Living
        <3>2. life'[p] = "zombie"
            BY <3>1, Zenon DEF Exit, ExitEndpoints, SvcInv, SvcTypeOK
        <3>3. registry'[i].name # name
            BY <1>2, <2>1, <2>3, Ranges DEF NoEndpoint, Endpoint
        <3> QED
            BY <1>2, <2>3, <3>2, <3>3, Zenon DEF EndedByOwner
    <2> QED
        BY <2>2, <2>3, Zenon
<1>10. \/ UNCHANGED registry
       \/ \E p \in Pids :
              \/ sys_ipc_endpoint_create(p)
              \/ \E h \in Handles, tag \in Tags : sys_ipc_send(p, h, tag)
              \/ \E h \in Handles : sys_ipc_recv(p, h)
              \/ \E h \in Handles : sys_ipc_close(p, h)
              \/ Exit(p)
              \/ Destroy(p)
    BY Zenon DEF SvcNext, Transport, sys_ipc_connect, Spawn, ForkHandles, sys_sr_register,
           sys_sr_unregister, sys_sr_lookup, ipcVars
<1> QED
    BY <1>1, <1>4, <1>5, <1>6, <1>7, <1>8, <1>9, <1>10, Zenon

\* The inductive invariant holds in every reachable state.
LEMMA SvcInvAlways == SvcSpec => []SvcInv
<1>1. SvcInit => SvcInv
    BY SvcInitEstablishesInv
<1>2. SvcInv /\ [SvcNext]_vars => SvcInv'
    BY SvcStepKeepsInv
<1> QED
    BY <1>1, <1>2, PTL DEF SvcSpec

(***************************************************************************)
(* The tables hold values of their types and a queue never holds more      *)
(* messages than IPC_MAX_QUEUE_DEPTH.                                      *)
(***************************************************************************)
THEOREM SvcTypeCorrect == SvcSpec => []SvcTypeOK
BY SvcInvAlways, InvImpliesProperties, PTL

(***************************************************************************)
(* No registered endpoint belongs to a zombie: exit takes them all.        *)
(***************************************************************************)
THEOREM OwnersLive == SvcSpec => []EndpointsHaveLivingOwners
BY SvcInvAlways, InvImpliesProperties, PTL

(***************************************************************************)
(* A service name always leads to an endpoint that is still in the IPC     *)
(* registry and has a living owner.                                        *)
(***************************************************************************)
THEOREM LookupsLeadSomewhere == SvcSpec => []NamedEndpointExists
BY SvcInvAlways, InvImpliesProperties, PTL

(***************************************************************************)
(* The owner's handle on its own endpoint always resolves.                 *)
(***************************************************************************)
THEOREM OwnersReachTheirs == SvcSpec => []OwnHandlesResolve
BY SvcInvAlways, InvImpliesProperties, PTL

(***************************************************************************)
(* Only its owner closes an endpoint or takes it out of the registry.      *)
(***************************************************************************)
THEOREM OwnersEndTheirs == SvcSpec => OnlyOwnerEnds
<1>1. SvcInv /\ [SvcNext]_vars => [\A i \in Entries : EndedByOwner(i)]_vars
    BY StepEndsOwn
<1> QED
    BY <1>1, SvcInvAlways, PTL DEF SvcSpec, OnlyOwnerEnds
-----------------------------------------------------------------------------
(***************************************************************************)
(* The directory of names.  sys_sr_register scans for the name before it   *)
(* takes a slot, so no name is in two slots.                               *)
(***************************************************************************)
NamesAreUnique ==
    \A s, t \in Services :
        svc_registry[s] # FreeSlot /\ svc_registry[s].name = svc_registry[t].name => s = t

\* What a name leads to.
Bound == [n \in ServiceNames |->
             IF FindName(n) = {} THEN Unallocated
             ELSE svc_registry[Min(FindName(n))].endpoint]

\* A slot with a service's name is in use, and its endpoint is one.
LEMMA NamedSlots ==
    ASSUME SvcTypeOK, NEW s \in Services
    PROVE  /\ svc_registry[s].name \in ServiceNames <=> svc_registry[s] # FreeSlot
           /\ svc_registry[s] # FreeSlot => svc_registry[s].endpoint \in EndpointName
<1>1. svc_registry[s] = FreeSlot \/
      svc_registry[s] \in [name : ServiceNames, endpoint : EndpointName]
    BY Zenon DEF SvcTypeOK
<1>2. FreeSlot.name \notin ServiceNames
    BY SvcAssumption DEF FreeSlot
<1> QED
    BY <1>1, <1>2

\* The one slot of a name is what the scan finds.
LEMMA BoundToSlot ==
    ASSUME SvcTypeOK, NamesAreUnique, NEW n \in ServiceNames
    PROVE  /\ \A s \in Services : svc_registry[s].name = n => Bound[n] = svc_registry[s].endpoint
           /\ FindName(n) = {} => Bound[n] = Unallocated
           /\ Bound[n] = Unallocated => FindName(n) = {}
<1>1. FindName(n) \in SUBSET Nat
    BY Ranges, Zenon DEF FindName
<1>2. FindName(n) # {} => Min(FindName(n)) \in Services /\ svc_registry[Min(FindName(n))].name = n
    BY <1>1, MinIsMember, Zenon DEF FindName
<1>3. FindName(n) = {} => Bound[n] = Unallocated
    BY Zenon DEF Bound
<1>4. FindName(n) # {} => Bound[n] = svc_registry[Min(FindName(n))].endpoint
    BY Zenon DEF Bound
<1>5. FindName(n) # {} => Bound[n] \in EndpointName
    BY <1>2, <1>4, NamedSlots, Zenon
<1>6. ASSUME NEW s \in Services, svc_registry[s].name = n
      PROVE  Bound[n] = svc_registry[s].endpoint
    <2>1. FindName(n) # {}
        BY <1>6, Zenon DEF FindName
    <2>2. s = Min(FindName(n))
        BY <1>2, <1>6, <2>1, NamedSlots, Zenon DEF NamesAreUnique
    <2> QED
        BY <1>4, <2>1, <2>2, Zenon
<1> QED
    BY <1>3, <1>5, <1>6, Ranges, Zenon

\* Emptying slots unbinds their names and no others.
LEMMA ClearUnbinds ==
    ASSUME SvcTypeOK, SvcTypeOK', NamesAreUnique, NEW S, Clear(S)
    PROVE  /\ NamesAreUnique'
           /\ \A n \in ServiceNames :
                 Bound'[n] = IF \E s \in S \cap Services : svc_registry[s].name = n
                             THEN Unallocated ELSE Bound[n]
<1>1. \A s \in Services : svc_registry'[s] = IF s \in S THEN FreeSlot ELSE svc_registry[s]
    BY Zenon DEF Clear
<1>2. NamesAreUnique'
    <2> SUFFICES ASSUME NEW s \in Services, NEW t \in Services, svc_registry'[s] # FreeSlot,
                        svc_registry'[s].name = svc_registry'[t].name
                 PROVE  s = t
        BY Zenon DEF NamesAreUnique
    <2>1. svc_registry'[s] = svc_registry[s] /\ svc_registry[s].name \in ServiceNames
        BY <1>1, NamedSlots, Zenon
    <2>2. FreeSlot.name \notin ServiceNames
        BY SvcAssumption DEF FreeSlot
    <2>3. svc_registry'[t] = svc_registry[t]
        BY <1>1, <2>1, <2>2, Zenon
    <2> QED
        BY <2>1, <2>3, Zenon DEF NamesAreUnique
<1>3. ASSUME NEW n \in ServiceNames
      PROVE  Bound'[n] = IF \E s \in S \cap Services : svc_registry[s].name = n
                         THEN Unallocated ELSE Bound[n]
    <2>0. FreeSlot.name # n
        BY SvcAssumption DEF FreeSlot
    <2>1. CASE FindName(n)' = {}
        <3>1. Bound'[n] = Unallocated
            BY <2>1, Zenon DEF Bound
        <3>2. \A s \in Services : svc_registry[s].name = n => s \in S
            BY <1>1, <2>1, Zenon DEF FindName
        <3>3. CASE FindName(n) = {}
            BY <3>1, <3>3, Zenon DEF Bound
        <3>4. CASE FindName(n) # {}
            <4>1. PICK s \in Services : svc_registry[s].name = n
                BY <3>4, Zenon DEF FindName
            <4>2. s \in S \cap Services
                BY <3>2, <4>1, Zenon
            <4> QED
                BY <3>1, <4>1, <4>2, Zenon
        <3> QED
            BY <3>3, <3>4, Zenon
    <2>2. CASE FindName(n)' # {}
        <3>1. PICK s \in Services : svc_registry'[s].name = n
            BY <2>2, Zenon DEF FindName
        <3>2. s \notin S /\ svc_registry'[s] = svc_registry[s]
            BY <1>1, <2>0, <3>1, Zenon
        <3>3. svc_registry[s] # FreeSlot
            BY <2>0, <3>1, <3>2, Zenon
        <3>4. \A t \in Services : svc_registry[t].name = n => t = s
            BY <3>1, <3>2, <3>3, Zenon DEF NamesAreUnique
        <3>5. ~ \E t \in S \cap Services : svc_registry[t].name = n
            BY <3>2, <3>4, Zenon
        <3>6. Bound[n] = svc_registry[s].endpoint
            BY <3>1, <3>2, BoundToSlot, Zenon
        <3>7. FindName(n)' = {s}
            <4>1. \A t \in Services : svc_registry'[t].name = n => t = s
                BY <1>1, <2>0, <3>4, Zenon
            <4> QED
                BY <3>1, <4>1, Zenon DEF FindName
        <3>8. Min(FindName(n)') = s
            <4>1. {s} \in SUBSET Nat /\ {s} # {}
                BY Ranges, Zenon
            <4>2. Min({s}) \in {s}
                BY <4>1, MinIsMember, Zenon
            <4> QED
                BY <3>7, <4>2, Zenon
        <3>9. Bound'[n] = svc_registry'[Min(FindName(n)')].endpoint
            BY <2>2, Zenon DEF Bound
        <3> QED
            BY <3>2, <3>5, <3>6, <3>8, <3>9, Zenon
    <2> QED
        BY <2>1, <2>2, Zenon
<1> QED
    BY <1>2, <1>3, Zenon

\* sys_sr_register binds a free name to the caller's endpoint.
LEMMA RegisterBinds ==
    ASSUME SvcInv, SvcInv', NamesAreUnique,
           NEW p \in Pids, NEW n \in ServiceNames, NEW h \in Handles, sys_sr_register(p, n, h)
    PROVE  /\ NamesAreUnique'
           /\ Bound[n] = Unallocated
           /\ \E e \in Handles : Bound' = [Bound EXCEPT ![n] = <<p, e>>]
<1> DEFINE s == Min(FreeSlots)
           r == [name |-> n, endpoint |-> handles[p][h]]
<1>1. s \in Services /\ svc_registry[s] = FreeSlot
    <2>1. FreeSlots \in SUBSET Nat /\ FreeSlots # {}
        BY Ranges, Zenon DEF FreeSlots, sys_sr_register
    <2> QED
        BY <2>1, MinIsMember, Zenon DEF FreeSlots
<1>2. svc_registry' = [svc_registry EXCEPT ![s] = r]
    BY Zenon DEF sys_sr_register
<1>3. handles[p][h] \in EndpointName /\ handles[p][h][1] = p
    <2>1. handles[p][h] # Unallocated /\ handles[p][h][1] = p
        BY Zenon DEF sys_sr_register, svc_check_endpoint
    <2>2. handles[p][h] \in EndpointName \cup {Unallocated}
        BY Zenon DEF SvcInv, SvcTypeOK
    <2> QED
        BY <2>1, <2>2, Zenon
<1>4. FindName(n) = {}
    BY Zenon DEF sys_sr_register
<1> HIDE DEF s
<1>5. \A t \in Services : svc_registry'[t] = IF t = s THEN r ELSE svc_registry[t]
    BY <1>1, <1>2, Zenon DEF SvcInv, SvcTypeOK
<1>6. r.name = n /\ r.endpoint = handles[p][h]
    OBVIOUS
<1>7. \A t \in Services : svc_registry[t].name # n
    BY <1>4, Zenon DEF FindName
<1> HIDE DEF r
<1>8. NamesAreUnique'
    <2> SUFFICES ASSUME NEW a \in Services, NEW b \in Services, svc_registry'[a] # FreeSlot,
                        svc_registry'[a].name = svc_registry'[b].name
                 PROVE  a = b
        BY Zenon DEF NamesAreUnique
    <2> QED
        BY <1>5, <1>6, <1>7, Zenon DEF NamesAreUnique
<1>9. SvcTypeOK /\ SvcTypeOK'
    BY Zenon DEF SvcInv
<1>10. Bound[n] = Unallocated
    BY <1>4, Zenon DEF Bound
<1>11. ASSUME NEW k \in ServiceNames, k # n
       PROVE  Bound'[k] = Bound[k]
    <2>1. FreeSlot.name # k
        BY SvcAssumption DEF FreeSlot
    <2>2. FindName(k)' = FindName(k)
        BY <1>1, <1>5, <1>6, <1>11, <2>1, Zenon DEF FindName
    <2>3. CASE FindName(k) = {}
        BY <2>2, <2>3, Zenon DEF Bound
    <2>4. CASE FindName(k) # {}
        <3>1. FindName(k) \in SUBSET Nat
            BY Ranges, Zenon DEF FindName
        <3>2. Min(FindName(k)) \in Services /\ svc_registry[Min(FindName(k))].name = k
            BY <2>4, <3>1, MinIsMember, Zenon DEF FindName
        <3>3. svc_registry'[Min(FindName(k))] = svc_registry[Min(FindName(k))]
            BY <1>1, <1>5, <2>1, <3>2, Zenon
        <3>4. Bound'[k] = svc_registry'[Min(FindName(k)')].endpoint
            BY <2>2, <2>4, Zenon DEF Bound
        <3>5. Bound[k] = svc_registry[Min(FindName(k))].endpoint
            BY <2>4, Zenon DEF Bound
        <3> QED
            BY <2>2, <3>3, <3>4, <3>5, Zenon
    <2> QED
        BY <2>3, <2>4, Zenon
<1>12. Bound'[n] = handles[p][h]
    <2>1. svc_registry'[s].name = n /\ svc_registry'[s].endpoint = handles[p][h]
        BY <1>1, <1>5, <1>6, Zenon
    <2>2. FindName(n)' = {s}
        BY <1>1, <1>5, <1>7, <2>1, Zenon DEF FindName
    <2>3. Min({s}) = s
        <3>1. {s} \in SUBSET Nat /\ {s} # {}
            BY <1>1, Ranges, Zenon
        <3> QED
            BY <3>1, MinIsMember, Zenon
    <2>4. Bound'[n] = svc_registry'[Min(FindName(n)')].endpoint
        BY <2>2, Zenon DEF Bound
    <2> QED
        BY <2>1, <2>2, <2>3, <2>4, Zenon
<1>13. PICK e \in Handles : handles[p][h] = <<p, e>>
    BY <1>3, Ranges, Zenon
<1>14. Bound' = [Bound EXCEPT ![n] = <<p, e>>]
    <2>1. DOMAIN Bound = ServiceNames /\ DOMAIN Bound' = ServiceNames
        BY Zenon DEF Bound
    <2>2. Bound = [k \in ServiceNames |-> Bound[k]] /\ Bound' = [k \in ServiceNames |-> Bound'[k]]
        BY Zenon DEF Bound
    <2> QED
        BY <1>11, <1>12, <1>13, <2>1, <2>2, Zenon
<1> QED
    BY <1>8, <1>10, <1>13, <1>14, Zenon

\* The owner's call empties one slot of its own: the directory drops the name.
LEMMA ClearOneDrops ==
    ASSUME SvcInv, SvcInv', NamesAreUnique, NEW p \in Living, life' = life,
           NEW s \in Services, svc_registry[s].endpoint[1] = p, Clear({s})
    PROVE  NamesAreUnique' /\ \E n \in ServiceNames : Directory!Drop(p, n)
<1>1. SvcTypeOK /\ SvcTypeOK' /\ p \in Pids
    BY Zenon DEF SvcInv, Living
<1>2. svc_registry[s] # FreeSlot
    BY <1>1, Ranges, UsedHasName, Zenon
<1> DEFINE n == svc_registry[s].name
<1>3. n \in ServiceNames /\ Bound[n] = svc_registry[s].endpoint
    BY <1>1, <1>2, NamedSlots, BoundToSlot, Zenon
<1>4. Bound[n] # Unallocated /\ Bound[n][1] = p
    BY <1>1, <1>2, <1>3, NamedSlots, Ranges, Zenon
<1>5. NamesAreUnique'
    BY <1>1, ClearUnbinds, Zenon
<1>6. \A k \in ServiceNames : Bound'[k] = IF k = n THEN Unallocated ELSE Bound[k]
    <2>1. \A k \in ServiceNames :
              Bound'[k] = IF \E t \in {s} \cap Services : svc_registry[t].name = k
                          THEN Unallocated ELSE Bound[k]
        BY <1>1, ClearUnbinds, Zenon
    <2> QED
        BY <2>1, Zenon
<1> HIDE DEF n
<1>7. Bound' = [Bound EXCEPT ![n] = Unallocated]
    <2>1. DOMAIN Bound = ServiceNames
        BY Zenon DEF Bound
    <2>2. Bound = [k \in ServiceNames |-> Bound[k]] /\ Bound' = [k \in ServiceNames |-> Bound'[k]]
        BY Zenon DEF Bound
    <2> QED
        BY <1>3, <1>6, <2>1, <2>2, Zenon
<1>8. Living' = Living
    BY Zenon DEF Living
<1>9. Directory!Drop(p, n)
    BY <1>3, <1>4, <1>7, <1>8, Zenon DEF Directory!Drop, Directory!NamesOf, Bound
<1> QED
    BY <1>3, <1>5, <1>9, Zenon

\* An exit is the server's death; a reap finds no name left.
LEMMA DeathInDirectory ==
    ASSUME SvcInv, SvcInv', NamesAreUnique, NEW p \in Pids, Exit(p) \/ Destroy(p)
    PROVE  NamesAreUnique' /\ (Directory!Die(p) \/ UNCHANGED <<Bound, Living>>)
<1>1. SvcTypeOK /\ SvcTypeOK'
    BY Zenon DEF SvcInv
<1> DEFINE S == {s \in Services : svc_registry[s].endpoint[1] = p}
<1>2. Clear(S)
    BY Zenon DEF Exit, Destroy, svc_cleanup_owner
<1>3. NamesAreUnique'
    BY <1>1, <1>2, ClearUnbinds, Zenon
<1>4. \A n \in ServiceNames :
          Bound'[n] = IF \E s \in S \cap Services : svc_registry[s].name = n
                      THEN Unallocated ELSE Bound[n]
    BY <1>1, <1>2, ClearUnbinds, Zenon
<1>5. /\ Bound = [n \in ServiceNames |-> Bound[n]]
      /\ Bound' = [n \in ServiceNames |-> Bound'[n]]
    BY Zenon DEF Bound
<1>6. CASE Exit(p)
    <2>1. p \in Living /\ Living' = Living \ {p}
        BY <1>1, <1>6, Zenon DEF Exit, ExitEndpoints, Living, SvcTypeOK
    <2>2. ASSUME NEW n \in ServiceNames
          PROVE  (\E s \in S \cap Services : svc_registry[s].name = n)
                    <=> Bound[n] # Unallocated /\ Bound[n][1] = p
        <3>1. ASSUME NEW s \in S \cap Services, svc_registry[s].name = n
              PROVE  Bound[n] # Unallocated /\ Bound[n][1] = p
            <4>1. Bound[n] = svc_registry[s].endpoint
                BY <1>1, <3>1, BoundToSlot, Zenon
            <4>2. Bound[n][1] = p
                BY <4>1, Zenon
            <4> QED
                BY <4>2, Ranges, Zenon
        <3>2. ASSUME Bound[n] # Unallocated, Bound[n][1] = p
              PROVE  \E s \in S \cap Services : svc_registry[s].name = n
            <4>1. PICK s \in Services : svc_registry[s].name = n
                BY <1>1, <3>2, BoundToSlot, ZenonT(30) DEF FindName
            <4>2. Bound[n] = svc_registry[s].endpoint
                BY <1>1, <4>1, BoundToSlot, Zenon
            <4> QED
                BY <3>2, <4>1, <4>2, Zenon
        <3> QED
            BY <3>1, <3>2, Zenon
    <2>3. \A n \in ServiceNames :
              Bound'[n] = IF Bound[n] # Unallocated /\ Bound[n][1] = p
                          THEN Unallocated ELSE Bound[n]
        BY <1>4, <2>2, Zenon
    <2> HIDE DEF S
    <2>4. Bound' = [n \in ServiceNames |->
                       IF n \in {k \in ServiceNames : Bound[k] # Unallocated /\ Bound[k][1] = p}
                       THEN Unallocated ELSE Bound[n]]
        BY <1>5, <2>3, Zenon
    <2>5. Directory!Die(p)
        BY <2>1, <2>4, Zenon DEF Directory!Die, Directory!NamesOf, Bound
    <2> QED
        BY <1>3, <2>5, Zenon
<1>7. CASE Destroy(p)
    <2>1. life[p] = "zombie" /\ life' = [life EXCEPT ![p] = "reaped"]
        BY <1>7, Zenon DEF Destroy, DestroyHandles
    <2>2. Living' = Living /\ p \notin Living
        BY <1>1, <2>1, Zenon DEF Living, SvcTypeOK
    <2>3. ASSUME NEW s \in Services
          PROVE  svc_registry[s].endpoint[1] # p
        <3>1. CASE svc_registry[s] = FreeSlot
            BY <3>1, UsedHasName, Ranges, <1>1, Zenon
        <3>2. CASE svc_registry[s] # FreeSlot
            BY <2>2, <3>2, InvImpliesProperties, Zenon DEF NamedEndpointExists
        <3> QED
            BY <3>1, <3>2, Zenon
    <2>4. \A n \in ServiceNames : Bound'[n] = Bound[n]
        BY <1>4, <2>3, Zenon
    <2>5. Bound' = Bound
        BY <1>5, <2>4, Zenon
    <2> QED
        BY <1>3, <2>2, <2>5, Zenon
<1> QED
    BY <1>6, <1>7, Zenon

\* Every step of the registry is one of the directory's, or none.
LEMMA StepInDirectory ==
    ASSUME SvcInv, SvcInv', NamesAreUnique, [SvcNext]_vars
    PROVE  NamesAreUnique' /\ [Directory!DirNext]_Directory!dirVars
<1>1. ASSUME UNCHANGED svc_registry
      PROVE  NamesAreUnique' /\ Bound' = Bound
    BY <1>1, Zenon DEF NamesAreUnique, Bound, FindName
<1>2. ASSUME UNCHANGED <<Bound, Living>>
      PROVE  UNCHANGED Directory!dirVars
    BY <1>2, Zenon DEF Directory!dirVars, Bound
<1>3. CASE UNCHANGED <<svc_registry, life>>
    <2>1. Living' = Living
        BY <1>3, Zenon DEF Living
    <2> QED
        BY <1>1, <1>2, <1>3, <2>1, Zenon
<1>4. ASSUME NEW c \in Pids, life[c] = "unborn", life' = [life EXCEPT ![c] = "living"],
             UNCHANGED svc_registry
      PROVE  NamesAreUnique' /\ Directory!DirNext
    <2>1. c \notin Living /\ Living' = Living \cup {c}
        BY <1>4, Zenon DEF Living, SvcInv, SvcTypeOK
    <2>2. Directory!StartUp(c)
        BY <1>1, <1>4, <2>1, Zenon DEF Directory!StartUp, Bound
    <2> QED
        BY <1>1, <1>4, <2>2, Zenon DEF Directory!DirNext
<1>5. ASSUME NEW p \in Pids, NEW n \in ServiceNames, NEW h \in Handles, sys_sr_register(p, n, h)
      PROVE  NamesAreUnique' /\ Directory!DirNext
    <2>1. p \in Living /\ Living' = Living
        BY <1>5, Zenon DEF sys_sr_register, ipcVars, Living
    <2>2. PICK e \in Handles : Bound' = [Bound EXCEPT ![n] = <<p, e>>]
        BY <1>5, RegisterBinds, Zenon
    <2>3. NamesAreUnique' /\ Bound[n] = Unallocated
        BY <1>5, RegisterBinds, Zenon
    <2>4. Directory!Bind(p, n, e)
        BY <2>1, <2>2, <2>3, Zenon DEF Directory!Bind, Bound
    <2> QED
        BY <2>3, <2>4, Zenon DEF Directory!DirNext
<1>6. ASSUME NEW p \in Pids, NEW n \in ServiceNames, NEW h \in Handles, sys_sr_unregister(p, n, h)
      PROVE  NamesAreUnique' /\ Directory!DirNext
    <2>1. p \in Living /\ life' = life /\ FindName(n) # {}
        BY <1>6, Zenon DEF sys_sr_unregister, ipcVars
    <2>2. Min(FindName(n)) \in Services
        <3>1. FindName(n) \in SUBSET Nat
            BY Ranges, Zenon DEF FindName
        <3> QED
            BY <2>1, <3>1, MinIsMember, Zenon DEF FindName
    <2>3. svc_registry[Min(FindName(n))].endpoint[1] = p /\ Clear({Min(FindName(n))})
        BY <1>6, Zenon DEF sys_sr_unregister
    <2> QED
        BY <2>1, <2>2, <2>3, ClearOneDrops, Zenon DEF Directory!DirNext
<1>7. ASSUME NEW p \in Pids, NEW h \in Handles, sys_ipc_close(p, h)
      PROVE  NamesAreUnique' /\ [Directory!DirNext]_Directory!dirVars
    <2> DEFINE i == Target(p, h)
               name == handles[p][h]
    <2>1. p \in Living /\ life' = life
        BY <1>7, Zenon DEF sys_ipc_close, CloseHandle
    <2>2. CASE ~Owns(p, i)
        BY <1>3, <1>7, <2>1, <2>2, Zenon DEF sys_ipc_close
    <2>3. CASE Owns(p, i)
        <3>1. name[1] = p
            BY <2>3, TargetFinds, Zenon DEF SvcInv, Owns
        <3>2. svc_on_endpoint_close(name)
            BY <1>7, <2>3, Zenon DEF sys_ipc_close
        <3>3. CASE SlotsOf(name) = {}
            <4>1. Clear({})
                BY <3>2, <3>3, Zenon DEF svc_on_endpoint_close
            <4>2. svc_registry' = svc_registry
                BY <4>1, Zenon DEF Clear, SvcInv, SvcTypeOK
            <4> QED
                BY <1>3, <2>1, <4>2, Zenon
        <3>4. CASE SlotsOf(name) # {}
            <4>1. SlotsOf(name) \in SUBSET Nat
                BY Ranges, Zenon DEF SlotsOf
            <4>2. /\ Min(SlotsOf(name)) \in Services
                  /\ svc_registry[Min(SlotsOf(name))].endpoint = name
                BY <3>4, <4>1, MinIsMember, Zenon DEF SlotsOf
            <4>3. Clear({Min(SlotsOf(name))})
                BY <3>2, <3>4, Zenon DEF svc_on_endpoint_close
            <4>4. svc_registry[Min(SlotsOf(name))].endpoint[1] = p
                BY <3>1, <4>2, Zenon
            <4> HIDE DEF name
            <4> QED
                BY <2>1, <4>2, <4>3, <4>4, ClearOneDrops, Zenon DEF Directory!DirNext
        <3> QED
            BY <3>3, <3>4, Zenon
    <2> QED
        BY <2>2, <2>3, Zenon
<1>8. ASSUME NEW p \in Pids, Exit(p) \/ Destroy(p)
      PROVE  NamesAreUnique' /\ [Directory!DirNext]_Directory!dirVars
    BY <1>2, <1>8, DeathInDirectory, Zenon DEF Directory!DirNext
<1>9. \/ UNCHANGED <<svc_registry, life>>
      \/ \E c \in Pids : /\ life[c] = "unborn" /\ life' = [life EXCEPT ![c] = "living"]
                         /\ UNCHANGED svc_registry
      \/ \E p \in Pids, n \in ServiceNames, h \in Handles :
             sys_sr_register(p, n, h) \/ sys_sr_unregister(p, n, h)
      \/ \E p \in Pids, h \in Handles : sys_ipc_close(p, h)
      \/ \E p \in Pids : Exit(p) \/ Destroy(p)
    <2>1. CASE UNCHANGED vars
        BY <2>1, Zenon DEF vars, ipcVars
    <2>2. CASE SvcNext
        BY <2>2, Zenon DEF SvcNext, Transport, sys_ipc_endpoint_create, sys_ipc_send, sys_ipc_recv,
               sys_ipc_connect, Spawn, ForkHandles, Born, sys_sr_lookup
    <2> QED
        BY <2>1, <2>2, Zenon
<1> QED
    BY <1>3, <1>4, <1>5, <1>6, <1>7, <1>8, <1>9, Zenon

(***************************************************************************)
(* The slots of svc_registry implement the directory of module Directory:  *)
(* binding a free name, its owner dropping it and the owner's exit are the *)
(* only steps that change what a name leads to, for any number of          *)
(* processes, endpoints and slots.                                         *)
(***************************************************************************)
THEOREM DirectoryImplemented == SvcSpec => ImplementsDirectory
<1>1. SvcInit => NamesAreUnique /\ Directory!DirInit
    <2> SUFFICES ASSUME SvcInit PROVE NamesAreUnique /\ Directory!DirInit
        OBVIOUS
    <2>1. /\ svc_registry = [s \in Services |-> FreeSlot]
          /\ life = [p \in Pids |-> "unborn"]
        BY Zenon DEF SvcInit, IpcInit
    <2>2. NamesAreUnique
        BY <2>1, Zenon DEF NamesAreUnique
    <2>3. FreeSlot.name \notin ServiceNames
        BY SvcAssumption DEF FreeSlot
    <2>4. \A n \in ServiceNames : FindName(n) = {}
        BY <2>1, <2>3, Zenon DEF FindName
    <2>5. Living = {}
        BY <2>1 DEF Living
    <2>6. Bound = [n \in ServiceNames |-> Unallocated]
        BY <2>4, Zenon DEF Bound
    <2> QED
        BY <2>2, <2>5, <2>6, Zenon DEF Directory!DirInit, Bound
<1>2. SvcInv /\ SvcInv' /\ NamesAreUnique /\ [SvcNext]_vars
        => NamesAreUnique' /\ [Directory!DirNext]_Directory!dirVars
    BY StepInDirectory
<1> QED
    BY <1>1, <1>2, SvcInvAlways, PTL DEF SvcSpec, ImplementsDirectory, Directory!DirSpec
=============================================================================
