----------------------------- MODULE Tty_proofs -----------------------------
(***************************************************************************)
(* The device registry and the console: handles reach the driver they were *)
(* opened on, a write reports what was sent, and the line that a read      *)
(* hands out is the one the terminal of module Terminal edits.             *)
(***************************************************************************)
EXTENDS Tty, FiniteSetTheorems, TLAPS

\* A nonempty set of naturals has a least element.
LEMMA LeastNat ==
    ASSUME NEW T \in SUBSET Nat, T # {}
    PROVE  \E n \in T : \A m \in T : n <= m
<1>1. PICK x \in T : \A y \in T : ~(<<y, x>> \in OpToRel(<, Nat))
    BY NatLessThanWellFounded, WFMin, Zenon
<1>2. \A y \in T : ~(y < x)
    BY <1>1, Zenon DEF OpToRel
<1> QED
    BY <1>2

\* Induction: a set with no least exception has none.
LEMMA NatSet ==
    ASSUME NEW S, 0 \in S, \A n \in Nat : n \in S => n + 1 \in S
    PROVE  \A n \in Nat : n \in S
<1> DEFINE T == Nat \ S
<1>1. SUFFICES ASSUME T # {}
               PROVE  FALSE
    OBVIOUS
<1>2. T \in SUBSET Nat
    OBVIOUS
<1> HIDE DEF T
<1>3. PICK x \in T : \A y \in T : x <= y
    BY <1>1, <1>2, LeastNat
<1>4. x \in Nat /\ x \notin S /\ x # 0
    BY <1>3 DEF T
<1>5. x - 1 \in Nat /\ x - 1 \notin T /\ (x - 1) + 1 = x
    BY <1>3, <1>4
<1>6. x - 1 \in S
    BY <1>5 DEF T
<1> QED
    BY <1>4, <1>5, <1>6

\* A count below its limit does not wrap.
LEMMA BelowLimit ==
    ASSUME NEW n \in Nat, NEW m \in Nat, n < m
    PROVE  n % m = n
<1> DEFINE r == n % m
           q == n \div m
<1>1. r \in 0 .. m - 1 /\ q \in Int /\ n = m * q + r
    OBVIOUS
<1>2. q = 0
    BY <1>1
<1> QED
    BY <1>1, <1>2

-----------------------------------------------------------------------------
\* The open instances of the device in slot k.
OpenOn(k) == {i \in Insts : inst[i] # FreedInst /\ inst[i].idx = k}

(***************************************************************************)
(* Why a handle stays good: the slot it names is in use, by the device it  *)
(* was opened on, and counts exactly the instances open on it, so that     *)
(* dev_unregister cannot empty it.  The count never wraps, for there are   *)
(* fewer instances than a uint8_t can hold.                                *)
(***************************************************************************)
DevInv ==
    /\ slot \in [DeviceSlots -> [driver : Drivers, name : Names \cup {NoName},
                                 inuse : BOOLEAN, ref : Nat]]
    /\ inst \in [Insts -> {FreedInst} \cup [driver : Drivers, idx : DeviceSlots, birth : Nat]]
    /\ \A i \in Insts : inst[i] # FreedInst =>
          /\ inst[i].idx \in DeviceSlots /\ inst[i].birth = Magic(inst[i].idx)
          /\ slot[inst[i].idx].inuse /\ slot[inst[i].idx].name # NoName
          /\ slot[inst[i].idx].driver = inst[i].driver
    /\ \A k \in DeviceSlots : slot[k].ref = Cardinality(OpenOn(k))
    /\ console = NoInst \/ (console \in Insts /\ inst[console] # FreedInst)

\* What a count of open instances is.
LEMMA OpenCounts ==
    ASSUME NEW k
    PROVE  /\ IsFiniteSet(OpenOn(k)) /\ Cardinality(OpenOn(k)) \in Nat
           /\ Cardinality(OpenOn(k)) <= Cardinality(Insts) /\ Cardinality(Insts) < RefLimit
           /\ Cardinality(OpenOn(k)) = 0 <=> OpenOn(k) = {}
           /\ Cardinality(Insts) \in Nat /\ RefLimit \in Nat
<1>1. IsFiniteSet(Insts) /\ Cardinality(Insts) < RefLimit /\ RefLimit \in Nat
    BY DeviceAssumption
<1>2. OpenOn(k) \in SUBSET Insts
    BY DEF OpenOn
<1>3. IsFiniteSet(OpenOn(k)) /\ Cardinality(OpenOn(k)) <= Cardinality(Insts)
    BY <1>1, <1>2, FS_Subset, Zenon
<1>4. Cardinality(OpenOn(k)) \in Nat /\ Cardinality(Insts) \in Nat
    BY <1>1, <1>3, FS_CardinalityType, Zenon
<1>5. Cardinality(OpenOn(k)) = 0 <=> OpenOn(k) = {}
    BY <1>3, FS_EmptySet, Zenon
<1> QED
    BY <1>1, <1>3, <1>4, <1>5, Zenon

\* The handles of DevInv are good ones.
LEMMA GoodHandles ==
    ASSUME DevInv
    PROVE  HandlesReachTheirDriver
<1>1. ASSUME NEW i \in Insts, inst[i] # FreedInst
      PROVE  slot[inst[i].idx].ref # 0
    <2>1. i \in OpenOn(inst[i].idx) /\ inst[i].idx \in DeviceSlots
        BY <1>1 DEF DevInv, OpenOn
    <2> QED BY <2>1, OpenCounts, Zenon DEF DevInv
<1> QED
    BY <1>1, Zenon DEF DevInv, HandlesReachTheirDriver, dev_inst_valid, dev_entry_live

\* A slot with no reference has no open instance.
LEMMA UnusedSlot ==
    ASSUME DevInv, NEW k \in DeviceSlots, ~slot[k].inuse \/ slot[k].ref = 0
    PROVE  OpenOn(k) = {} /\ \A i \in Insts : inst[i] # FreedInst => inst[i].idx # k
<1>1. CASE ~slot[k].inuse
    BY <1>1 DEF DevInv, OpenOn
<1>2. CASE slot[k].ref = 0
    <2>1. OpenOn(k) = {}
        BY <1>2, OpenCounts, Zenon DEF DevInv
    <2> QED BY <2>1 DEF OpenOn
<1> QED
    BY <1>1, <1>2

\* dev_register fills a slot no instance is open on.
LEMMA RegisterKeepsInv ==
    ASSUME DevInv, NEW d \in Drivers, dev_register(d)
    PROVE  DevInv'
<1>1. PICK k \in DeviceSlots : ~slot[k].inuse /\ slot' = Published(slot, k, d)
    BY DEF dev_register, FreeSlot
<1>2. inst' = inst /\ console' = console
    BY DEF dev_register
<1>3. OpenOn(k) = {} /\ \A i \in Insts : inst[i] # FreedInst => inst[i].idx # k
    BY <1>1, UnusedSlot
<1>4. NameOf[d] \in Names /\ NameOf[d] # NoName
    BY DeviceAssumption DEF Names
<1>5. \A j \in DeviceSlots : OpenOn(j)' = OpenOn(j)
    BY <1>2, Zenon DEF OpenOn
<1>6. \A j \in DeviceSlots : slot'[j] = IF j = k
          THEN [driver |-> d, name |-> NameOf[d], inuse |-> TRUE, ref |-> 0] ELSE slot[j]
    BY <1>1 DEF Published, DevInv
<1>7. \A j \in DeviceSlots : slot'[j].ref = Cardinality(OpenOn(j)')
    <2>1. TAKE j \in DeviceSlots
    <2>2. CASE j = k
        <3>1. slot'[j].ref = 0
            BY <1>6, <2>2
        <3> QED BY <1>3, <1>5, <2>2, <3>1, FS_EmptySet, Zenon
    <2>3. CASE j # k
        BY <1>5, <1>6, <2>3, Zenon DEF DevInv
    <2> QED BY <2>2, <2>3
<1>8. slot' \in [DeviceSlots -> [driver : Drivers, name : Names \cup {NoName},
                                 inuse : BOOLEAN, ref : Nat]]
    BY <1>1, <1>4, Zenon DEF DevInv, Published
<1> QED
    BY <1>2, <1>3, <1>6, <1>7, <1>8 DEF DevInv

\* dev_unregister empties a slot only at count zero: no instance is open on it.
LEMMA UnregisterKeepsInv ==
    ASSUME DevInv, NEW n, dev_unregister(n)
    PROVE  DevInv'
<1>1. PICK k \in DeviceSlots :
          /\ slot[k].ref = 0
          /\ slot' = [slot EXCEPT ![k].name = NoName, ![k].inuse = FALSE, ![k].ref = 0]
    BY Zenon DEF dev_unregister, dev_lookup
<1>2. inst' = inst /\ console' = console
    BY DEF dev_unregister
<1>3. \A i \in Insts : inst[i] # FreedInst => inst[i].idx # k
    BY <1>1, UnusedSlot
<1>4. \A j \in DeviceSlots : OpenOn(j)' = OpenOn(j)
    BY <1>2, Zenon DEF OpenOn
<1>5. \A j \in DeviceSlots : slot'[j].ref = slot[j].ref /\ (j # k => slot'[j] = slot[j])
    BY <1>1 DEF DevInv
<1>6. \A j \in DeviceSlots : slot'[j].ref = Cardinality(OpenOn(j)')
    BY <1>4, <1>5, Zenon DEF DevInv
<1>7. slot' \in [DeviceSlots -> [driver : Drivers, name : Names \cup {NoName},
                                 inuse : BOOLEAN, ref : Nat]]
    <2> DEFINE Entry == [driver : Drivers, name : Names \cup {NoName},
                         inuse : BOOLEAN, ref : Nat]
               e == [slot[k] EXCEPT !.name = NoName, !.inuse = FALSE, !.ref = 0]
    <2>1. slot[k] \in Entry /\ slot \in [DeviceSlots -> Entry]
        BY DEF DevInv
    <2>2. e \in Entry
        BY <2>1, Zenon
    <2>3. slot' = [slot EXCEPT ![k] = e]
        BY <1>1, <2>1, Zenon
    <2> HIDE DEF Entry, e
    <2>4. slot' \in [DeviceSlots -> Entry]
        BY <2>1, <2>2, <2>3
    <2> QED BY <2>4 DEF Entry
<1> QED
    BY <1>2, <1>3, <1>5, <1>6, <1>7 DEF DevInv

\* dev_open counts the instance it makes, and the count does not wrap.
LEMMA OpenKeepsInv ==
    ASSUME DevInv, NEW n, NEW i \in Insts, dev_open(n, i)
    PROVE  DevInv'
<1>1. PICK k \in DeviceSlots :
          /\ slot[k].inuse /\ slot[k].name # NoName
          /\ slot' = [slot EXCEPT ![k].ref = (@ + 1) % RefLimit]
          /\ inst' = [inst EXCEPT ![i] = NewInst(slot, k)]
    BY Zenon DEF dev_open, dev_lookup, dev_entry_live
<1>2. inst[i] = FreedInst /\ console' = console
    BY DEF dev_open
<1>3. /\ NewInst(slot, k) \in [driver : Drivers, idx : DeviceSlots, birth : Nat]
      /\ NewInst(slot, k).idx = k /\ NewInst(slot, k).birth = Magic(k)
      /\ NewInst(slot, k).driver = slot[k].driver /\ NewInst(slot, k) # FreedInst
    <2>1. Magic(k) \in Nat /\ slot[k].driver \in Drivers
        BY DeviceAssumption DEF Magic, DevInv
    <2> QED BY <2>1, Zenon DEF NewInst, FreedInst
<1>4. \A j \in DeviceSlots : OpenOn(j)' = IF j = k THEN OpenOn(j) \cup {i} ELSE OpenOn(j)
    BY <1>1, <1>2, <1>3 DEF OpenOn, DevInv
<1>5. i \notin OpenOn(k) /\ OpenOn(k) \cup {i} \in SUBSET Insts
    BY <1>2, Zenon DEF OpenOn
<1>6. /\ Cardinality(OpenOn(k) \cup {i}) = Cardinality(OpenOn(k)) + 1
      /\ Cardinality(OpenOn(k) \cup {i}) <= Cardinality(Insts)
    <2>1. IsFiniteSet(OpenOn(k)) /\ IsFiniteSet(Insts)
        BY OpenCounts, DeviceAssumption
    <2>2. Cardinality(OpenOn(k) \cup {i}) = Cardinality(OpenOn(k)) + 1
        BY <1>5, <2>1, FS_AddElement, Zenon
    <2>3. Cardinality(OpenOn(k) \cup {i}) <= Cardinality(Insts)
        BY <1>5, <2>1, FS_Subset, Zenon
    <2> QED BY <2>2, <2>3, Zenon
<1>7. (slot[k].ref + 1) % RefLimit = slot[k].ref + 1 /\ slot[k].ref \in Nat
    <2>1. slot[k].ref = Cardinality(OpenOn(k)) /\ slot[k].ref \in Nat
        BY DEF DevInv
    <2>2. slot[k].ref + 1 \in Nat /\ slot[k].ref + 1 < RefLimit /\ RefLimit \in Nat
        BY <1>6, <2>1, OpenCounts
    <2> QED BY <2>1, <2>2, BelowLimit, Zenon
<1>8. \A j \in DeviceSlots :
          /\ slot'[j].ref = IF j = k THEN slot[j].ref + 1 ELSE slot[j].ref
          /\ slot'[j].inuse = slot[j].inuse /\ slot'[j].name = slot[j].name
          /\ slot'[j].driver = slot[j].driver
    BY <1>1, <1>7 DEF DevInv
<1>9. \A j \in DeviceSlots : slot'[j].ref = Cardinality(OpenOn(j)')
    <2>1. TAKE j \in DeviceSlots
    <2>2. slot[j].ref = Cardinality(OpenOn(j))
        BY DEF DevInv
    <2>3. CASE j = k
        BY <1>4, <1>6, <1>8, <2>2, <2>3, Zenon
    <2>4. CASE j # k
        BY <1>4, <1>6, <1>8, <2>2, <2>4, Zenon
    <2> QED BY <2>3, <2>4, Zenon
<1>10. slot' \in [DeviceSlots -> [driver : Drivers, name : Names \cup {NoName},
                                  inuse : BOOLEAN, ref : Nat]]
    BY <1>1, <1>7 DEF DevInv
<1>11. \A j \in Insts : inst'[j] = IF j = i THEN NewInst(slot, k) ELSE inst[j]
    BY <1>1, Zenon DEF DevInv
<1>12. \A j \in Insts : inst'[j] # FreedInst =>
          /\ inst'[j].idx \in DeviceSlots /\ inst'[j].birth = Magic(inst'[j].idx)
          /\ slot'[inst'[j].idx].inuse /\ slot'[inst'[j].idx].name # NoName
          /\ slot'[inst'[j].idx].driver = inst'[j].driver
    <2>1. TAKE j \in Insts
    <2>2. CASE j = i
        BY <1>1, <1>3, <1>8, <1>11, <2>2
    <2>3. CASE j # i
        <3>1. inst'[j] = inst[j]
            BY <1>11, <2>3, Zenon
        <3> QED BY <1>8, <3>1 DEF DevInv
    <2> QED BY <2>2, <2>3, Zenon
<1>13. /\ inst' \in [Insts -> {FreedInst}
                       \cup [driver : Drivers, idx : DeviceSlots, birth : Nat]]
       /\ console' = NoInst \/ (console' \in Insts /\ inst'[console'] # FreedInst)
    BY <1>1, <1>2, <1>3, <1>11, Zenon DEF DevInv
<1> QED
    BY <1>9, <1>10, <1>12, <1>13, Zenon DEF DevInv

\* dev_close takes one instance and one reference away.
LEMMA CloseKeepsInv ==
    ASSUME DevInv, NEW i \in Insts, dev_close(i)
    PROVE  DevInv'
<1> DEFINE k == inst[i].idx
<1>1. /\ inst[i] # FreedInst /\ i # console /\ console' = console
      /\ slot' = [slot EXCEPT ![k].ref = (@ - 1) % RefLimit]
      /\ inst' = [inst EXCEPT ![i] = FreedInst]
    BY Zenon DEF dev_close, dev_inst_valid
<1>2. k \in DeviceSlots /\ i \in OpenOn(k)
    BY <1>1, Zenon DEF DevInv, OpenOn
<1>3. \A j \in DeviceSlots : OpenOn(j)' = IF j = k THEN OpenOn(j) \ {i} ELSE OpenOn(j)
    BY <1>1 DEF OpenOn, DevInv
<1> HIDE DEF k
<1>4. Cardinality(OpenOn(k) \ {i}) = Cardinality(OpenOn(k)) - 1 /\ Cardinality(OpenOn(k)) # 0
    <2>1. IsFiniteSet(OpenOn(k)) /\ OpenOn(k) # {}
        BY <1>2, OpenCounts
    <2>2. Cardinality(OpenOn(k) \ {i}) = Cardinality(OpenOn(k)) - 1
        BY <1>2, <2>1, FS_RemoveElement, Zenon
    <2> QED BY <2>1, <2>2, OpenCounts, Zenon
<1>5. (slot[k].ref - 1) % RefLimit = slot[k].ref - 1 /\ slot[k].ref - 1 \in Nat
    <2>1. slot[k].ref = Cardinality(OpenOn(k)) /\ slot[k].ref \in Nat
        BY <1>2, Zenon DEF DevInv
    <2>2. slot[k].ref - 1 \in Nat /\ slot[k].ref - 1 < RefLimit /\ RefLimit \in Nat
        BY <1>4, <2>1, OpenCounts
    <2> QED BY <2>2, BelowLimit, Zenon
<1>6. \A j \in DeviceSlots :
          /\ slot'[j].ref = IF j = k THEN slot[j].ref - 1 ELSE slot[j].ref
          /\ slot'[j].inuse = slot[j].inuse /\ slot'[j].name = slot[j].name
          /\ slot'[j].driver = slot[j].driver
    BY <1>1, <1>5 DEF DevInv
<1>7. \A j \in DeviceSlots : slot'[j].ref = Cardinality(OpenOn(j)')
    <2>1. TAKE j \in DeviceSlots
    <2>2. slot[j].ref = Cardinality(OpenOn(j))
        BY DEF DevInv
    <2>3. CASE j = k
        BY <1>3, <1>4, <1>6, <2>2, <2>3, Zenon
    <2>4. CASE j # k
        BY <1>3, <1>4, <1>6, <2>2, <2>4, Zenon
    <2> QED BY <2>3, <2>4, Zenon
<1>8. slot' \in [DeviceSlots -> [driver : Drivers, name : Names \cup {NoName},
                                 inuse : BOOLEAN, ref : Nat]]
    <2>1. slot' = [slot EXCEPT ![k].ref = slot[k].ref - 1]
        BY <1>1, <1>5, Zenon
    <2> QED BY <1>2, <1>5, <2>1 DEF DevInv
<1>9. \A j \in Insts : inst'[j] = IF j = i THEN FreedInst ELSE inst[j]
    BY <1>1, Zenon DEF DevInv
<1>10. \A j \in Insts : inst'[j] # FreedInst =>
          /\ inst'[j].idx \in DeviceSlots /\ inst'[j].birth = Magic(inst'[j].idx)
          /\ slot'[inst'[j].idx].inuse /\ slot'[inst'[j].idx].name # NoName
          /\ slot'[inst'[j].idx].driver = inst'[j].driver
    <2>1. TAKE j \in Insts
    <2>2. CASE j = i
        BY <1>9, <2>2, Zenon
    <2>3. CASE j # i
        <3>1. inst'[j] = inst[j]
            BY <1>9, <2>3, Zenon
        <3> QED BY <1>6, <3>1, SMTT(30), Z3T(30) DEF DevInv
    <2> QED BY <2>2, <2>3, Zenon
<1>11. /\ inst' \in [Insts -> {FreedInst}
                       \cup [driver : Drivers, idx : DeviceSlots, birth : Nat]]
       /\ console' = NoInst \/ (console' \in Insts /\ inst'[console'] # FreedInst)
    BY <1>1, <1>9, Zenon DEF DevInv
<1> QED
    BY <1>7, <1>8, <1>10, <1>11, Zenon DEF DevInv

\* Boot: the first slot of the empty table is the console's.
LEMMA BootInv ==
    ASSUME serial_drv_register
    PROVE  DevInv
<1> DEFINE empty == [k \in DeviceSlots |-> EmptySlot]
           first == CHOOSE k \in FreeSlot(empty, NameOf[Serial]) : TRUE
           boot == Published(empty, first, Serial)
           closed == [i \in Insts |-> FreedInst]
           Entry == [driver : Drivers, name : Names \cup {NoName}, inuse : BOOLEAN, ref : Nat]
<1>1. EmptySlot \in Entry /\ ~EmptySlot.inuse /\ EmptySlot.ref = 0
    BY DeviceAssumption, Zenon DEF EmptySlot
<1>2. first \in DeviceSlots
    <2>1. DeviceSlots \in SUBSET Nat /\ DeviceSlots # {}
        BY DeviceAssumption
    <2>2. PICK k \in DeviceSlots : \A j \in DeviceSlots : k <= j
        BY <2>1, LeastNat, Zenon
    <2>3. k \in FreeSlot(empty, NameOf[Serial])
        BY <1>1, <2>1, <2>2 DEF FreeSlot
    <2>4. first \in FreeSlot(empty, NameOf[Serial])
        BY <2>3, Zenon
    <2> QED BY <2>4 DEF FreeSlot
<1> HIDE DEF first
<1>3. NameOf[Serial] \in Names /\ NameOf[Serial] # NoName /\ Serial \in Drivers
    BY DeviceAssumption, Zenon DEF Names
<1>4. /\ boot \in [DeviceSlots -> Entry]
      /\ \A j \in DeviceSlots : boot[j] = IF j = first
            THEN [driver |-> Serial, name |-> NameOf[Serial], inuse |-> TRUE, ref |-> 0]
            ELSE EmptySlot
    BY <1>1, <1>2, <1>3, Zenon DEF Published
<1> HIDE DEF boot
<1>5. \A j \in DeviceSlots : boot[j].ref = 0
    BY <1>1, <1>4
<1>6. CASE slot = boot /\ inst = closed /\ console = NoInst
    <2>1. \A k \in DeviceSlots : OpenOn(k) = {}
        BY <1>6 DEF OpenOn
    <2>2. \A k \in DeviceSlots : slot[k].ref = Cardinality(OpenOn(k))
        BY <1>5, <1>6, <2>1, FS_EmptySet, Zenon
    <2> QED BY <1>4, <1>6, <2>2, Zenon DEF DevInv
<1>7. ASSUME NEW i \in Insts, slot = [boot EXCEPT ![first].ref = 1],
             inst = [closed EXCEPT ![i] = NewInst(boot, first)], console = i
      PROVE  DevInv
    <2> DEFINE new == NewInst(boot, first)
    <2>1. /\ new \in [driver : Drivers, idx : DeviceSlots, birth : Nat]
          /\ new.idx = first /\ new.birth = Magic(first) /\ new.driver = Serial
          /\ new # FreedInst
        <3>1. Magic(first) \in Nat /\ boot[first].driver = Serial
            BY <1>2, <1>4, DeviceAssumption DEF Magic
        <3> QED BY <1>2, <1>3, <3>1, Zenon DEF NewInst, FreedInst
    <2> HIDE DEF new
    <2>2. \A j \in Insts : inst[j] = IF j = i THEN new ELSE FreedInst
        BY <1>7, Zenon DEF new
    <2>3. \A k \in DeviceSlots : OpenOn(k) = IF k = first THEN {i} ELSE {}
        BY <2>1, <2>2 DEF OpenOn
    <2>4. \A k \in DeviceSlots :
             /\ slot[k].ref = IF k = first THEN 1 ELSE 0
             /\ k = first => /\ slot[k].inuse /\ slot[k].name # NoName
                             /\ slot[k].driver = Serial
        BY <1>2, <1>3, <1>4, <1>5, <1>7
    <2>5. \A k \in DeviceSlots : slot[k].ref = Cardinality(OpenOn(k))
        <3>1. TAKE k \in DeviceSlots
        <3>2. CASE k = first
            BY <2>3, <2>4, <3>2, FS_Singleton, Zenon
        <3>3. CASE k # first
            BY <2>3, <2>4, <3>3, FS_EmptySet, Zenon
        <3> QED BY <3>2, <3>3
    <2>6. slot \in [DeviceSlots -> Entry]
        BY <1>2, <1>4, <1>7, Zenon
    <2>7. inst \in [Insts -> {FreedInst}
                       \cup [driver : Drivers, idx : DeviceSlots, birth : Nat]]
        BY <1>7, <2>1, Zenon DEF new
    <2>8. \A j \in Insts : inst[j] # FreedInst =>
              /\ inst[j].idx \in DeviceSlots /\ inst[j].birth = Magic(inst[j].idx)
              /\ slot[inst[j].idx].inuse /\ slot[inst[j].idx].name # NoName
              /\ slot[inst[j].idx].driver = inst[j].driver
        BY <1>2, <2>1, <2>2, <2>4, Zenon
    <2> QED BY <1>7, <2>1, <2>2, <2>5, <2>6, <2>7, <2>8, Zenon DEF DevInv
<1> QED
    BY <1>6, <1>7, Zenon DEF serial_drv_register, first, boot

\* A step of the registry keeps it, and the rest of the system leaves it alone.
LEMMA DevStep ==
    ASSUME DevInv, [Next]_vars
    PROVE  DevInv'
<1>1. ASSUME UNCHANGED devVars
      PROVE  DevInv'
    BY <1>1 DEF devVars, DevInv, OpenOn
<1>2. CASE DevNext
    BY <1>2, RegisterKeepsInv, UnregisterKeepsInv, OpenKeepsInv, CloseKeepsInv, Zenon
    DEF DevNext
<1> QED
    BY <1>1, <1>2, Zenon DEF Next, vars, sys_read, sys_write, tty_ioctl, Type, Drive

\* The registry's invariant holds in every reachable state (device.c).
THEOREM RegistryInvariant == Spec => []DevInv
<1>1. Init => DevInv
    BY BootInv DEF Init
<1>2. DevInv /\ [Next]_vars => DevInv'
    BY DevStep
<1> QED
    BY <1>1, <1>2, PTL DEF Spec

\* An open handle stays valid and reaches the driver it was opened on, however
\* dev_register, dev_unregister, dev_open and dev_close follow each other.
THEOREM HandlesReach == Spec => []HandlesReachTheirDriver
<1>1. DevInv => HandlesReachTheirDriver
    BY GoodHandles
<1> QED
    BY <1>1, RegistryInvariant, PTL

-----------------------------------------------------------------------------
\* One turn of sys_write's loop; g is what the turns after it return.
WriteTurn(g, count, readable, done) ==
    LET chunk == Least(count - done, Chunk)
    IN  IF done = count THEN [ret |-> done, sent |-> done]
        ELSE IF done + chunk > readable
             THEN [ret |-> IF done > 0 THEN done ELSE VE_FAULT, sent |-> done]
        ELSE IF ~ConsoleUp
             THEN [ret |-> IF done > 0 THEN done ELSE VE_BADF, sent |-> done]
        ELSE g[done + chunk]

\* The loop, as a function of how many bytes are done.
IsWrite(g, count, readable) ==
    g = [done \in 0 .. count |-> WriteTurn(g, count, readable, done)]

\* A turn sends something and not too much.
LEMMA ChunkSize ==
    ASSUME NEW count \in Nat, NEW done \in 0 .. count, done # count
    PROVE  /\ Least(count - done, Chunk) \in 1 .. count - done
           /\ done + Least(count - done, Chunk) \in done + 1 .. count
<1>1. Chunk \in Nat \ {0}
    BY TtyAssumption
<1> QED
    BY <1>1 DEF Least

\* The loop ends: every turn but the last sends at least a byte.
LEMMA WriteEnds ==
    ASSUME NEW count \in Nat, NEW readable
    PROVE  \E g : IsWrite(g, count, readable)
<1> DEFINE Runs(n) == \E g : g = [done \in count - n .. count |->
                                       WriteTurn(g, count, readable, done)]
           S == {n \in Nat : n <= count => Runs(n)}
<1>1. 0 \in S
    <2> DEFINE g == [done \in count - 0 .. count |-> [ret |-> done, sent |-> done]]
    <2>1. \A done \in count - 0 .. count : done = count
        OBVIOUS
    <2>2. g = [done \in count - 0 .. count |-> WriteTurn(g, count, readable, done)]
        BY <2>1, Zenon DEF WriteTurn
    <2> HIDE DEF g
    <2> QED BY <2>2
<1>2. ASSUME NEW n \in Nat, n \in S
      PROVE  n + 1 \in S
    <2> DEFINE m == count - (n + 1)
    <2>1. SUFFICES ASSUME n + 1 <= count
                   PROVE  Runs(n + 1)
        OBVIOUS
    <2>2. PICK g : g = [done \in count - n .. count |-> WriteTurn(g, count, readable, done)]
        BY <1>2, <2>1
    <2> DEFINE h == [done \in m .. count |->
                        IF done = m THEN WriteTurn(g, count, readable, m) ELSE g[done]]
    <2>3. ASSUME NEW done \in m .. count
          PROVE  h[done] = WriteTurn(h, count, readable, done)
        <3>1. done \in 0 .. count
            BY <2>1
        <3>2. h[done] = WriteTurn(g, count, readable, done)
            <4>1. CASE done = m
                BY <4>1, Zenon
            <4>2. CASE done # m
                <5>1. done \in count - n .. count
                    BY <2>1, <4>2
                <5>2. g[done] = WriteTurn(g, count, readable, done)
                    BY <2>2, <5>1, Zenon
                <5> QED BY <4>2, <5>2, Zenon
            <4> QED BY <4>1, <4>2, Zenon
        <3>3. CASE done = count
            BY <3>2, <3>3, Zenon DEF WriteTurn
        <3>4. CASE done # count
            <4> DEFINE next == done + Least(count - done, Chunk)
            <4>1. next \in done + 1 .. count
                BY <3>1, <3>4, ChunkSize, Zenon
            <4> HIDE DEF next
            <4>2. h[next] = g[next]
                BY <2>1, <3>1, <4>1
            <4>3. WriteTurn(g, count, readable, done) = WriteTurn(h, count, readable, done)
                BY <4>2, Zenon DEF WriteTurn, next
            <4> QED BY <3>2, <4>3, Zenon
        <3> QED BY <3>3, <3>4, Zenon
    <2>4. h = [done \in m .. count |-> WriteTurn(h, count, readable, done)]
        BY <2>3, Zenon
    <2> HIDE DEF h
    <2> QED BY <2>4, Zenon
<1> HIDE DEF S
<1>3. count \in S
    BY <1>1, <1>2, NatSet, Zenon
<1>4. PICK g : g = [done \in count - count .. count |-> WriteTurn(g, count, readable, done)]
    BY <1>3 DEF S
<1>5. count - count = 0
    OBVIOUS
<1> QED
    BY <1>4, <1>5, Zenon DEF IsWrite

\* What the loop returns, from any point that the readable part reaches.
LEMMA WriteResult ==
    ASSUME NEW count \in Nat \ {0}, NEW readable \in 0 .. count, NEW g,
           IsWrite(g, count, readable)
    PROVE  /\ g[0].sent = IF g[0].ret < 0 THEN 0 ELSE g[0].ret
           /\ g[0].sent <= readable
           /\ g[0].ret # 0
           /\ ConsoleUp /\ readable = count => g[0].ret = count
<1> DEFINE Right(r) == /\ r.sent = IF r.ret < 0 THEN 0 ELSE r.ret
                       /\ r.sent <= readable
                       /\ r.ret # 0
                       /\ ConsoleUp /\ readable = count => r.ret = count
           S == {n \in Nat : \A done \in 0 .. count :
                                count - done <= n /\ done <= readable => Right(g[done])}
<1>1. ASSUME NEW done \in 0 .. count, done <= readable,
             done # count => \A next \in done + 1 .. count : next <= readable => Right(g[next])
      PROVE  Right(g[done])
    <2> DEFINE next == done + Least(count - done, Chunk)
    <2>1. g[done] = WriteTurn(g, count, readable, done)
        BY Zenon DEF IsWrite
    <2>2. CASE done = count
        <3>1. g[done] = [ret |-> done, sent |-> done]
            BY <2>1, <2>2, Zenon DEF WriteTurn
        <3> QED BY <1>1, <2>2, <3>1
    <2>3. CASE done # count
        <3>1. next \in done + 1 .. count
            BY <2>3, ChunkSize, Zenon
        <3> HIDE DEF next
        <3>2. CASE next > readable
            <4>1. g[done] = [ret |-> IF done > 0 THEN done ELSE VE_FAULT, sent |-> done]
                BY <2>1, <2>3, <3>2, Zenon DEF WriteTurn, next
            <4> QED BY <1>1, <3>1, <3>2, <4>1 DEF VE_FAULT
        <3>3. CASE ~(next > readable) /\ ~ConsoleUp
            <4>1. g[done] = [ret |-> IF done > 0 THEN done ELSE VE_BADF, sent |-> done]
                BY <2>1, <2>3, <3>3, Zenon DEF WriteTurn, next
            <4> QED BY <1>1, <3>3, <4>1 DEF VE_BADF
        <3>4. CASE ~(next > readable) /\ ConsoleUp
            <4>1. g[done] = g[next]
                BY <2>1, <2>3, <3>4, Zenon DEF WriteTurn, next
            <4>2. next <= readable
                BY <3>1, <3>4
            <4>3. Right(g[next])
                BY <1>1, <2>3, <3>1, <4>2, Zenon
            <4> QED BY <4>1, <4>3, Zenon
        <3> QED BY <3>2, <3>3, <3>4, Zenon
    <2> QED BY <2>2, <2>3
<1> HIDE DEF Right
<1>2. 0 \in S
    BY <1>1
<1>3. ASSUME NEW n \in Nat, n \in S
      PROVE  n + 1 \in S
    BY <1>1, <1>3
<1> HIDE DEF S
<1>4. count \in S
    BY <1>2, <1>3, NatSet, Zenon
<1>5. Right(g[0])
    BY <1>4 DEF S
<1> QED
    BY <1>5, Zenon DEF Right

\* With a console, the driver takes every chunk.
LEMMA WriteKeepsCount ==
    ASSUME DevInv, NEW count \in Counts, NEW readable \in 0 .. count, sys_write(count, readable)
    PROVE  WriteReportsWhatWasSent'
<1> DEFINE w == WriteLoop(count, readable)
<1>1. count \in Nat \ {0}
    BY TtyAssumption, Zenon
<1>2. console # NoInst => ConsoleUp
    BY GoodHandles, Zenon DEF HandlesReachTheirDriver, DevInv, ConsoleUp
<1>3. /\ w.sent = IF w.ret < 0 THEN 0 ELSE w.ret
      /\ w.sent <= readable
      /\ w.ret # 0
      /\ console # NoInst /\ readable = count => w.ret = count
    <2>1. CASE console = NoInst
        <3>1. w = [ret |-> VE_IO, sent |-> 0]
            BY <2>1, Zenon DEF WriteLoop
        <3> QED BY <2>1, <3>1 DEF VE_IO
    <2>2. CASE console # NoInst
        <3> DEFINE g == CHOOSE h : IsWrite(h, count, readable)
        <3>1. w = g[0]
            BY <2>2, Zenon DEF WriteLoop, IsWrite, WriteTurn
        <3>2. IsWrite(g, count, readable)
            BY <1>1, WriteEnds, Zenon
        <3> HIDE DEF g, w
        <3> QED BY <1>1, <1>2, <2>2, <3>1, <3>2, WriteResult
    <2> QED BY <2>1, <2>2, Zenon
<1>4. /\ result' = [call |-> "write", count |-> count, readable |-> readable,
                    ret |-> w.ret, sent |-> w.sent]
      /\ console' = console
    BY Zenon DEF sys_write, devVars
<1> HIDE DEF w
<1> QED
    BY <1>3, <1>4, Zenon DEF WriteReportsWhatWasSent

\* sys_write returns what went out: an error only when nothing did, all of it
\* when the buffer is readable and the console open, for every chunk size.
THEOREM WriteReports == Spec => []WriteReportsWhatWasSent
<1>1. Init => WriteReportsWhatWasSent
    BY DEF Init, Idle, WriteReportsWhatWasSent
<1>2. ASSUME DevInv, WriteReportsWhatWasSent, [Next]_vars
      PROVE  WriteReportsWhatWasSent'
    <2>1. CASE \E n \in Counts : \E fault \in BOOLEAN : sys_read(n, fault)
        <3>1. result'.call = "read"
            BY <2>1 DEF sys_read
        <3> QED BY <3>1, Zenon DEF WriteReportsWhatWasSent
    <2>2. CASE \E n \in Counts : \E readable \in 0 .. n : sys_write(n, readable)
        BY <1>2, <2>2, WriteKeepsCount, Zenon
    <2>3. CASE \/ \E on \in BOOLEAN : tty_ioctl(on)
               \/ \E c \in Kinds : Type(c)
               \/ Drive
        <3>1. result' = Idle
            BY <2>3, Zenon DEF tty_ioctl, Type, Drive
        <3> QED BY <3>1 DEF Idle, WriteReportsWhatWasSent
    <2>4. CASE UNCHANGED vars
        BY <1>2, <2>4, Zenon DEF vars, devVars, ttyVars, WriteReportsWhatWasSent
    <2> QED BY <1>2, <2>1, <2>2, <2>3, <2>4, Zenon DEF Next
<1> QED
    BY <1>1, <1>2, RegistryInvariant, PTL DEF Spec

-----------------------------------------------------------------------------

\* A table of n entries, read as a sequence.
LEMMA TableIsSeq ==
    ASSUME NEW A, NEW n \in Nat, NEW f \in [1 .. n -> A]
    PROVE  f \in Seq(A) /\ Len(f) = n
OBVIOUS

\* Its first m entries and the ones after them.
LEMMA TableCut ==
    ASSUME NEW A, NEW n \in Nat, NEW f \in [1 .. n -> A], NEW m \in 0 .. n
    PROVE  /\ SubSeq(f, 1, m) = [i \in 1 .. m |-> f[i]]
           /\ SubSeq(f, m + 1, n) = [i \in 1 .. n - m |-> f[i + m]]
<1>1. f \in Seq(A) /\ Len(f) = n
    OBVIOUS
<1>2. SubSeq(f, 1, m) = [i \in 1 .. m |-> f[i]]
    BY <1>1
<1>3. SubSeq(f, m + 1, n) = [i \in 1 .. n - m |-> f[i + m]]
    BY <1>1
<1> QED
    BY <1>2, <1>3, Zenon

\* One more entry.
LEMMA TableAppend ==
    ASSUME NEW A, NEW n \in Nat, NEW f \in [1 .. n -> A], NEW x \in A
    PROVE  Append(f, x) = [i \in 1 .. n + 1 |-> IF i = n + 1 THEN x ELSE f[i]]
<1> DEFINE a == Append(f, x)
<1>1. f \in Seq(A) /\ Len(f) = n
    OBVIOUS
<1>2. a \in Seq(A) /\ Len(a) = n + 1 /\ a[n + 1] = x
    BY <1>1
<1>3. \A i \in 1 .. n : a[i] = f[i]
    BY <1>1
<1> HIDE DEF a
<1>4. a \in [1 .. n + 1 -> A]
    BY <1>2
<1>5. a = [i \in 1 .. n + 1 |-> IF i = n + 1 THEN x ELSE f[i]]
    BY <1>2, <1>3, <1>4
<1> QED
    BY <1>5 DEF a

-----------------------------------------------------------------------------
\* What the line may hold.
Bytes == Kinds \cup {Nul}

\* A line discipline state as tty_feed and tty_read keep it.
LineStates == [line : [0 .. LineMax - 1 -> Bytes], len : 0 .. LineMax - 1]

\* The bytes it has staged.
Staged(l) == [i \in 1 .. l.len |-> l.line[i - 1]]

\* They are a sequence of bytes, as many as the length says.
LEMMA StagedIsSeq ==
    ASSUME NEW l \in LineStates
    PROVE  /\ Staged(l) \in [1 .. l.len -> Bytes] /\ l.len \in Nat
           /\ Staged(l) \in Seq(Bytes) /\ Len(Staged(l)) = l.len
<1>1. l.len \in 0 .. LineMax - 1 /\ l.line \in [0 .. LineMax - 1 -> Bytes] /\ LineMax \in Nat
    BY TtyAssumption DEF LineStates
<1>2. Staged(l) \in [1 .. l.len -> Bytes]
    BY <1>1 DEF Staged
<1> QED
    BY <1>1, <1>2, TableIsSeq

\* tty_feed is the editing of Terminal, on the array.
LEMMA FeedEdits ==
    ASSUME NEW l \in LineStates, NEW c \in Kinds
    PROVE  tty_feed(l, c) \in LineStates /\ Staged(tty_feed(l, c)) = Line!Edit(Staged(l), c)
<1>1. l.len \in 0 .. LineMax - 1 /\ l.line \in [0 .. LineMax - 1 -> Bytes] /\ LineMax \in Nat
      /\ LineMax > 1
    BY TtyAssumption DEF LineStates
<1>2. /\ Staged(l) \in [1 .. l.len -> Bytes] /\ l.len \in Nat
      /\ Staged(l) \in Seq(Bytes) /\ Len(Staged(l)) = l.len
    BY StagedIsSeq
<1>3. CASE c = "erase" /\ l.len > 0
    <2>1. tty_feed(l, c) = [l EXCEPT !.len = @ - 1]
        BY <1>3 DEF tty_feed
    <2>2. tty_feed(l, c) \in LineStates /\ tty_feed(l, c).len = l.len - 1
          /\ tty_feed(l, c).line = l.line
        BY <1>1, <1>3, <2>1, SMTT(30), Z3T(30) DEF LineStates
    <2>3. Staged(tty_feed(l, c)) = [i \in 1 .. l.len - 1 |-> Staged(l)[i]]
        BY <1>1, <2>2 DEF Staged
    <2>4. Line!Edit(Staged(l), c) = SubSeq(Staged(l), 1, l.len - 1)
        BY <1>2, <1>3 DEF Line!Edit
    <2>5. l.len - 1 \in 0 .. l.len
        BY <1>1, <1>3, SMTT(30), Z3T(30)
    <2>6. SubSeq(Staged(l), 1, l.len - 1) = [i \in 1 .. l.len - 1 |-> Staged(l)[i]]
        BY <1>2, <2>5, TableCut
    <2> QED BY <2>2, <2>3, <2>4, <2>6, Zenon
<1>4. CASE c = "erase" /\ ~(l.len > 0)
    <2>1. tty_feed(l, c) = l
        BY <1>4, Zenon DEF tty_feed
    <2>2. Staged(l) = << >>
        BY <1>1, <1>2, <1>4
    <2> QED BY <1>4, <2>1, <2>2, Zenon DEF Line!Edit
<1>5. CASE c = "eof"
    <2>1. tty_feed(l, c) = [l EXCEPT !.len = 0]
        BY <1>5, Zenon DEF tty_feed
    <2>2. tty_feed(l, c) \in LineStates /\ tty_feed(l, c).len = 0
        BY <1>1, <2>1 DEF LineStates
    <2>3. Staged(tty_feed(l, c)) = << >>
        BY <2>2, StagedIsSeq
    <2> QED BY <1>5, <2>2, <2>3, Zenon DEF Line!Edit
<1>6. CASE c \notin {"erase", "eof"} /\ l.len < LineMax - 1
    <2>1. tty_feed(l, c) = [line |-> [l.line EXCEPT ![l.len] = c], len |-> l.len + 1]
        BY <1>6 DEF tty_feed
    <2>2. c \in Bytes
        BY Zenon DEF Bytes
    <2>3. tty_feed(l, c) \in LineStates
        BY <1>1, <1>6, <2>1, <2>2, SMTT(30), Z3T(30) DEF LineStates
    <2>4. Staged(tty_feed(l, c)) = [i \in 1 .. l.len + 1 |->
                                      IF i = l.len + 1 THEN c ELSE Staged(l)[i]]
        BY <1>1, <1>6, <2>1, SMTT(30), Z3T(30) DEF Staged
    <2>5. Line!Edit(Staged(l), c) = Append(Staged(l), c)
        BY <1>1, <1>2, <1>6 DEF Line!Edit
    <2> QED BY <1>2, <2>2, <2>3, <2>4, <2>5, TableAppend
<1>7. CASE c \notin {"erase", "eof"} /\ ~(l.len < LineMax - 1)
    <2>1. tty_feed(l, c) = l
        BY <1>7, Zenon DEF tty_feed
    <2>2. Len(Staged(l)) = LineMax - 1
        BY <1>1, <1>2, <1>7
    <2> QED BY <1>7, <2>1, <2>2, Zenon DEF Line!Edit
<1> QED
    BY <1>3, <1>4, <1>5, <1>6, <1>7, Zenon

\* The turns of tty_read's loop on the bytes b, from the line l.
IsPump(g, l, b) ==
    g = [k \in 0 .. Spins |->
            IF k = 0 THEN l
            ELSE IF k <= Len(b) THEN tty_feed(g[k - 1], b[k])
            ELSE g[k - 1]]

\* The edits of Terminal, one byte after the other.
IsEdit(g, s, t) ==
    g = [k \in 0 .. Len(t) |-> IF k = 0 THEN s ELSE Line!Edit(g[k - 1], t[k])]

\* The loop can be run.
LEMMA PumpRuns ==
    ASSUME NEW l, NEW b
    PROVE  \E g : IsPump(g, l, b)
<1> DEFINE Turn(g, k) == IF k = 0 THEN l
                         ELSE IF k <= Len(b) THEN tty_feed(g[k - 1], b[k])
                         ELSE g[k - 1]
           Runs(n) == \E g : g = [k \in 0 .. n |-> Turn(g, k)]
           S == {n \in Nat : Runs(n)}
<1>1. 0 \in S
    <2> DEFINE g == [k \in 0 .. 0 |-> l]
    <2>1. \A k \in 0 .. 0 : k = 0
        OBVIOUS
    <2>2. g = [k \in 0 .. 0 |-> Turn(g, k)]
        BY <2>1, Zenon
    <2> QED BY <2>2, Zenon
<1>2. ASSUME NEW n \in Nat, n \in S
      PROVE  n + 1 \in S
    <2>1. PICK g : g = [k \in 0 .. n |-> Turn(g, k)]
        BY <1>2
    <2> DEFINE h == [k \in 0 .. n + 1 |-> IF k = n + 1 THEN Turn(g, k) ELSE g[k]]
    <2>2. ASSUME NEW k \in 0 .. n + 1
          PROVE  h[k] = Turn(h, k)
        <3>1. h[k] = Turn(g, k)
            <4>1. CASE k = n + 1
                BY <4>1, Zenon
            <4>2. CASE k # n + 1
                <5>1. k \in 0 .. n
                    BY <4>2
                <5> QED BY <2>1, <4>2, <5>1, Zenon
            <4> QED BY <4>1, <4>2, Zenon
        <3>2. k # 0 => h[k - 1] = g[k - 1]
            OBVIOUS
        <3> QED BY <3>1, <3>2, Zenon
    <2>3. h = [k \in 0 .. n + 1 |-> Turn(h, k)]
        BY <2>2, Zenon
    <2> HIDE DEF h
    <2>4. n + 1 \in Nat
        OBVIOUS
    <2> QED BY <2>3, <2>4, Zenon
<1> HIDE DEF S
<1>3. Spins \in Nat
    BY TtyAssumption, Zenon
<1>4. Spins \in S
    BY <1>1, <1>2, <1>3, NatSet, Zenon
<1> QED
    BY <1>4, Zenon DEF S, IsPump

\* And so can the edits.
LEMMA EditRuns ==
    ASSUME NEW s, NEW t, Len(t) \in Nat
    PROVE  \E g : IsEdit(g, s, t)
<1> DEFINE Turn(g, k) == IF k = 0 THEN s ELSE Line!Edit(g[k - 1], t[k])
           Runs(n) == \E g : g = [k \in 0 .. n |-> Turn(g, k)]
           S == {n \in Nat : Runs(n)}
<1>1. 0 \in S
    <2> DEFINE g == [k \in 0 .. 0 |-> s]
    <2>1. \A k \in 0 .. 0 : k = 0
        OBVIOUS
    <2>2. g = [k \in 0 .. 0 |-> Turn(g, k)]
        BY <2>1, Zenon
    <2> QED BY <2>2, Zenon
<1>2. ASSUME NEW n \in Nat, n \in S
      PROVE  n + 1 \in S
    <2>1. PICK g : g = [k \in 0 .. n |-> Turn(g, k)]
        BY <1>2
    <2> DEFINE h == [k \in 0 .. n + 1 |-> IF k = n + 1 THEN Turn(g, k) ELSE g[k]]
    <2>2. ASSUME NEW k \in 0 .. n + 1
          PROVE  h[k] = Turn(h, k)
        <3>1. h[k] = Turn(g, k)
            <4>1. CASE k = n + 1
                BY <4>1, Zenon
            <4>2. CASE k # n + 1
                <5>1. k \in 0 .. n
                    BY <4>2
                <5> QED BY <2>1, <4>2, <5>1, Zenon
            <4> QED BY <4>1, <4>2, Zenon
        <3>2. k # 0 => h[k - 1] = g[k - 1]
            OBVIOUS
        <3> QED BY <3>1, <3>2, Zenon
    <2>3. h = [k \in 0 .. n + 1 |-> Turn(h, k)]
        BY <2>2, Zenon
    <2> HIDE DEF h
    <2>4. n + 1 \in Nat
        OBVIOUS
    <2> QED BY <2>3, <2>4, Zenon
<1> HIDE DEF S
<1>3. Len(t) \in S
    BY <1>1, <1>2, NatSet, Zenon
<1> QED
    BY <1>3, Zenon DEF S, IsEdit

\* The loop on the array does what the edits do.
LEMMA PumpEdits ==
    ASSUME NEW l \in LineStates, NEW b, NEW t, NEW g, NEW e,
           IsPump(g, l, b), IsEdit(e, Staged(l), t),
           Len(b) \in Nat, Len(t) = (IF Spins < Len(b) THEN Spins ELSE Len(b)),
           \A k \in 1 .. Len(b) : b[k] \in Kinds,
           \A k \in 1 .. Len(t) : t[k] = b[k]
    PROVE  g[Spins] \in LineStates /\ Staged(g[Spins]) = e[Len(t)]
<1> DEFINE m == Len(t)
           Done(k) == IF k < m THEN k ELSE m
           S == {k \in Nat : k <= Spins =>
                                g[k] \in LineStates /\ Staged(g[k]) = e[Done(k)]}
<1>1. Spins \in Nat
    BY TtyAssumption, Zenon
<1>2. m = (IF Spins < Len(b) THEN Spins ELSE Len(b)) /\ m = Len(t)
    OBVIOUS
<1> HIDE DEF m
<1>3. 0 \in S
    <2>1. 0 \in 0 .. Spins /\ 0 \in 0 .. m /\ Done(0) = 0
        BY <1>1, <1>2
    <2>2. g[0] = l
        BY <2>1, Zenon DEF IsPump
    <2>3. e[0] = Staged(l)
        BY <1>2, <2>1, Zenon DEF IsEdit
    <2> QED BY <2>1, <2>2, <2>3, Zenon
<1>4. ASSUME NEW n \in Nat, n \in S
      PROVE  n + 1 \in S
    <2>1. SUFFICES ASSUME n + 1 <= Spins
                   PROVE  g[n + 1] \in LineStates /\ Staged(g[n + 1]) = e[Done(n + 1)]
        OBVIOUS
    <2>2. g[n] \in LineStates /\ Staged(g[n]) = e[Done(n)]
        BY <1>1, <1>4, <2>1
    <2>3. n + 1 \in 0 .. Spins /\ n + 1 # 0 /\ (n + 1) - 1 = n
        BY <1>1, <2>1
    <2>4. CASE n + 1 <= Len(b)
        <3>1. g[n + 1] = tty_feed(g[n], b[n + 1])
            BY <2>3, <2>4, Zenon DEF IsPump
        <3>2. n + 1 \in 0 .. m /\ n + 1 \in 1 .. m /\ Done(n) = n /\ Done(n + 1) = n + 1
            BY <1>1, <1>2, <2>1, <2>4
        <3>3. b[n + 1] \in Kinds /\ t[n + 1] = b[n + 1]
            <4>1. n + 1 \in 1 .. Len(b)
                BY <2>4
            <4> QED BY <1>2, <3>2, <4>1, Zenon
        <3>4. e[n + 1] = Line!Edit(e[n], t[n + 1])
            BY <1>2, <2>3, <3>2, Zenon DEF IsEdit
        <3>5. /\ tty_feed(g[n], b[n + 1]) \in LineStates
              /\ Staged(tty_feed(g[n], b[n + 1])) = Line!Edit(Staged(g[n]), b[n + 1])
            BY <2>2, <3>3, FeedEdits, Zenon
        <3> HIDE DEF Done
        <3> QED BY <2>2, <3>1, <3>2, <3>3, <3>4, <3>5, Zenon
    <2>5. CASE ~(n + 1 <= Len(b))
        <3>1. g[n + 1] = g[n]
            BY <2>3, <2>5, Zenon DEF IsPump
        <3>2. Done(n + 1) = Done(n)
            BY <1>1, <1>2, <2>1, <2>5
        <3> HIDE DEF Done
        <3> QED BY <2>2, <3>1, <3>2, Zenon
    <2> QED BY <2>4, <2>5, Zenon
<1>5. Done(Spins) = Len(t)
    BY <1>1, <1>2, Zenon
<1> HIDE DEF S
<1>6. Spins \in S
    BY <1>1, <1>3, <1>4, NatSet, Zenon
<1>7. Spins <= Spins
    BY <1>1
<1> HIDE DEF Done
<1> QED
    BY <1>5, <1>6, <1>7, Zenon DEF S

\* The line and the FIFO hold bytes.
LineInv ==
    /\ tty_line \in [0 .. LineMax - 1 -> Bytes] /\ tty_line_len \in 0 .. LineMax - 1
    /\ rx \in Seq(Kinds)

\* The line as it is, and what a read will take from the FIFO for it.
CurrentLine == [line |-> tty_line, len |-> tty_line_len]
Typed == SubSeq(rx, 1, Least(Spins, Len(rx)))

\* What tty_read has before it hands anything out.
LEMMA PumpedLine ==
    ASSUME LineInv
    PROVE  /\ Pumped \in LineStates
           /\ Staged(Pumped) = Line!Edited(Staged(CurrentLine), Typed)
<1>1. CurrentLine \in LineStates
    BY Zenon DEF LineInv, LineStates, CurrentLine
<1>2. /\ Len(rx) \in Nat /\ Len(Typed) = (IF Spins < Len(rx) THEN Spins ELSE Len(rx))
      /\ Len(Typed) \in Nat
      /\ \A k \in 1 .. Len(rx) : rx[k] \in Kinds
      /\ \A k \in 1 .. Len(Typed) : Typed[k] = rx[k]
    <2>1. Spins \in Nat /\ rx \in Seq(Kinds) /\ Len(rx) \in Nat
        BY TtyAssumption DEF LineInv
    <2> DEFINE m == Least(Spins, Len(rx))
    <2>2. m \in 0 .. Len(rx) /\ m = (IF Spins < Len(rx) THEN Spins ELSE Len(rx))
        BY <2>1 DEF Least
    <2> HIDE DEF m
    <2>3. Len(SubSeq(rx, 1, m)) = m /\ \A k \in 1 .. m : SubSeq(rx, 1, m)[k] = rx[k]
        BY <2>1, <2>2
    <2>4. Len(Typed) = m /\ \A k \in 1 .. m : Typed[k] = rx[k]
        BY <2>3, Zenon DEF Typed, m
    <2> QED BY <2>1, <2>2, <2>4
<1> DEFINE g == CHOOSE h : IsPump(h, CurrentLine, rx)
           e == CHOOSE h : IsEdit(h, Staged(CurrentLine), Typed)
<1>3. IsPump(g, CurrentLine, rx)
    BY PumpRuns, Zenon
<1>4. IsEdit(e, Staged(CurrentLine), Typed)
    BY <1>2, EditRuns, Zenon
<1>5. Pumped = g[Spins]
    BY Zenon DEF Pumped, IsPump, CurrentLine
<1>6. Line!Edited(Staged(CurrentLine), Typed) = e[Len(Typed)]
    BY Zenon DEF Line!Edited, IsEdit
<1> HIDE DEF g, e
<1>7. g[Spins] \in LineStates /\ Staged(g[Spins]) = e[Len(Typed)]
    BY <1>1, <1>2, <1>3, <1>4, PumpEdits
<1> QED
    BY <1>5, <1>6, <1>7, Zenon

\* sys_read is the Read of Terminal, and leaves bytes.
LEMMA ReadStep ==
    ASSUME LineInv, NEW count \in Counts, NEW fault \in BOOLEAN, sys_read(count, fault)
    PROVE  /\ LineInv'
           /\ \E n \in 1 .. Chunk : Line!Read(n)
<1> DEFINE l == Pumped
           n == Least(count, Chunk)
           got == Least(n, l.len)
           s == Staged(l)
           rest == Consume(l, got)
<1>1. /\ count \in Nat \ {0} /\ Chunk \in Nat \ {0} /\ Spins \in Nat
      /\ LineMax \in Nat /\ LineMax > 1
    BY TtyAssumption
<1>2. l \in LineStates /\ s = Line!Edited(Staged(CurrentLine), Typed)
    BY PumpedLine, Zenon
<1>3. l.len \in 0 .. LineMax - 1 /\ l.line \in [0 .. LineMax - 1 -> Bytes]
    BY <1>2, Zenon DEF LineStates
<1>4. s \in [1 .. l.len -> Bytes] /\ s \in Seq(Bytes) /\ Len(s) = l.len /\ l.len \in Nat
    BY <1>2, StagedIsSeq, Zenon
<1>5. n \in 1 .. Chunk /\ got \in 0 .. l.len /\ got = IF n < Len(s) THEN n ELSE Len(s)
    BY <1>1, <1>3, <1>4 DEF Least
<1>6. /\ tty_line' = rest.line /\ tty_line_len' = rest.len
      /\ rx' = SubSeq(rx, Spins + 1, Len(rx))
      /\ result'.call = "read" /\ result'.bytes = [i \in 1 .. got |-> l.line[i - 1]]
    BY Zenon DEF sys_read
<1> HIDE DEF l, n, got
<1>7. /\ rest.line = [i \in 0 .. LineMax - 1 |->
                        IF i + got < l.len THEN l.line[i + got] ELSE l.line[i]]
      /\ rest.len = l.len - got
    BY Zenon DEF Consume
<1> HIDE DEF rest
<1>8. rest.line \in [0 .. LineMax - 1 -> Bytes] /\ rest.len \in 0 .. LineMax - 1
    <2>1. \A i \in 0 .. LineMax - 1 : i + got < l.len => i + got \in 0 .. LineMax - 1
        BY <1>1, <1>3, <1>5
    <2>2. rest.len \in 0 .. LineMax - 1
        BY <1>1, <1>3, <1>5, <1>7
    <2>3. rest.line \in [0 .. LineMax - 1 -> Bytes]
        BY <1>3, <1>7, <2>1, ZenonT(30)
    <2> QED BY <2>2, <2>3, Zenon
<1>9. LineInv'
    <2>1. SubSeq(rx, Spins + 1, Len(rx)) \in Seq(Kinds)
        BY <1>1 DEF LineInv
    <2> QED BY <1>6, <1>8, <2>1 DEF LineInv
<1>10. SubSeq(s, 1, got) = [i \in 1 .. got |-> l.line[i - 1]]
    <2>1. SubSeq(s, 1, got) = [i \in 1 .. got |-> s[i]]
        BY <1>4, <1>5, TableCut
    <2>2. \A i \in 1 .. got : s[i] = l.line[i - 1]
        BY <1>4, <1>5 DEF Staged
    <2> QED BY <2>1, <2>2
<1>11. SubSeq(s, got + 1, Len(s)) = [i \in 1 .. tty_line_len' |-> tty_line'[i - 1]]
    <2>1. SubSeq(s, got + 1, l.len) = [i \in 1 .. l.len - got |-> s[i + got]]
        BY <1>4, <1>5, TableCut, SMTT(30), Z3T(30)
    <2>2. ASSUME NEW i \in 1 .. l.len - got
          PROVE  s[i + got] = rest.line[i - 1]
        <3>1. i + got \in 1 .. l.len /\ i - 1 \in 0 .. LineMax - 1
            BY <1>1, <1>3, <1>5
        <3>2. s[i + got] = l.line[(i + got) - 1]
            BY <3>1, Zenon DEF Staged
        <3>3. (i - 1) + got < l.len /\ (i - 1) + got = (i + got) - 1
            BY <1>3, <1>5
        <3>4. rest.line[i - 1] = l.line[(i - 1) + got]
            BY <1>7, <3>1, <3>3, Zenon
        <3> QED BY <3>2, <3>3, <3>4, Zenon
    <2>3. SubSeq(s, got + 1, l.len) = [i \in 1 .. l.len - got |-> rest.line[i - 1]]
        BY <2>1, <2>2, Zenon
    <2> QED BY <1>4, <1>6, <1>7, <2>3, Zenon
<1>12. Line!Read(n)
    <2>1. s = Line!Edited([i \in 1 .. tty_line_len |-> tty_line[i - 1]],
                          SubSeq(rx, 1, Least(Spins, Len(rx))))
        BY <1>2, Zenon DEF Staged, CurrentLine, Typed
    <2> HIDE DEF s
    <2> QED BY <1>5, <1>6, <1>10, <1>11, <2>1, Zenon DEF Line!Read
<1> QED
    BY <1>5, <1>9, <1>12, Zenon

\* The variables of Terminal, as Tty has them.
StagedNow == [i \in 1 .. tty_line_len |-> tty_line[i - 1]]
HandedNow == IF result.call = "read" THEN result.bytes ELSE <<>>

\* A step of the console is a read of Terminal, or leaves the line alone.
LEMMA LineStep ==
    ASSUME LineInv, [Next]_vars
    PROVE  LineInv' /\ [Line!Next]_<<StagedNow, HandedNow>>
<1>1. CASE \E n \in Counts : \E fault \in BOOLEAN : sys_read(n, fault)
    BY <1>1, ReadStep, Zenon DEF Line!Next
<1>2. ASSUME tty_line' = tty_line, tty_line_len' = tty_line_len, rx' \in Seq(Kinds),
             result'.call # "read"
      PROVE  LineInv' /\ Line!Next
    <2>1. LineInv'
        BY <1>2 DEF LineInv
    <2>2. Line!Other
        BY <1>2, Zenon DEF Line!Other
    <2> QED BY <2>1, <2>2, Zenon DEF Line!Next
<1>3. CASE \E n \in Counts : \E readable \in 0 .. n : sys_write(n, readable)
    <2>1. /\ tty_line' = tty_line /\ tty_line_len' = tty_line_len /\ rx' = rx
          /\ result'.call = "write"
        BY <1>3 DEF sys_write
    <2> QED BY <1>2, <2>1, Zenon DEF LineInv
<1>4. CASE (\E on \in BOOLEAN : tty_ioctl(on)) \/ Drive
    <2>1. /\ tty_line' = tty_line /\ tty_line_len' = tty_line_len /\ rx' = rx
          /\ result' = Idle
        BY <1>4, Zenon DEF tty_ioctl, Drive
    <2> QED BY <1>2, <2>1, Zenon DEF LineInv, Idle
<1>5. ASSUME NEW c \in Kinds, Type(c)
      PROVE  LineInv' /\ Line!Next
    <2>1. /\ tty_line' = tty_line /\ tty_line_len' = tty_line_len /\ rx' = Append(rx, c)
          /\ result' = Idle
        BY <1>5, Zenon DEF Type
    <2>2. rx' \in Seq(Kinds)
        BY <2>1 DEF LineInv
    <2> QED BY <1>2, <2>1, <2>2, Zenon DEF Idle
<1>6. CASE UNCHANGED vars
    BY <1>6, Zenon DEF vars, ttyVars, LineInv, StagedNow, HandedNow
<1> QED
    BY <1>1, <1>3, <1>4, <1>5, <1>6, Zenon DEF Next

\* tty.c's array, length and shift implement the edited line: every staged byte
\* is handed out once, in order, and no erased or stale one, for every line
\* length, FIFO depth and size of read.
THEOREM TerminalImplemented == Spec => ImplementsTerminal
<1>1. Init => LineInv /\ Line!Init
    <2>1. SUFFICES ASSUME Init
                   PROVE  LineInv /\ Line!Init
        BY Zenon
    <2>2. LineMax \in Nat /\ LineMax > 1
        BY TtyAssumption
    <2>3. LineInv
        BY <2>1, <2>2 DEF Init, LineInv, LineInit, Bytes
    <2>4. tty_line_len = 0 /\ result.call # "read"
        BY <2>1, Zenon DEF Init, Idle
    <2>5. [i \in 1 .. 0 |-> tty_line[i - 1]] = << >>
        OBVIOUS
    <2>6. Line!Init
        BY <2>4, <2>5, Zenon DEF Line!Init
    <2> QED BY <2>3, <2>6, Zenon
<1>2. LineInv /\ [Next]_vars => LineInv' /\ [Line!Next]_<<StagedNow, HandedNow>>
    BY LineStep
<1> QED
    BY <1>1, <1>2, PTL DEF Spec, ImplementsTerminal, Line!Spec, StagedNow, HandedNow
=============================================================================
