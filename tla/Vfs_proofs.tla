------------------------------ MODULE Vfs_proofs ------------------------------
(***************************************************************************)
(* An open file has as many references as descriptors, and the objects and *)
(* counts implement shared open file descriptions, for every number of     *)
(* processes, descriptors and files.                                       *)
(***************************************************************************)
EXTENDS Vfs, FiniteSetTheorems, TLAPS

\* PathOf, written out: the tree is two levels deep.
LEMMA PathOfDirectories ==
    /\ PathOf[Root] = << >>
    /\ PathOf["etc"] = <<"etc">>
<1> DEFINE body(g, n) == IF n = Root THEN << >> ELSE Append(g[Parent[n]], Name[n])
           g == [n \in Nodes |->
                    IF n = Root THEN << >>
                    ELSE IF n = "version" THEN <<"etc", "version.txt">>
                    ELSE <<Name[n]>>]
<1>1. Nodes = {"root", "hello", "test", "etc", "version"}
    BY DEF Nodes, Root, Parent
<1>2. ASSUME NEW n \in Nodes
      PROVE  g[n] = body(g, n)
    <2>1. CASE n = "root"
        BY <2>1 DEF Root
    <2>2. CASE n \in {"hello", "test", "etc"}
        <3>1. Parent[n] = Root /\ n # Root /\ n # "version" /\ Root \in Nodes
            BY <1>1, <2>2 DEF Parent, Root
        <3>2. g[n] = <<Name[n]>> /\ g[Parent[n]] = << >>
            BY <3>1
        <3> QED BY <3>1, <3>2
    <2>3. CASE n = "version"
        <3>1. /\ Parent[n] = "etc" /\ Name[n] = "version.txt" /\ Name["etc"] = "etc" /\ n # Root
              /\ "etc" \in Nodes /\ "etc" # Root /\ "etc" # "version"
            BY <1>1, <2>3 DEF Parent, Name, Root
        <3>2. g[n] = <<"etc", "version.txt">> /\ g[Parent[n]] = <<"etc">>
            BY <2>3, <3>1
        <3> QED BY <3>1, <3>2
    <2> QED BY <1>1, <2>1, <2>2, <2>3
<1>3. g = [n \in Nodes |-> body(g, n)]
    BY <1>2
<1>4. PathOf = [n \in Nodes |-> body(PathOf, n)]
    BY <1>3, Zenon DEF PathOf
<1>5. PathOf[Root] = << >>
    BY <1>1, <1>4 DEF Root
<1>6. PathOf["etc"] = Append(PathOf[Root], "etc")
    BY <1>1, <1>4 DEF Root, Parent, Name
<1> QED
    BY <1>5, <1>6

\* What the inductive invariant adds: a pid not yet given out has no files.
UnbornHoldNothing ==
    \A p \in Pids : life[p] = "unborn" => \A fd \in Fds : fds[p][fd] = NoFile

\* The inductive invariant.
VfsInv == VfsTypeOK /\ RefsAreCounted /\ UnbornHoldNothing

\* The sets that are counted are finite.
LEMMA Finite ==
    ASSUME NEW f
    PROVE  /\ IsFiniteSet(Descriptors(f)) /\ Cardinality(Descriptors(f)) \in Nat
           /\ \A p \in Pids : IsFiniteSet(Holding(p, f)) /\ Cardinality(Holding(p, f)) \in Nat
<1>1. IsFiniteSet(Pids) /\ IsFiniteSet(Fds)
    BY VfsAssumption, FS_Interval DEF Pids
<1>2. IsFiniteSet(Pids \X Fds)
    BY <1>1, FS_Product, Zenon
<1>3. IsFiniteSet(Descriptors(f)) 
    BY <1>2, FS_Subset, Zenon DEF Descriptors
<1>4. \A p \in Pids : IsFiniteSet(Holding(p, f))
    BY <1>1, FS_Subset, Zenon DEF Holding
<1> QED
    BY <1>3, <1>4, FS_CardinalityType, Zenon

\* When only p's table changes, the count of the descriptors on f changes by
\* what p held and holds.
LEMMA OneTableChanges ==
    ASSUME NEW p \in Pids, NEW f,
           \A q \in Pids \ {p} : fds'[q] = fds[q]
    PROVE  /\ Cardinality(Descriptors(f)')
                = Cardinality(Descriptors(f)) - Cardinality(Holding(p, f))
                    + Cardinality(Holding(p, f)')
           /\ Cardinality(Holding(p, f)) <= Cardinality(Descriptors(f))
           /\ Cardinality(Descriptors(f)) \in Nat /\ Cardinality(Holding(p, f)) \in Nat
           /\ Cardinality(Descriptors(f)') \in Nat /\ Cardinality(Holding(p, f)') \in Nat
<1> DEFINE Others == {d \in Pids \X Fds : d[1] # p /\ fds[d[1]][d[2]] = f}
           H == {fd \in Fds : fds[p][fd] = f}
           K == {fd \in Fds : fds'[p][fd] = f}
<1>1. IsFiniteSet(Fds) /\ IsFiniteSet(Pids \X Fds)
    <2>1. IsFiniteSet(Pids) /\ IsFiniteSet(Fds)
        BY VfsAssumption, FS_Interval DEF Pids
    <2> QED BY <2>1, FS_Product, Zenon
<1>2. IsFiniteSet(Others) /\ IsFiniteSet(H) /\ IsFiniteSet(K)
    BY <1>1, FS_Subset, Zenon
<1>3. ASSUME NEW T \in SUBSET Fds, IsFiniteSet(T)
      PROVE  /\ Cardinality(Others \cup ({p} \X T)) = Cardinality(Others) + Cardinality(T)
             /\ Cardinality(T) \in Nat
    <2>1. IsFiniteSet({p}) /\ Cardinality({p}) = 1
        BY FS_Singleton, Zenon
    <2>2. IsFiniteSet({p} \X T) /\ Cardinality({p} \X T) = 1 * Cardinality(T)
        BY <1>3, <2>1, FS_Product, Zenon
    <2>3. Others \cap ({p} \X T) = {}
        OBVIOUS
    <2>4. Cardinality(Others \cup ({p} \X T))
             = Cardinality(Others) + Cardinality({p} \X T) - Cardinality({})
        <3> DEFINE P == {p} \X T
        <3> HIDE DEF Others, P
        <3>1. Cardinality(Others \cup P)
                 = Cardinality(Others) + Cardinality(P) - Cardinality(Others \cap P)
            BY <1>2, <2>2, FS_Union, Zenon DEF P
        <3> QED BY <2>3, <3>1, Zenon DEF P
    <2>5. Cardinality(Others) \in Nat /\ Cardinality(T) \in Nat /\ Cardinality({}) = 0
        BY <1>2, <1>3, FS_CardinalityType, FS_EmptySet, Zenon
    <2> QED BY <2>2, <2>4, <2>5
<1>4. Descriptors(f) = Others \cup ({p} \X H)
    BY DEF Descriptors
<1>5. Descriptors(f)' = Others \cup ({p} \X K)
    BY DEF Descriptors
<1>6. Cardinality(Others) \in Nat
    BY <1>2, FS_CardinalityType, Zenon
<1>7. /\ Cardinality(Others \cup ({p} \X H)) = Cardinality(Others) + Cardinality(H)
      /\ Cardinality(H) \in Nat
    BY <1>2, <1>3, Zenon
<1>8. /\ Cardinality(Others \cup ({p} \X K)) = Cardinality(Others) + Cardinality(K)
      /\ Cardinality(K) \in Nat
    BY <1>2, <1>3, Zenon
<1>9. H = Holding(p, f) /\ K = Holding(p, f)'
    BY Zenon DEF Holding
<1> HIDE DEF Others, H, K
<1> QED
    BY <1>4, <1>5, <1>6, <1>7, <1>8, <1>9
\* No descriptor is open at boot.
LEMMA VfsInitInv ==
    ASSUME VfsInit
    PROVE  VfsInv
<1>1. \A f \in Files : Descriptors(f) = {}
    BY VfsAssumption DEF VfsInit, Descriptors
<1>2. \A f \in Files : file[f].refcount = 0
    BY DEF VfsInit, Freed
<1>3. RefsAreCounted
    BY <1>1, <1>2, FS_EmptySet, Zenon DEF RefsAreCounted
<1>4. cwd \in [Pids -> {PathOf[d] : d \in Directories}]
    BY PathOfDirectories DEF VfsInit, Directories, Children, Root
<1>5. "free" \notin Directories
    BY DEF Directories, Children
<1>6. VfsTypeOK
    BY <1>4, <1>5 DEF VfsInit, VfsTypeOK, Freed
<1>7. UnbornHoldNothing
    BY DEF VfsInit, UnbornHoldNothing
<1> QED
    BY <1>3, <1>6, <1>7 DEF VfsInv

\* An object is in use as long as some descriptor is on it.
LEMMA OpenMeansHeld ==
    ASSUME VfsInv, NEW f \in Files
    PROVE  /\ file[f] # Freed <=> Descriptors(f) # {}
           /\ file[f] # Freed <=> file[f] \in OpenFile
           /\ file[f].refcount \in Nat
           /\ file[f] # Freed <=> file[f].refcount > 0
<1>1. file[f] \in OpenFile \cup {Freed}
    BY DEF VfsInv, VfsTypeOK
<1>2. file[f] \in OpenFile => file[f].refcount \in Nat \ {0}
    BY DEF OpenFile
<1>3. Freed.refcount = 0
    BY DEF Freed
<1>4. file[f].refcount = Cardinality(Descriptors(f))
    BY DEF VfsInv, RefsAreCounted
<1>5. IsFiniteSet(Descriptors(f))
    BY Finite
<1>6. Cardinality(Descriptors(f)) = 0 <=> Descriptors(f) = {}
    BY <1>5, FS_EmptySet, Zenon
<1> QED
    BY <1>1, <1>2, <1>3, <1>4, <1>6

\* So the object behind a descriptor is an open file.
LEMMA HeldIsOpen ==
    ASSUME VfsInv, NEW p \in Pids, NEW fd \in Fds, fds[p][fd] # NoFile
    PROVE  fds[p][fd] \in Files /\ file[fds[p][fd]] \in OpenFile
<1>1. fds[p][fd] \in Files
    BY DEF VfsInv, VfsTypeOK
<1>2. <<p, fd>> \in Descriptors(fds[p][fd])
    BY DEF Descriptors
<1> QED
    BY <1>1, <1>2, OpenMeansHeld, Zenon

\* Moving the position of an open file.
LEMMA MoveKeepsInv ==
    ASSUME VfsInv, NEW f \in Files, file[f] \in OpenFile, NEW pos \in 0 .. MaxOff,
           file[f].node \in Directories => pos <= Len(Children[file[f].node]),
           MoveTo(f, pos)
    PROVE  VfsInv'
<1>1. /\ file' \in [Files -> OpenFile \cup {Freed}]
      /\ \A g \in Files : /\ file'[g].refcount = file[g].refcount
                          /\ file'[g].node = file[g].node
                          /\ g # f => file'[g].pos = file[g].pos
      /\ file'[f].pos = pos
    BY DEF VfsInv, VfsTypeOK, MoveTo, OpenFile
<1>2. VfsTypeOK'
    BY <1>1 DEF VfsInv, VfsTypeOK, MoveTo
<1>3. \A g \in Files : Descriptors(g)' = Descriptors(g)
    BY DEF Descriptors, MoveTo
<1>4. RefsAreCounted'
    BY <1>1, <1>3, Zenon DEF VfsInv, RefsAreCounted
<1> QED
    BY <1>2, <1>4, Zenon DEF VfsInv, UnbornHoldNothing, MoveTo

\* p gives up the descriptors T, and each object behind them that many
\* references.
Releases(p, T) ==
    /\ fds' = [fds EXCEPT ![p] = [fd \in Fds |-> IF fd \in T THEN NoFile ELSE fds[p][fd]]]
    /\ file' = [f \in Files |->
                   IF Holding(p, f) \cap T = {} THEN file[f]
                   ELSE Dropped(f, Cardinality(Holding(p, f) \cap T))]

\* Giving up descriptors keeps the counts right.
LEMMA ReleaseCounts ==
    ASSUME VfsInv, NEW p \in Pids, NEW T \in SUBSET Fds, Releases(p, T)
    PROVE  /\ RefsAreCounted'
           /\ fds' \in [Pids -> [Fds -> Files \cup {NoFile}]]
           /\ file' \in [Files -> OpenFile \cup {Freed}]
           /\ \A f \in Files : \/ file'[f] = Freed
                               \/ file'[f].node = file[f].node /\ file'[f].pos = file[f].pos
<1>t. /\ fds \in [Pids -> [Fds -> Files \cup {NoFile}]]
      /\ file \in [Files -> OpenFile \cup {Freed}]
    BY Zenon DEF VfsInv, VfsTypeOK
<1>1. fds' \in [Pids -> [Fds -> Files \cup {NoFile}]]
    BY <1>t DEF Releases
<1>2. \A q \in Pids \ {p} : fds'[q] = fds[q]
    BY <1>t, Zenon DEF Releases
<1>3. ASSUME NEW f \in Files
      PROVE  /\ file'[f].refcount = Cardinality(Descriptors(f)')
             /\ file'[f] \in OpenFile \cup {Freed}
             /\ \/ file'[f] = Freed
                \/ file'[f].node = file[f].node /\ file'[f].pos = file[f].pos
    <2> DEFINE n == Cardinality(Holding(p, f) \cap T)
    <2>1. Holding(p, f)' = Holding(p, f) \ T
        BY <1>t, VfsAssumption DEF Holding, Releases
    <2>2. IsFiniteSet(Holding(p, f))
        BY Finite
    <2>3. Cardinality(Holding(p, f)') = Cardinality(Holding(p, f)) - n
        BY <2>1, <2>2, FS_Difference, Zenon
    <2>4. IsFiniteSet(Holding(p, f) \cap T) /\ n <= Cardinality(Holding(p, f))
        BY <2>2, FS_Intersection, Zenon
    <2>5. n \in Nat /\ (n = 0 <=> Holding(p, f) \cap T = {})
        BY <2>4, FS_CardinalityType, FS_EmptySet, Zenon
    <2>6. /\ Cardinality(Descriptors(f)')
                = Cardinality(Descriptors(f)) - Cardinality(Holding(p, f))
                    + Cardinality(Holding(p, f)')
          /\ Cardinality(Holding(p, f)) <= Cardinality(Descriptors(f))
          /\ Cardinality(Descriptors(f)) \in Nat /\ Cardinality(Holding(p, f)) \in Nat
        BY <1>2, OneTableChanges, Zenon
    <2>7. file[f].refcount = Cardinality(Descriptors(f))
        BY DEF VfsInv, RefsAreCounted
    <2> HIDE DEF n
    <2>8. file[f].refcount - n = Cardinality(Descriptors(f)')
        BY <2>3, <2>5, <2>6, <2>7
    <2>9. file'[f] = IF n = 0 THEN file[f] ELSE Dropped(f, n)
        BY <2>5, Zenon DEF Releases, n
    <2>10. n # 0 => file[f] \in OpenFile
        BY <1>t, <2>4, <2>5, <2>6, <2>7 DEF Freed
    <2>11. CASE n = 0
        BY <1>t, <2>5, <2>6, <2>7, <2>8, <2>9, <2>11
    <2>12. CASE n # 0 /\ file[f].refcount - n <= 0
        <3>1. file'[f] = Freed
            BY <2>9, <2>12, Zenon DEF Dropped
        <3> QED BY <2>3, <2>4, <2>5, <2>6, <2>7, <2>8, <2>12, <3>1 DEF Freed
    <2>13. CASE n # 0 /\ ~(file[f].refcount - n <= 0)
        <3>1. file'[f] = [file[f] EXCEPT !.refcount = @ - n]
            BY <2>9, <2>13, Zenon DEF Dropped
        <3>2. file[f].refcount \in Nat /\ file[f].refcount - n \in Nat \ {0}
            BY <2>5, <2>6, <2>7, <2>13
        <3> QED BY <2>8, <2>10, <2>13, <3>1, <3>2, Zenon DEF OpenFile
    <2> QED BY <2>11, <2>12, <2>13, Zenon
<1>4. file' \in [Files -> OpenFile \cup {Freed}]
    BY <1>3 DEF Releases
<1> QED
    BY <1>1, <1>3, <1>4, Zenon DEF RefsAreCounted
\* Giving up descriptors keeps the invariant, whatever becomes of the process.
LEMMA ReleaseKeepsInv ==
    ASSUME VfsInv, NEW p \in Pids, NEW T \in SUBSET Fds, Releases(p, T), UNCHANGED cwd,
           life' = life \/ life' = [life EXCEPT ![p] = "zombie"]
                        \/ life' = [life EXCEPT ![p] = "reaped"]
    PROVE  VfsInv'
<1>1. /\ RefsAreCounted'
      /\ fds' \in [Pids -> [Fds -> Files \cup {NoFile}]]
      /\ file' \in [Files -> OpenFile \cup {Freed}]
      /\ \A f \in Files : \/ file'[f] = Freed
                          \/ file'[f].node = file[f].node /\ file'[f].pos = file[f].pos
    BY ReleaseCounts
<1>2. "free" \notin Directories
    BY Zenon DEF Directories, Children
<1>3. \A f \in Files : file'[f].node \in Directories =>
          file'[f].pos <= Len(Children[file'[f].node])
    BY <1>1, <1>2, SMTT(30) DEF VfsInv, VfsTypeOK, Freed
<1>4. life' \in [Pids -> {"unborn", "living", "zombie", "reaped"}]
    BY Zenon DEF VfsInv, VfsTypeOK
<1>5. VfsTypeOK'
    BY <1>1, <1>3, <1>4, Zenon DEF VfsInv, VfsTypeOK
<1>6. UnbornHoldNothing'
    BY DEF VfsInv, VfsTypeOK, UnbornHoldNothing, Releases
<1> QED
    BY <1>1, <1>5, <1>6, Zenon DEF VfsInv

\* vfs_close_process_fds gives up every descriptor, sys_vfs_close one.
LEMMA CloseReleases ==
    ASSUME VfsInv, NEW p \in Pids
    PROVE  /\ vfs_close_process_fds(p) => Releases(p, Fds)
           /\ \A fd \in Fds : sys_vfs_close(p, fd) => Releases(p, {fd})
<1>t. /\ fds \in [Pids -> [Fds -> Files \cup {NoFile}]]
      /\ file \in [Files -> OpenFile \cup {Freed}]
    BY DEF VfsInv, VfsTypeOK
<1>1. ASSUME vfs_close_process_fds(p)
      PROVE  Releases(p, Fds)
    <2>1. \A f \in Files : Holding(p, f) \cap Fds = Holding(p, f)
        BY DEF Holding
    <2>2. file' = [f \in Files |->
                   IF Holding(p, f) \cap Fds = {} THEN file[f]
                   ELSE Dropped(f, Cardinality(Holding(p, f) \cap Fds))]
        BY <1>1, <2>1, Zenon DEF vfs_close_process_fds
    <2>3. [fd \in Fds |-> IF fd \in Fds THEN NoFile ELSE fds[p][fd]] = [fd \in Fds |-> NoFile]
        OBVIOUS
    <2> QED BY <1>1, <2>2, <2>3, Zenon DEF Releases, vfs_close_process_fds
<1>2. ASSUME NEW fd \in Fds, sys_vfs_close(p, fd)
      PROVE  Releases(p, {fd})
    <2> DEFINE h == fds[p][fd]
    <2>1. h \in Files
        BY <1>2, HeldIsOpen DEF sys_vfs_close
    <2>2. Cardinality({fd}) = 1
        BY FS_Singleton, Zenon
    <2>3. \A f \in Files : Holding(p, f) \cap {fd} = IF f = h THEN {fd} ELSE {}
        BY DEF Holding
    <2>4. file' = [f \in Files |-> IF f = h THEN Dropped(f, 1) ELSE file[f]]
        BY <1>t, <1>2, <2>1, Zenon DEF sys_vfs_close
    <2>5. ASSUME NEW f \in Files
          PROVE  (IF f = h THEN Dropped(f, 1) ELSE file[f])
                   = IF Holding(p, f) \cap {fd} = {} THEN file[f]
                     ELSE Dropped(f, Cardinality(Holding(p, f) \cap {fd}))
        <3>1. CASE f = h
            BY <2>2, <2>3, <3>1, Zenon
        <3>2. CASE f # h
            BY <2>3, <3>2, Zenon
        <3> QED BY <3>1, <3>2
    <2>6. file' = [f \in Files |->
                   IF Holding(p, f) \cap {fd} = {} THEN file[f]
                   ELSE Dropped(f, Cardinality(Holding(p, f) \cap {fd}))]
        BY <2>4, <2>5
    <2>7. fds' = [fds EXCEPT ![p] = [e \in Fds |-> IF e \in {fd} THEN NoFile ELSE fds[p][e]]]
        BY <1>t, <1>2, Zenon DEF sys_vfs_close
    <2> QED BY <2>6, <2>7, Zenon DEF Releases
<1> QED
    BY <1>1, <1>2

\* sys_vfs_open: one more descriptor, on an object nothing was on.
LEMMA OpenKeepsInv ==
    ASSUME VfsInv, NEW p \in Pids, NEW path, sys_vfs_open(p, path)
    PROVE  VfsInv'
<1> DEFINE node == Resolved(p, path)
<1>t. /\ fds \in [Pids -> [Fds -> Files \cup {NoFile}]]
      /\ file \in [Files -> OpenFile \cup {Freed}]
    BY DEF VfsInv, VfsTypeOK
<1>1. PICK f \in Files, fd \in FreeFds(p) :
          /\ file[f] = Freed
          /\ file' = [file EXCEPT ![f] = [node |-> node, pos |-> 0, refcount |-> 1]]
          /\ fds' = [fds EXCEPT ![p][fd] = f]
    BY Zenon DEF sys_vfs_open
<1>2. node \in Nodes /\ p \in Living /\ UNCHANGED <<life, cwd>>
    BY DEF sys_vfs_open
<1>3. fd \in Fds /\ fds[p][fd] = NoFile
    BY <1>1, Zenon DEF FreeFds, Holding
<1> HIDE DEF node
<1>4. file' \in [Files -> OpenFile \cup {Freed}]
    BY <1>t, <1>1, <1>2, VfsAssumption DEF OpenFile
<1>5. \A d \in Directories : Len(Children[d]) >= 0
    BY DEF Directories, Children
<1>6. \A g \in Files : file'[g].node \in Directories =>
          file'[g].pos <= Len(Children[file'[g].node])
    <2>1. TAKE g \in Files
    <2>2. CASE g = f
        BY <1>t, <1>1, <1>5, <2>2, Zenon
    <2>3. CASE g # f
        BY <1>t, <1>1, <2>3, Zenon DEF VfsInv, VfsTypeOK
    <2> QED BY <2>2, <2>3, Zenon
<1>7. VfsTypeOK'
    BY <1>t, <1>1, <1>2, <1>3, <1>4, <1>6, Zenon DEF VfsInv, VfsTypeOK
<1>8. \A q \in Pids \ {p} : fds'[q] = fds[q]
    BY <1>t, <1>1, Zenon
<1>9. \A g \in Files : Holding(p, g)' = IF g = f THEN Holding(p, g) \cup {fd} ELSE Holding(p, g)
    BY <1>t, <1>1, <1>3, VfsAssumption DEF Holding
<1>10. ASSUME NEW g \in Files
       PROVE  file'[g].refcount = Cardinality(Descriptors(g)')
    <2>1. IsFiniteSet(Holding(p, g))
        BY Finite, Zenon
    <2>2. fd \notin Holding(p, f)
        BY <1>3, VfsAssumption, Zenon DEF Holding
    <2>3. Cardinality(Holding(p, g)') = Cardinality(Holding(p, g)) + (IF g = f THEN 1 ELSE 0)
        <3>1. CASE g = f
            <4>1. Cardinality(Holding(p, g) \cup {fd}) = Cardinality(Holding(p, g)) + 1
                BY <2>1, <2>2, <3>1, FS_AddElement, Zenon
            <4> QED BY <1>9, <3>1, <4>1, Zenon
        <3>2. CASE g # f
            <4>1. Cardinality(Holding(p, g)) \in Nat
                BY Finite, Zenon
            <4> QED BY <1>9, <3>2, <4>1
        <3> QED BY <3>1, <3>2, Zenon
    <2>4. /\ Cardinality(Descriptors(g)')
                = Cardinality(Descriptors(g)) - Cardinality(Holding(p, g))
                    + Cardinality(Holding(p, g)')
          /\ Cardinality(Descriptors(g)) \in Nat /\ Cardinality(Holding(p, g)) \in Nat
        BY <1>8, OneTableChanges, Zenon
    <2>5. file[g].refcount = Cardinality(Descriptors(g))
        BY Zenon DEF VfsInv, RefsAreCounted
    <2>6. file'[g].refcount = file[g].refcount + (IF g = f THEN 1 ELSE 0)
        BY <1>t, <1>1, <2>4, <2>5 DEF Freed
    <2> QED BY <2>3, <2>4, <2>5, <2>6
<1>11. UnbornHoldNothing'
    BY <1>1, <1>2, <1>t, Zenon DEF VfsInv, UnbornHoldNothing, Living
<1> QED
    BY <1>7, <1>10, <1>11, Zenon DEF VfsInv, RefsAreCounted
\* The table that a fork copies is counted once for each of its descriptors.
LEMMA ForkKeepsInv ==
    ASSUME VfsInv, NEW p \in Pids, NEW c \in Pids, Fork(p, c)
    PROVE  /\ VfsInv'
           /\ \A f \in Files : file'[f].node = file[f].node /\ file'[f].pos = file[f].pos
<1>t. /\ life \in [Pids -> {"unborn", "living", "zombie", "reaped"}]
      /\ fds \in [Pids -> [Fds -> Files \cup {NoFile}]]
      /\ file \in [Files -> OpenFile \cup {Freed}]
    BY DEF VfsInv, VfsTypeOK
<1>1. /\ fds' = [fds EXCEPT ![c] = fds[p]]
      /\ file' = [f \in Files |->
                   IF Holding(p, f) = {} THEN file[f]
                   ELSE [file[f] EXCEPT !.refcount = @ + Cardinality(Holding(p, f))]]
      /\ life' = [life EXCEPT ![c] = "living"]
      /\ cwd' = [cwd EXCEPT ![c] = << >>]
    BY Zenon DEF Fork, DupTable
<1>2. p # c /\ \A fd \in Fds : fds[c][fd] = NoFile
    BY DEF Fork, Born, Living, VfsInv, UnbornHoldNothing
<1>3. \A q \in Pids \ {c} : fds'[q] = fds[q]
    BY <1>t, <1>1, Zenon
<1>4. \A f \in Files : Holding(c, f)' = Holding(p, f) /\ Holding(c, f) = {}
    BY <1>t, <1>1, <1>2, VfsAssumption, Zenon DEF Holding
<1>5. ASSUME NEW f \in Files
      PROVE  /\ file'[f].refcount = Cardinality(Descriptors(f)')
             /\ file'[f] \in OpenFile \cup {Freed}
             /\ file'[f].node = file[f].node /\ file'[f].pos = file[f].pos
    <2> DEFINE n == Cardinality(Holding(p, f))
    <2>1. n \in Nat /\ (n = 0 <=> Holding(p, f) = {})
        BY Finite, FS_EmptySet, Zenon
    <2>2. /\ Cardinality(Descriptors(f)')
                = Cardinality(Descriptors(f)) - Cardinality(Holding(c, f))
                    + Cardinality(Holding(c, f)')
          /\ Cardinality(Descriptors(f)) \in Nat
        BY <1>3, OneTableChanges, Zenon
    <2>3. Cardinality(Holding(c, f)) = 0 /\ Cardinality(Holding(c, f)') = n
        BY <1>4, FS_EmptySet, Zenon
    <2>4. file[f].refcount = Cardinality(Descriptors(f))
        BY Zenon DEF VfsInv, RefsAreCounted
    <2>5. n # 0 => file[f] \in OpenFile
        <3>1. SUFFICES ASSUME n # 0
                       PROVE  file[f] \in OpenFile
            OBVIOUS
        <3>2. PICK fd \in Fds : fds[p][fd] = f
            BY <2>1, <3>1, Zenon DEF Holding
        <3> QED BY <3>2, HeldIsOpen, VfsAssumption, Zenon
    <2> HIDE DEF n
    <2>6. file'[f] = IF n = 0 THEN file[f] ELSE [file[f] EXCEPT !.refcount = @ + n]
        BY <1>1, <2>1, Zenon DEF n
    <2> QED BY <1>t, <2>1, <2>2, <2>3, <2>4, <2>5, <2>6 DEF OpenFile
<1>6. file' \in [Files -> OpenFile \cup {Freed}]
    <2>1. DOMAIN file' = Files /\ file' = [f \in Files |-> file'[f]]
        BY <1>1, Zenon
    <2> QED BY <1>5, <2>1, Zenon
<1>7. << >> \in {PathOf[d] : d \in Directories}
    BY PathOfDirectories DEF Directories, Children, Root
<1>8. cwd' \in [Pids -> {PathOf[d] : d \in Directories}]
    BY <1>1, <1>7, Zenon DEF VfsInv, VfsTypeOK
<1>9. \A f \in Files : file'[f].node \in Directories =>
          file'[f].pos <= Len(Children[file'[f].node])
    BY <1>5, Zenon DEF VfsInv, VfsTypeOK
<1>10. VfsTypeOK'
    BY <1>t, <1>1, <1>6, <1>8, <1>9, Zenon DEF VfsTypeOK
<1>11. UnbornHoldNothing'
    BY <1>t, <1>1, Zenon DEF VfsInv, UnbornHoldNothing
<1> QED
    BY <1>5, <1>10, <1>11, Zenon DEF VfsInv, RefsAreCounted

\* The three calls that move a file's position keep it in range.
LEMMA Moves ==
    ASSUME VfsInv, NEW p \in Pids, NEW fd \in Fds,
           \/ \E count \in 1 .. MaxOff : sys_vfs_read(p, fd, count)
           \/ \E offset \in Offsets, whence \in {"SET", "CUR", "END"} :
                 sys_vfs_lseek(p, fd, offset, whence)
           \/ sys_vfs_readdir(p, fd)
    PROVE  /\ fds[p][fd] \in Files /\ file[fds[p][fd]] \in OpenFile
           /\ \E pos \in 0 .. MaxOff :
                 /\ file[fds[p][fd]].node \in Directories
                       => pos <= Len(Children[file[fds[p][fd]].node])
                 /\ MoveTo(fds[p][fd], pos)
<1> DEFINE f == fds[p][fd]
           o == file[fds[p][fd]]
<1>1. fds[p][fd] # NoFile
    BY Zenon DEF sys_vfs_read, sys_vfs_lseek, sys_vfs_readdir, Uses
<1>2. f \in Files /\ o \in OpenFile
    BY <1>1, HeldIsOpen, Zenon
<1>3. o.pos \in 0 .. MaxOff /\ MaxOff \in Nat
    BY <1>2, VfsAssumption DEF OpenFile
<1>4. ASSUME NEW count \in 1 .. MaxOff, sys_vfs_read(p, fd, count)
      PROVE  \E pos \in 0 .. MaxOff : o.node \notin Directories /\ MoveTo(f, pos)
    <2>1. o.node \in RegularFiles
        BY <1>4, Zenon DEF sys_vfs_read, Uses
    <2>2. FileSize[o.node] \in 0 .. MaxOff /\ o.node \notin Directories
        BY <2>1, VfsAssumption DEF RegularFiles
    <2>3. /\ FileSize[o.node] - o.pos > 0
          /\ MoveTo(f, o.pos + (IF count > FileSize[o.node] - o.pos
                                THEN FileSize[o.node] - o.pos ELSE count))
        BY <1>4, Zenon DEF sys_vfs_read
    <2> HIDE DEF o, f
    <2>4. o.pos + (IF count > FileSize[o.node] - o.pos
                                THEN FileSize[o.node] - o.pos ELSE count) \in 0 .. MaxOff
        BY <1>3, <2>2, <2>3
    <2> QED BY <2>2, <2>3, <2>4, Zenon
<1>5. ASSUME NEW offset \in Offsets, NEW whence \in {"SET", "CUR", "END"},
             sys_vfs_lseek(p, fd, offset, whence)
      PROVE  \E pos \in 0 .. MaxOff : o.node \notin Directories /\ MoveTo(f, pos)
    <2> DEFINE npos == CASE whence = "SET" -> offset
                         [] whence = "CUR" -> Wrap64(o.pos + offset)
                         [] whence = "END" -> Wrap64(FileSize[o.node] + offset)
    <2>1. o.node \in RegularFiles
        BY <1>5, Zenon DEF sys_vfs_lseek, Uses
    <2>2. FileSize[o.node] \in 0 .. MaxOff /\ o.node \notin Directories
        BY <2>1, VfsAssumption DEF RegularFiles
    <2>3. npos >= 0 /\ MoveTo(f, npos)
        BY <1>5, Zenon DEF sys_vfs_lseek
    <2>4. offset \in (-MaxOff - 1) .. MaxOff
        BY VfsAssumption, Zenon
    <2> HIDE DEF o, f
    <2>5. npos \in Int /\ npos <= MaxOff
        BY <1>3, <2>2, <2>4 DEF Wrap64
    <2> HIDE DEF npos
    <2>6. npos \in 0 .. MaxOff
        BY <1>3, <2>3, <2>5
    <2> QED BY <2>2, <2>3, <2>6, Zenon
<1>6. ASSUME sys_vfs_readdir(p, fd)
      PROVE  \E pos \in 0 .. MaxOff : pos <= Len(Children[o.node]) /\ MoveTo(f, pos)
    <2>1. o.node \in Directories /\ o.pos < Len(Children[o.node]) /\ MoveTo(f, o.pos + 1)
        BY <1>6, Zenon DEF sys_vfs_readdir, Uses
    <2>2. Len(Children[o.node]) \in Nat
        BY <2>1 DEF Directories, Children
    <2>3. Len(Children[o.node]) <= MaxOff
        BY <2>1, VfsAssumption
    <2> HIDE DEF o, f
    <2> QED BY <1>3, <2>1, <2>2, <2>3
<1> QED
    BY <1>2, <1>4, <1>5, <1>6, Zenon
\* A step of VfsNext, action by action.
LEMMA VfsStep ==
    ASSUME VfsInv, [VfsNext]_vars
    PROVE  VfsInv'
<1>1. ASSUME NEW p \in Pids, NEW path, sys_vfs_chdir(p, path)
      PROVE  VfsInv'
    <2>1. /\ Resolved(p, path) \in Directories
          /\ cwd' = [cwd EXCEPT ![p] = PathOf[Resolved(p, path)]]
          /\ UNCHANGED <<life, fds, file>>
        BY <1>1, Zenon DEF sys_vfs_chdir
    <2>2. cwd' \in [Pids -> {PathOf[d] : d \in Directories}]
        BY <2>1, Zenon DEF VfsInv, VfsTypeOK
    <2>3. VfsTypeOK'
        BY <2>1, <2>2, Zenon DEF VfsInv, VfsTypeOK
    <2> QED BY <2>1, <2>3, Zenon DEF VfsInv, RefsAreCounted, Descriptors, UnbornHoldNothing
<1>2. ASSUME NEW p \in Pids, FileCall(p)
      PROVE  VfsInv'
    <2>1. ASSUME NEW fd \in Fds,
                 \/ \E count \in 1 .. MaxOff : sys_vfs_read(p, fd, count)
                 \/ \E offset \in Offsets, whence \in {"SET", "CUR", "END"} :
                       sys_vfs_lseek(p, fd, offset, whence)
                 \/ sys_vfs_readdir(p, fd)
          PROVE  VfsInv'
        BY <2>1, Moves, MoveKeepsInv, Zenon
    <2>2. ASSUME NEW fd \in Fds, sys_vfs_close(p, fd)
          PROVE  VfsInv'
        <3>1. Releases(p, {fd})
            BY <2>2, CloseReleases
        <3>2. UNCHANGED <<life, cwd>>
            BY <2>2, Zenon DEF sys_vfs_close
        <3> QED BY <3>1, <3>2, ReleaseKeepsInv, Zenon
    <2> QED BY <1>1, <1>2, <2>1, <2>2, OpenKeepsInv, Zenon DEF FileCall
<1>3. ASSUME NEW p \in Pids, Spawn(p)
      PROVE  VfsInv'
    <2>1. fds' = fds
        <3>1. fds[p] = [fd \in Fds |-> NoFile]
            BY <1>3, Zenon DEF Spawn, Born, VfsInv, VfsTypeOK, UnbornHoldNothing
        <3> QED BY <1>3, <3>1, Zenon DEF Spawn, VfsInv, VfsTypeOK
    <2>2. << >> \in {PathOf[d] : d \in Directories}
        BY PathOfDirectories DEF Directories, Children, Root
    <2>3. /\ file' = file
          /\ life' = [life EXCEPT ![p] = "living"]
          /\ cwd' = [cwd EXCEPT ![p] = << >>]
        BY <1>3, Zenon DEF Spawn
    <2>4. cwd' \in [Pids -> {PathOf[d] : d \in Directories}]
        BY <2>2, <2>3, Zenon DEF VfsInv, VfsTypeOK
    <2>5. VfsTypeOK'
        BY <2>1, <2>3, <2>4, Zenon DEF VfsInv, VfsTypeOK
    <2>6. UnbornHoldNothing'
        BY <2>1, <2>3 DEF VfsInv, VfsTypeOK, UnbornHoldNothing
    <2> QED BY <2>1, <2>3, <2>5, <2>6, Zenon DEF VfsInv, RefsAreCounted, Descriptors
<1>4. ASSUME NEW p \in Pids, Abort(p)
      PROVE  VfsInv'
    <2>1. life' = [life EXCEPT ![p] = "reaped"] /\ UNCHANGED <<fds, file, cwd>>
        BY <1>4, Zenon DEF Abort
    <2>2. VfsTypeOK'
        BY <2>1, Zenon DEF VfsInv, VfsTypeOK
    <2>3. UnbornHoldNothing'
        BY <2>1 DEF VfsInv, VfsTypeOK, UnbornHoldNothing
    <2> QED BY <2>1, <2>2, <2>3, Zenon DEF VfsInv, RefsAreCounted, Descriptors
<1>5. ASSUME NEW p \in Pids, Exit(p) \/ Destroy(p)
      PROVE  VfsInv'
    <2>1. Releases(p, Fds)
        BY <1>5, CloseReleases, Zenon DEF Exit, Destroy
    <2> QED BY <1>5, <2>1, ReleaseKeepsInv, Zenon DEF Exit, Destroy
<1>6. CASE UNCHANGED vars
    BY <1>6, Zenon DEF vars, VfsInv, VfsTypeOK, RefsAreCounted, Descriptors, UnbornHoldNothing
<1> QED
    BY <1>2, <1>3, <1>4, <1>5, <1>6, ForkKeepsInv, Zenon DEF VfsNext

\* The inductive invariant holds in every reachable state: the descriptor layer
\* of voidfs.c with fork, exit and reap.
THEOREM VfsInvariant == VfsSpec => []VfsInv
<1>1. VfsInit => VfsInv
    BY VfsInitInv
<1>2. VfsInv /\ [VfsNext]_vars => VfsInv'
    BY VfsStep
<1> QED
    BY <1>1, <1>2, PTL DEF VfsSpec

\* Every table of the descriptor layer holds values of its type, and positions
\* stay in range.
THEOREM VfsTypeCorrect == VfsSpec => []VfsTypeOK
<1>1. VfsInv => VfsTypeOK
    BY Zenon DEF VfsInv
<1> QED
    BY <1>1, VfsInvariant, PTL

\* An open file has as many references as descriptors (vfs_file_ref_inc,
\* sys_vfs_close, vfs_close_process_fds), so no close frees what another descriptor still uses.
THEOREM ReferencesCounted == VfsSpec => []RefsAreCounted
<1>1. VfsInv => RefsAreCounted
    BY DEF VfsInv
<1> QED
    BY <1>1, VfsInvariant, PTL
\* The descriptions some descriptor refers to are the objects in use.
LEMMA InUseIsOpen ==
    ASSUME VfsInv
    PROVE  \A f \in Files : f \in Descriptions!InUse(fds) <=> file[f] # Freed
<1>1. ASSUME NEW f \in Files
      PROVE  f \in Descriptions!InUse(fds) <=> Descriptors(f) # {}
    <2>1. f # NoFile
        BY VfsAssumption
    <2>2. f \in Descriptions!InUse(fds) <=> \E p \in Pids, fd \in Fds : fds[p][fd] = f
        BY <2>1 DEF Descriptions!InUse
    <2>3. Descriptors(f) # {} <=> \E d \in Pids \X Fds : fds[d[1]][d[2]] = f
        BY Zenon DEF Descriptors
    <2>4. (\E d \in Pids \X Fds : fds[d[1]][d[2]] = f)
             <=> \E p \in Pids, fd \in Fds : fds[p][fd] = f
        <3>1. ASSUME NEW p \in Pids, NEW fd \in Fds, fds[p][fd] = f
              PROVE  \E d \in Pids \X Fds : fds[d[1]][d[2]] = f
            <4> WITNESS <<p, fd>> \in Pids \X Fds
            <4> QED BY <3>1
        <3>2. ASSUME NEW d \in Pids \X Fds, fds[d[1]][d[2]] = f
              PROVE  \E p \in Pids, fd \in Fds : fds[p][fd] = f
            BY <3>2
        <3> QED BY <3>1, <3>2, Zenon
    <2> QED BY <2>2, <2>3, <2>4, Zenon
<1> QED
    BY <1>1, OpenMeansHeld, Zenon

\* Descriptors that are given up: what is left unreferenced is gone.
LEMMA ReleaseDrops ==
    ASSUME VfsInv, VfsInv', NEW p \in Pids, NEW T \in SUBSET Fds, Releases(p, T)
    PROVE  Descriptions!Drop(p)
<1>1. \A f \in Files : \/ file'[f] = Freed
                       \/ file'[f].node = file[f].node /\ file'[f].pos = file[f].pos
    BY ReleaseCounts, Zenon
<1>2. \A f \in Files : f \in Descriptions!InUse(fds') <=> file'[f] # Freed
    <2>1. (\A f \in Files : f \in Descriptions!InUse(fds) <=> file[f] # Freed)'
        BY InUseIsOpen, PTL
    <2> QED BY <2>1 DEF Descriptions!InUse
<1>3. fds' = [fds EXCEPT ![p] = [s \in Fds |-> IF s \in T THEN NoFile ELSE fds[p][s]]]
    BY DEF Releases
<1>4. Freed.node = "free" /\ Freed.pos = 0
    BY Zenon DEF Freed
<1>5. Descriptions!Collect
    BY <1>1, <1>2, <1>4, Zenon DEF Descriptions!Collect
<1> QED
    BY <1>3, <1>5, Zenon DEF Descriptions!Drop
\* Each action of the descriptor layer is a step of Descriptions, or changes
\* nothing of it.
LEMMA DescStep ==
    ASSUME VfsInv, VfsInv', [VfsNext]_vars
    PROVE  [Descriptions!DescNext]_(Descriptions!descVars)
<1> DEFINE target == [f \in Files |-> file[f].node]
           position == [f \in Files |-> file[f].pos]
<1>t. /\ fds \in [Pids -> [Fds -> Files \cup {NoFile}]]
      /\ file \in [Files -> OpenFile \cup {Freed}]
    BY DEF VfsInv, VfsTypeOK
<1>1. ASSUME fds' = fds, file' = file
      PROVE  UNCHANGED Descriptions!descVars
    BY <1>1, Zenon DEF Descriptions!descVars
<1>2. ASSUME NEW p \in Pids, NEW path, sys_vfs_open(p, path)
      PROVE  \E s \in Fds, o \in Files : Descriptions!Open(p, s, o)
    <2> DEFINE node == Resolved(p, path)
    <2>1. PICK f \in Files, fd \in FreeFds(p) :
              /\ file[f] = Freed
              /\ file' = [file EXCEPT ![f] = [node |-> node, pos |-> 0, refcount |-> 1]]
              /\ fds' = [fds EXCEPT ![p][fd] = f]
        BY <1>2, Zenon DEF sys_vfs_open
    <2>2. node \in Nodes
        BY <1>2, Zenon DEF sys_vfs_open
    <2>3. node # "free"
        BY <2>2, Zenon DEF Nodes, Parent, Root
    <2>4. fd \in Fds /\ fds[p][fd] = NoFile
        BY <2>1, Zenon DEF FreeFds, Holding
    <2>5. f \notin Descriptions!InUse(fds)
        BY <2>1, InUseIsOpen
    <2> HIDE DEF node
    <2>6. target'[f] = node /\ target' = [target EXCEPT ![f] = node]
        BY <1>t, <2>1, Zenon
    <2>7. position' = position
        BY <1>t, <2>1 DEF Freed
    <2>8. Descriptions!Open(p, fd, f)
        BY <2>1, <2>3, <2>4, <2>5, <2>6, <2>7, Zenon DEF Descriptions!Open
    <2> QED BY <2>4, <2>8, Zenon
<1>3. ASSUME NEW p \in Pids, NEW fd \in Fds,
             \/ \E count \in 1 .. MaxOff : sys_vfs_read(p, fd, count)
             \/ \E offset \in Offsets, whence \in {"SET", "CUR", "END"} :
                   sys_vfs_lseek(p, fd, offset, whence)
             \/ sys_vfs_readdir(p, fd)
      PROVE  Descriptions!Move(p, fd)
    <2>1. PICK pos : /\ fds[p][fd] \in Files /\ file[fds[p][fd]] \in OpenFile
                     /\ MoveTo(fds[p][fd], pos)
        BY <1>3, Moves, Zenon
    <2>2. fds[p][fd] # NoFile
        BY <2>1, VfsAssumption, Zenon
    <2>3. file' = [file EXCEPT ![fds[p][fd]].pos = pos] /\ fds' = fds
        BY <2>1, Zenon DEF MoveTo
    <2>4. target' = target
        BY <1>t, <2>1, <2>3, Zenon DEF OpenFile
    <2>5. position'[fds[p][fd]] = pos /\ position' = [position EXCEPT ![fds[p][fd]] = pos]
        BY <1>t, <2>1, <2>3, Zenon DEF OpenFile
    <2> QED BY <2>2, <2>3, <2>4, <2>5, Zenon DEF Descriptions!Move
<1>4. ASSUME NEW p \in Pids, NEW c \in Pids, Fork(p, c)
      PROVE  Descriptions!Share(p, c)
    <2>1. \A fd \in Fds : fds[c][fd] = NoFile
        BY <1>4 DEF Fork, Born, VfsInv, UnbornHoldNothing
    <2>2. fds' = [fds EXCEPT ![c] = fds[p]]
        BY <1>4, Zenon DEF Fork, DupTable
    <2>3. \A f \in Files : file'[f].node = file[f].node /\ file'[f].pos = file[f].pos
        BY <1>4, ForkKeepsInv
    <2> QED BY <2>1, <2>2, <2>3, Zenon DEF Descriptions!Share
<1>5. ASSUME NEW p \in Pids, Exit(p) \/ Destroy(p)
      PROVE  Descriptions!Drop(p)
    BY <1>5, CloseReleases, ReleaseDrops, Zenon DEF Exit, Destroy
<1>6. ASSUME NEW p \in Pids, NEW fd \in Fds, sys_vfs_close(p, fd)
      PROVE  Descriptions!Drop(p)
    BY <1>6, CloseReleases, ReleaseDrops, Zenon
<1>7. ASSUME NEW p \in Pids, Spawn(p)
      PROVE  fds' = fds /\ file' = file
    <2>1. fds[p] = [fd \in Fds |-> NoFile]
        BY <1>7, <1>t DEF Spawn, Born, VfsInv, UnbornHoldNothing
    <2> QED BY <1>7, <1>t, <2>1, Zenon DEF Spawn
<1>8. ASSUME NEW p \in Pids, Abort(p) \/ \E path \in Paths : sys_vfs_chdir(p, path)
      PROVE  fds' = fds /\ file' = file
    BY <1>8, Zenon DEF Abort, sys_vfs_chdir
<1>9. ASSUME NEW p \in Pids, FileCall(p)
      PROVE  [Descriptions!DescNext]_(Descriptions!descVars)
    BY <1>1, <1>2, <1>3, <1>6, <1>8, <1>9, Zenon DEF FileCall, Descriptions!DescNext
<1>10. CASE UNCHANGED vars
    BY <1>1, <1>10, Zenon DEF vars
<1> QED
    BY <1>1, <1>4, <1>5, <1>7, <1>8, <1>9, <1>10, Zenon DEF VfsNext, Descriptions!DescNext

\* The reference-counted vfs_file_t objects implement shared open file
\* descriptions: what is opened lasts until its last descriptor goes, and only
\* its holders move it.
THEOREM DescriptionsImplemented == VfsSpec => ImplementsDescriptions
<1>1. VfsInit => Descriptions!DescInit
    BY DEF VfsInit, Descriptions!DescInit, Freed
<1>2. VfsInv /\ VfsInv' /\ [VfsNext]_vars => [Descriptions!DescNext]_(Descriptions!descVars)
    BY DescStep
<1> QED
    BY <1>1, <1>2, VfsInvariant, PTL DEF VfsSpec, ImplementsDescriptions, Descriptions!DescSpec
-----------------------------------------------------------------------------
\* Induction: every set of naturals has a least element.
LEMMA NatSet ==
    ASSUME NEW S, 0 \in S, \A n \in Nat : n \in S => n + 1 \in S
    PROVE  \A n \in Nat : n \in S
<1> DEFINE T == Nat \ S
<1>1. SUFFICES ASSUME T # {}
               PROVE  FALSE
    OBVIOUS
<1>2. PICK x \in T : \A y \in T : ~(<<y, x>> \in OpToRel(<, Nat))
    <2>1. T \in SUBSET Nat
        OBVIOUS
    <2> HIDE DEF T
    <2> QED BY <1>1, <2>1, NatLessThanWellFounded, WFMin, Zenon
<1>3. \A y \in T : ~(y < x)
    BY <1>2, Zenon DEF OpToRel
<1>4. x # 0 /\ x - 1 \in Nat /\ x - 1 < x
    OBVIOUS
<1> QED
    BY <1>3, <1>4

\* The loop of vfs_resolve_abs: g records where it is after each component.
IsWalk(g, comps) ==
    g = [i \in 0 .. Len(comps) |-> IF i = 0 THEN Root ELSE ResolveStep(g[i - 1], comps[i])]

\* The loop can be run on every path.
LEMMA WalkExists ==
    ASSUME NEW A, NEW comps \in Seq(A)
    PROVE  \E g : IsWalk(g, comps)
<1> DEFINE Runs(n) == \E g : g = [i \in 0 .. n |->
                          IF i = 0 THEN Root ELSE ResolveStep(g[i - 1], comps[i])]
           S == {n \in Nat : Runs(n)}
<1>1. 0 \in S
    <2> DEFINE g == [i \in 0 .. 0 |-> Root]
    <2>1. g = [i \in 0 .. 0 |-> IF i = 0 THEN Root ELSE ResolveStep(g[i - 1], comps[i])]
        OBVIOUS
    <2> QED BY <2>1, Zenon
<1>2. ASSUME NEW n \in Nat, n \in S
      PROVE  n + 1 \in S
    <2>1. PICK g : g = [i \in 0 .. n |->
                          IF i = 0 THEN Root ELSE ResolveStep(g[i - 1], comps[i])]
        BY <1>2, Zenon
    <2> DEFINE h == [i \in 0 .. n + 1 |->
                        IF i = n + 1 THEN ResolveStep(g[n], comps[n + 1]) ELSE g[i]]
    <2>2. ASSUME NEW i \in 0 .. n + 1
          PROVE  h[i] = IF i = 0 THEN Root ELSE ResolveStep(h[i - 1], comps[i])
        <3>1. CASE i = n + 1
            <4>1. h[i] = ResolveStep(g[n], comps[i]) /\ h[i - 1] = g[n] /\ i # 0
                BY <3>1
            <4> QED BY <4>1, Zenon
        <3>2. CASE i \in 1 .. n
            <4>1. h[i] = g[i] /\ h[i - 1] = g[i - 1] /\ i # 0 /\ i \in 0 .. n
                BY <3>2
            <4>2. g[i] = ResolveStep(g[i - 1], comps[i])
                BY <2>1, <4>1, Zenon
            <4> QED BY <4>1, <4>2, Zenon
        <3>3. CASE i = 0
            <4>1. h[i] = g[i] /\ i \in 0 .. n
                BY <3>3
            <4>2. g[i] = Root
                BY <2>1, <3>3, <4>1, Zenon
            <4> QED BY <3>3, <4>1, <4>2, Zenon
        <3> QED BY <3>1, <3>2, <3>3
    <2>3. h = [i \in 0 .. n + 1 |-> IF i = 0 THEN Root ELSE ResolveStep(h[i - 1], comps[i])]
        BY <2>2, Zenon
    <2> HIDE DEF h
    <2>4. Runs(n + 1)
        BY <2>3, Zenon
    <2>5. n + 1 \in Nat
        OBVIOUS
    <2> QED BY <2>4, <2>5, Zenon
<1> HIDE DEF S
<1>3. Len(comps) \in S
    BY <1>1, <1>2, NatSet
<1> QED
    BY <1>3 DEF S, IsWalk

\* Two paths with a common beginning are walked alike up to its end.
LEMMA WalksAgree ==
    ASSUME NEW c, NEW d, NEW g, NEW h, IsWalk(g, c), IsWalk(h, d),
           NEW m \in Nat, Len(c) \in Nat, Len(d) \in Nat, m <= Len(c), m <= Len(d),
           \A i \in 1 .. m : c[i] = d[i]
    PROVE  g[m] = h[m]
<1> DEFINE S == {i \in Nat : i <= m => g[i] = h[i]}
<1>1. 0 \in S
    <2>1. 0 \in 0 .. Len(c) /\ 0 \in 0 .. Len(d)
        OBVIOUS
    <2>2. g[0] = Root /\ h[0] = Root
        BY <2>1, Zenon DEF IsWalk
    <2> QED BY <2>2
<1>2. ASSUME NEW n \in Nat, n \in S
      PROVE  n + 1 \in S
    <2>1. SUFFICES ASSUME n + 1 <= m
                   PROVE  g[n + 1] = h[n + 1]
        OBVIOUS
    <2>2. g[n] = h[n] /\ c[n + 1] = d[n + 1]
        BY <1>2, <2>1
    <2>3. n + 1 \in 0 .. Len(c) /\ n + 1 \in 0 .. Len(d) /\ n + 1 # 0 /\ (n + 1) - 1 = n
        BY <2>1
    <2>4. g[n + 1] = ResolveStep(g[n], c[n + 1])
        BY <2>3, Zenon DEF IsWalk
    <2>5. h[n + 1] = ResolveStep(h[n], d[n + 1])
        BY <2>3, Zenon DEF IsWalk
    <2> QED BY <2>2, <2>4, <2>5, Zenon
<1> HIDE DEF S
<1>3. m \in S
    BY <1>1, <1>2, NatSet, Zenon
<1> QED
    BY <1>3 DEF S
\* Where the loop ends.
End(comps) == (CHOOSE g : IsWalk(g, comps))[Len(comps)]

\* vfs_resolve_abs returns where its loop ends, but for the trailing slash.
LEMMA ResolveIsEnd ==
    ASSUME NEW comps
    PROVE  vfs_resolve_abs(comps)
              = IF End(comps) \in RegularFiles /\ comps # << >> /\ comps[Len(comps)] = ""
                THEN "NOTDIR" ELSE End(comps)
BY Zenon DEF vfs_resolve_abs, End, IsWalk

\* The loop on no component.
LEMMA EndOfNothing == End(<< >>) = Root
<1>1. Len(<< >>) = 0 /\ << >> \in Seq(STRING) /\ 0 \in 0 .. Len(<< >>)
    OBVIOUS
<1>2. PICK g : g = (CHOOSE h : IsWalk(h, << >>)) /\ IsWalk(g, << >>)
    BY <1>1, WalkExists, Zenon
<1>3. g[0] = Root
    BY <1>1, <1>2, Zenon DEF IsWalk
<1> QED
    BY <1>1, <1>2, <1>3, Zenon DEF End

\* One more component is one more turn of the loop.
LEMMA EndOfAppend ==
    ASSUME NEW A, NEW comps \in Seq(A), NEW x \in A
    PROVE  End(comps \o <<x>>) = ResolveStep(End(comps), x)
<1> DEFINE d == comps \o <<x>>
           n == Len(comps)
<1>1. /\ d \in Seq(A) /\ Len(d) = n + 1 /\ n \in Nat /\ d[n + 1] = x
      /\ \A i \in 1 .. n : comps[i] = d[i]
    OBVIOUS
<1> HIDE DEF d, n
<1>2. PICK g : g = (CHOOSE k : IsWalk(k, comps)) /\ IsWalk(g, comps)
    BY WalkExists, Zenon
<1>3. PICK h : h = (CHOOSE k : IsWalk(k, d)) /\ IsWalk(h, d)
    BY <1>1, WalkExists, Zenon
<1>4. g[n] = h[n]
    <2>1. n <= Len(comps) /\ n <= Len(d) /\ Len(comps) \in Nat /\ Len(d) \in Nat
        BY <1>1 DEF n
    <2>2. IsWalk(g, comps) /\ IsWalk(h, d) /\ n \in Nat /\ \A i \in 1 .. n : comps[i] = d[i]
        BY <1>1, <1>2, <1>3, Zenon
    <2> QED BY <2>1, <2>2, WalksAgree
<1>5. h[n + 1] = ResolveStep(h[n], x)
    <2>1. n + 1 \in 0 .. Len(d) /\ n + 1 # 0 /\ (n + 1) - 1 = n
        BY <1>1
    <2>2. h[n + 1] = ResolveStep(h[n], d[n + 1])
        BY <1>3, <2>1, Zenon DEF IsWalk
    <2> QED BY <1>1, <2>2, Zenon
<1>6. End(comps) = g[n] /\ End(d) = h[n + 1]
    BY <1>1, <1>2, <1>3, Zenon DEF End, n
<1> QED
    BY <1>4, <1>5, <1>6, Zenon DEF d


\* No names are a list of names.
LEMMA NoNames ==
    ASSUME NEW A
    PROVE  << >> \in Seq(A)
OBVIOUS

\* One name is a list.
LEMMA OneName ==
    ASSUME NEW A, NEW x \in A
    PROVE  <<x>> \in Seq(A)
OBVIOUS

\* Two lists joined.
LEMMA JoinedNames ==
    ASSUME NEW A, NEW s \in Seq(A), NEW t \in Seq(A)
    PROVE  s \o t \in Seq(A)
OBVIOUS

\* Joining is associative.
LEMMA JoinedThrice ==
    ASSUME NEW A, NEW s \in Seq(A), NEW t \in Seq(A), NEW u \in Seq(A)
    PROVE  s \o (t \o u) = (s \o t) \o u
OBVIOUS

\* So what follows a path sees only where the path led.
LEMMA EndComposes ==
    ASSUME NEW A, NEW c \in Seq(A), NEW d \in Seq(A), End(c) = End(d), NEW t \in Seq(A)
    PROVE  End(c \o t) = End(d \o t)
<1> DEFINE S == {n \in Nat : \A r \in Seq(A) : Len(r) = n => End(c \o r) = End(d \o r)}
<1>1. 0 \in S
    <2>1. ASSUME NEW r \in Seq(A), Len(r) = 0
          PROVE  End(c \o r) = End(d \o r)
        <3>1. c \o r = c /\ d \o r = d
            BY <2>1
        <3> QED BY <3>1, Zenon
    <2> QED BY <2>1
<1>2. ASSUME NEW n \in Nat, n \in S
      PROVE  n + 1 \in S
    <2>1. ASSUME NEW r \in Seq(A), Len(r) = n + 1
          PROVE  End(c \o r) = End(d \o r)
        <3> DEFINE f == SubSeq(r, 1, n)
                   x == r[n + 1]
        <3>1. f \in Seq(A) /\ Len(f) = n /\ x \in A /\ r = f \o <<x>>
            BY <2>1
        <3> HIDE DEF f, x
        <3>2. c \o r = (c \o f) \o <<x>> /\ d \o r = (d \o f) \o <<x>>
            <4>1. <<x>> \in Seq(A) /\ f \in Seq(A)
                BY <3>1, OneName, Zenon
            <4>2. c \o (f \o <<x>>) = (c \o f) \o <<x>>
                BY <4>1, JoinedThrice, SMTT(30)
            <4>3. d \o (f \o <<x>>) = (d \o f) \o <<x>>
                BY <4>1, JoinedThrice, SMTT(30)
            <4> QED BY <3>1, <4>2, <4>3, Zenon
        <3>3. c \o f \in Seq(A) /\ d \o f \in Seq(A)
            BY <3>1
        <3>4. End(c \o f) = End(d \o f)
            BY <1>2, <3>1
        <3>5. /\ End(c \o r) = ResolveStep(End(c \o f), x)
              /\ End(d \o r) = ResolveStep(End(d \o f), x)
            BY <3>1, <3>2, <3>3, EndOfAppend, Zenon
        <3> QED BY <3>4, <3>5, Zenon
    <2> QED BY <2>1
<1> HIDE DEF S
<1>3. Len(t) \in S
    BY <1>1, <1>2, NatSet
<1> QED
    BY <1>3 DEF S
\* Strings, as the provers know them.
Words == STRING \cup {"etc"}

\* A list of strings is a list of words.
LEMMA StringsAreWords == Seq(STRING) \subseteq Seq(Words)
<1>1. ASSUME NEW A, NEW B, A \subseteq B
      PROVE  Seq(A) \subseteq Seq(B)
    BY <1>1
<1> QED
    BY <1>1, Zenon DEF Words

\* The path that chdir rebuilds from a directory leads back to it.
LEMMA PathLeadsBack ==
    ASSUME NEW d \in Directories
    PROVE  PathOf[d] \in Seq(Words) /\ End(PathOf[d]) = d
<1>1. Directories = {"root", "etc"}
    BY DEF Directories, Children
<1>2. CASE d = "root"
    <2>1. PathOf[d] = << >>
        BY <1>2, PathOfDirectories DEF Root
    <2>2. End(PathOf[d]) = d
        BY <1>2, <2>1, EndOfNothing, Zenon DEF Root
    <2> QED BY <2>1, <2>2
<1>3. CASE d = "etc"
    <2>1. PathOf[d] = <<"etc">> /\ << >> \o <<"etc">> = <<"etc">>
        BY <1>3, PathOfDirectories
    <2>2. End(<< >> \o <<"etc">>) = ResolveStep(End(<< >>), "etc")
        <3>1. << >> \in Seq(Words) /\ "etc" \in Words
            BY NoNames, Zenon DEF Words
        <3> QED BY <3>1, EndOfAppend, Zenon
    <2>3. tree_find_child(Root, "etc") = {"etc"}
        BY DEF tree_find_child, Parent, Name, Root
    <2>4. ResolveStep(Root, "etc") = "etc"
        <3>1. Root \notin Errors /\ Root \in Directories
            BY <1>1 DEF Errors, Root
        <3>2. (CHOOSE n \in {"etc"} : TRUE) = "etc"
            BY Zenon
        <3> QED BY <2>3, <3>1, <3>2, Zenon DEF ResolveStep, Overlong
    <2>5. End(PathOf[d]) = d
        BY <1>3, <2>1, <2>2, <2>4, EndOfNothing, Zenon
    <2>6. <<"etc">> \in Seq(Words)
        BY OneName, Zenon DEF Words
    <2> QED BY <2>1, <2>5, <2>6, Zenon
<1> QED
    BY <1>1, <1>2, <1>3, Zenon

\* sys_vfs_chdir, then a relative path: the two paths joined.
LEMMA ChdirStep ==
    ASSUME VfsTypeOK, NEW p \in Pids, NEW path \in Paths, sys_vfs_chdir(p, path),
           NEW rel \in Seq(STRING)
    PROVE  vfs_resolve_abs(cwd'[p] \o rel)
              = vfs_resolve_abs(vfs_absolutize(cwd[p], path) \o rel)
<1> DEFINE joined == vfs_absolutize(cwd[p], path)
           node == Resolved(p, path)
           c == cwd'[p]
<1>1. cwd[p] \in {PathOf[d] : d \in Directories}
    BY Zenon DEF VfsTypeOK
<1>2. cwd[p] \in Seq(Words)
    BY <1>1, PathLeadsBack, Zenon
<1>3. path.comps \in Seq(STRING)
    BY VfsAssumption
<1>w. path.comps \in Seq(Words) /\ rel \in Seq(Words)
    BY <1>3, StringsAreWords, Zenon
<1>4. joined \in Seq(Words)
    BY <1>2, <1>w, JoinedNames, Zenon DEF vfs_absolutize
<1>5. node \in Directories /\ c = PathOf[node]
    BY Zenon DEF sys_vfs_chdir, VfsTypeOK
<1>6. "FAULT" \notin Directories /\ "NOTDIR" \notin Directories
    BY DEF Directories, Children
<1>7. vfs_resolve_abs(joined) = node
    BY <1>5, <1>6, Zenon DEF Resolved
<1>8. End(joined) = node
    BY <1>5, <1>6, <1>7, ResolveIsEnd, Zenon
<1>9. c \in Seq(Words) /\ End(c) = node
    BY <1>5, PathLeadsBack, Zenon
<1> HIDE DEF joined, node, c
<1>10. End(c \o rel) = End(joined \o rel)
    <2>1. End(c) = End(joined) /\ rel \in Seq(Words)
        BY <1>w, <1>8, <1>9, Zenon
    <2>2. c \in Seq(Words) /\ joined \in Seq(Words)
        BY <1>4, <1>9, Zenon
    <2> QED BY <2>1, <2>2, EndComposes
<1>11. CASE rel = << >>
    <2>1. c \o rel = c /\ joined \o rel = joined
        BY <1>w, <1>4, <1>9, <1>11
    <2>2. node \notin RegularFiles
        BY <1>5 DEF RegularFiles
    <2> QED BY <1>8, <1>9, <2>1, <2>2, ResolveIsEnd, Zenon DEF joined, c
<1>12. CASE rel # << >>
    <2>1. /\ c \o rel # << >> /\ (c \o rel)[Len(c \o rel)] = rel[Len(rel)]
          /\ joined \o rel # << >> /\ (joined \o rel)[Len(joined \o rel)] = rel[Len(rel)]
        BY <1>w, <1>4, <1>9, <1>12
    <2> QED BY <1>10, <2>1, ResolveIsEnd, Zenon DEF joined, c
<1> QED
    BY <1>11, <1>12, Zenon

\* Only chdir moves a working directory to another place, and it does so to
\* where the path it was given led: whatever relative path comes next, of any
\* length, resolves as the two paths joined would have.
ChdirJoins ==
    [][\A p \in Pids, path \in Paths : sys_vfs_chdir(p, path) =>
          \A rel \in Seq(STRING) :
              vfs_resolve_abs(cwd'[p] \o rel)
                 = vfs_resolve_abs(vfs_absolutize(cwd[p], path) \o rel)]_vars

\* sys_vfs_chdir stores a rebuilt path that stands for the one it was given.
THEOREM ChdirJoined == VfsSpec => ChdirJoins
<1>1. VfsTypeOK /\ [VfsNext]_vars =>
        [\A p \in Pids, path \in Paths : sys_vfs_chdir(p, path) =>
          \A rel \in Seq(STRING) :
              vfs_resolve_abs(cwd'[p] \o rel)
                 = vfs_resolve_abs(vfs_absolutize(cwd[p], path) \o rel)]_vars
    BY ChdirStep, Zenon
<1> QED
    BY <1>1, VfsTypeCorrect, PTL DEF VfsSpec, ChdirJoins

\* The same for the paths a run looks at: sys_vfs_chdir, then vfs_absolutize.
THEOREM ChdirComposed == VfsSpec => ChdirComposes
<1>1. RelativeSteps \subseteq Seq(STRING)
    BY VfsAssumption DEF RelativeSteps
<1>2. VfsTypeOK /\ [VfsNext]_vars =>
        [\A p \in Pids : cwd'[p] # cwd[p] => \A path \in Paths : sys_vfs_chdir(p, path) =>
          LET joined == vfs_absolutize(cwd[p], path) IN
          \A rel \in RelativeSteps :
              vfs_resolve_abs(cwd'[p] \o rel) = vfs_resolve_abs(joined \o rel)]_vars
    BY <1>1, ChdirStep, Zenon
<1> QED
    BY <1>2, VfsTypeCorrect, PTL DEF VfsSpec, ChdirComposes
=============================================================================
