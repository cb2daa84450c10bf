---------------------------- MODULE UserMem_proofs ----------------------------
(***************************************************************************)
(* Proofs about module UserMem, for any number of frames, processes and    *)
(* pages and any shape of page tables: no frame leaks, none has two        *)
(* holders, no process reaches memory that is not its own, a living        *)
(* process has its stack, mmap maps clear pages or nothing, and fork       *)
(* copies all that is mapped.                                              *)
(*                                                                         *)
(* First the inductive invariant, what each kind of change to a frame's    *)
(* holder does to it, and that the steps of a call in progress keep it.    *)
(***************************************************************************)
EXTENDS UserMem, FiniteSetTheorems, TLAPS

Ops == {"none", "spawn", "fork", "exec", "brk", "mmap"}
Todo == Pages \X BOOLEAN \X (Frames \cup {NoFrame})
CallType ==
    [op : Ops, proc : Spaces, into : Spaces, todo : SUBSET Todo, done : SUBSET Pages,
     page : Pages, write : BOOLEAN, from : Frames \cup {NoFrame},
     frame : Frames \cup {NoFrame}, brk : 0 .. 2 * PageCount,
     copy : [Pages -> Frames \cup {NoFrame}]]

\* The types of user memory's state and of the call in progress.
MemType ==
    /\ used \in SUBSET Frames
    /\ cr3 \in [Spaces -> Frames \cup {NoFrame}]
    /\ table \in [Spaces -> [TableIds -> Frames \cup {NoFrame}]]
    /\ pte \in [Spaces -> [Pages -> Entries]]
    /\ umap \in [Spaces -> SUBSET (Pages \X Frames)]
    /\ brk \in [Spaces -> 0 .. 2 * PageCount]
    /\ live \in SUBSET Procs /\ calls \in 0 .. MaxCalls
    /\ call \in CallType
    /\ call.op \in {"spawn", "fork"} => call.into \in Procs

(***************************************************************************)
(* FramesHaveOneHolder without counting: a frame is used exactly when it   *)
(* is held, and the four kinds of holder, PML4s, page tables, pages and    *)
(* the call in progress, share no frame within a kind or across two.       *)
(***************************************************************************)
Owns(s, f) ==
    \/ cr3[s] = f
    \/ \E t \in TableIds : table[s][t] = f
    \/ \E p \in Pages : <<p, f>> \in umap[s]

Held(f) == call.frame = f \/ \E s \in Spaces : Owns(s, f)

UsedIsHeld == \A f \in Frames : f \in used <=> Held(f)

RootsDiffer == \A s, r \in Spaces : cr3[s] \in Frames /\ cr3[s] = cr3[r] => s = r
TablesDiffer == \A s, r \in Spaces, t, u \in TableIds :
    table[s][t] \in Frames /\ table[s][t] = table[r][u] => s = r /\ t = u
PagesDiffer == \A s, r \in Spaces, p, q \in Pages, f \in Frames :
    <<p, f>> \in umap[s] /\ <<q, f>> \in umap[r] => s = r /\ p = q
RootsAreNoTables == \A s, r \in Spaces, t \in TableIds :
    cr3[s] \in Frames => cr3[s] # table[r][t]
RootsAreNoPages == \A s, r \in Spaces, p \in Pages :
    cr3[s] \in Frames => <<p, cr3[s]>> \notin umap[r]
TablesAreNoPages == \A s, r \in Spaces, t \in TableIds, p \in Pages :
    table[s][t] \in Frames => <<p, table[s][t]>> \notin umap[r]
InHand ==
    call.frame \in Frames => \A s \in Spaces :
        /\ cr3[s] # call.frame
        /\ \A t \in TableIds : table[s][t] # call.frame
        /\ \A p \in Pages : <<p, call.frame>> \notin umap[s]

Apart ==
    /\ RootsDiffer /\ TablesDiffer /\ PagesDiffer
    /\ RootsAreNoTables /\ RootsAreNoPages /\ TablesAreNoPages /\ InHand

\* Whatever a page table maps, umap knows.
MappedIsOwned == \A s \in Spaces, p \in Pages :
    pte[s][p] # Unmapped => <<p, pte[s][p].frame>> \in umap[s]

MemInv == MemType /\ UsedIsHeld /\ Apart /\ MappedIsOwned

-----------------------------------------------------------------------------
\* What the assumptions say of pages and frames.
LEMMA Ranges ==
    /\ NoFrame \notin Frames
    /\ 0 \in Pages /\ ImagePages \in SUBSET Pages /\ StackPages \in SUBSET Pages
    /\ Idle \in CallType /\ Idle.frame = NoFrame /\ Idle.op = "none"
    /\ Unmapped \in Entries
    /\ Scratch \in Spaces /\ Procs \in SUBSET Spaces
    /\ HeapStart + 2 \in 0 .. 2 * PageCount
<1>1. NoFrame \notin Frames
    BY MemAssumption DEF NoFrame
<1>2. /\ PageCount \in Nat /\ MmapTop \in Nat /\ ImageEnd \in Nat /\ MaxUmap \in Nat
      /\ ImageEnd < MmapTop /\ MmapTop < PageCount
    BY MemAssumption
<1>3. /\ 0 \in Pages /\ ImagePages \in SUBSET Pages /\ StackPages \in SUBSET Pages
      /\ HeapStart + 2 \in 0 .. 2 * PageCount /\ 0 \in 0 .. 2 * PageCount
    BY <1>2 DEF Pages, ImagePages, StackPages, HeapStart
<1>4. Scratch \in Spaces /\ Procs \in SUBSET Spaces
    BY DEF Spaces
<1>5. Idle \in CallType /\ Idle.frame = NoFrame /\ Idle.op = "none"
    BY <1>3, <1>4 DEF Idle, CallType, Ops
<1> QED BY <1>1, <1>3, <1>4, <1>5 DEF Entries

\* Boot: no frame is used and no space has a page table.
LEMMA InitInv == MemInit => MemInv
<1> SUFFICES ASSUME MemInit PROVE MemInv
    OBVIOUS
<1> USE Ranges
<1>1. MemType
    BY MemAssumption DEF MemInit, MemType
<1>2. UsedIsHeld
    BY DEF MemInit, UsedIsHeld, Held, Owns
<1>3. Apart
    BY DEF MemInit, Apart, RootsDiffer, TablesDiffer, PagesDiffer, RootsAreNoTables,
           RootsAreNoPages, TablesAreNoPages, InHand
<1>4. MappedIsOwned
    BY DEF MemInit, MappedIsOwned
<1> QED BY <1>1, <1>2, <1>3, <1>4 DEF MemInv

-----------------------------------------------------------------------------
(***************************************************************************)
(* What the actions do to the holders of frames, one lemma for each kind   *)
(* of change.                                                              *)
(***************************************************************************)
Holding == UsedIsHeld /\ Apart /\ MappedIsOwned

\* A free frame becomes the PML4 of a space without one.
LEMMA RootTaken ==
    ASSUME MemInv, NEW s \in Spaces, NEW f \in Frames, f \notin used,
           cr3[s] = NoFrame, cr3' = [cr3 EXCEPT ![s] = f], used' = used \cup {f},
           table' = table, umap' = umap, pte' = pte, call'.frame = call.frame
    PROVE  Holding'
<1> USE Ranges DEF MemInv, MemType
<1>0. ~Held(f)
    BY DEF UsedIsHeld
<1>1. UsedIsHeld'
    BY <1>0, ZenonT(30) DEF UsedIsHeld, Held, Owns
<1>2. RootsDiffer'
    BY <1>0 DEF Held, Owns, Apart, RootsDiffer
<1>6. (TablesDiffer /\ PagesDiffer)'
  <2>1. TablesDiffer'
      BY DEF Apart, TablesDiffer
  <2>2. PagesDiffer'
      BY DEF Apart, PagesDiffer
  <2> QED BY <2>1, <2>2
<1>3. (RootsAreNoTables /\ RootsAreNoPages)'
    BY <1>0, ZenonT(30) DEF Held, Owns, Apart, RootsAreNoTables, RootsAreNoPages
<1>4. (TablesAreNoPages /\ InHand)'
    BY <1>0 DEF Held, Owns, Apart, TablesAreNoPages, InHand
<1>5. MappedIsOwned'
    BY DEF MappedIsOwned
<1> QED BY <1>1, <1>2, <1>3, <1>4, <1>5, <1>6 DEF Holding, Apart

\* A free frame becomes a page table.
LEMMA TableTaken ==
    ASSUME MemInv, NEW s \in Spaces, NEW t \in TableIds, NEW f \in Frames, f \notin used,
           table[s][t] = NoFrame, table' = [table EXCEPT ![s][t] = f], used' = used \cup {f},
           cr3' = cr3, umap' = umap, pte' = pte, call'.frame = call.frame
    PROVE  Holding'
<1> USE Ranges DEF MemInv, MemType
<1>0. ~Held(f)
    BY DEF UsedIsHeld
<1>7. \A r \in Spaces, u \in TableIds : table'[r][u] = IF r = s /\ u = t THEN f ELSE table[r][u]
    OBVIOUS
<1>8. \A g \in Frames, r \in Spaces : Owns(r, g)' <=> Owns(r, g) \/ (r = s /\ g = f)
  <2> SUFFICES ASSUME NEW g \in Frames, NEW r \in Spaces
               PROVE  Owns(r, g)' <=> Owns(r, g) \/ (r = s /\ g = f)
      OBVIOUS
  <2>1. (\E u \in TableIds : table'[r][u] = g) <=>
            (\E u \in TableIds : table[r][u] = g) \/ (r = s /\ g = f)
      BY <1>7
  <2> QED BY <2>1, Zenon DEF Owns
<1>1. UsedIsHeld'
    BY <1>8 DEF UsedIsHeld, Held
<1>2. TablesDiffer'
    BY <1>0, <1>7 DEF Held, Owns, Apart, TablesDiffer
<1>6. (RootsDiffer /\ PagesDiffer)'
    BY Zenon DEF Apart, RootsDiffer, PagesDiffer
<1>3. (RootsAreNoTables /\ RootsAreNoPages)'
    BY <1>0 DEF Held, Owns, Apart, RootsAreNoTables, RootsAreNoPages
<1>4. (TablesAreNoPages /\ InHand)'
    BY <1>0, ZenonT(30) DEF Held, Owns, Apart, TablesAreNoPages, InHand
<1>5. MappedIsOwned'
    BY DEF MappedIsOwned
<1> QED BY <1>1, <1>2, <1>3, <1>4, <1>5, <1>6, Zenon DEF Holding, Apart

\* A free frame comes into the hands of the call.
LEMMA FrameTaken ==
    ASSUME MemInv, NEW f \in Frames, f \notin used, call.frame = NoFrame,
           call'.frame = f, used' = used \cup {f},
           cr3' = cr3, table' = table, umap' = umap, pte' = pte
    PROVE  Holding'
<1> USE Ranges DEF MemInv, MemType
<1>0. ~Held(f)
    BY DEF UsedIsHeld
<1>1. UsedIsHeld'
    BY <1>0, ZenonT(30) DEF UsedIsHeld, Held, Owns
<1>2. (RootsDiffer /\ TablesDiffer /\ PagesDiffer)'
    BY DEF Apart, RootsDiffer, TablesDiffer, PagesDiffer
<1>3. (RootsAreNoTables /\ RootsAreNoPages /\ TablesAreNoPages)'
    BY DEF Apart, RootsAreNoTables, RootsAreNoPages, TablesAreNoPages
<1>4. InHand'
    BY <1>0, Zenon DEF Held, Owns, InHand
<1>5. MappedIsOwned'
    BY DEF MappedIsOwned
<1> QED BY <1>1, <1>2, <1>3, <1>4, <1>5 DEF Holding, Apart

\* The frame in hand becomes a page.
LEMMA PageMade ==
    ASSUME MemInv, NEW s \in Spaces, NEW q \in Pages, NEW w \in BOOLEAN,
           call.frame \in Frames, call'.frame = NoFrame,
           umap' = [umap EXCEPT ![s] = @ \cup {<<q, call.frame>>}],
           pte' = [pte EXCEPT ![s][q] = [frame |-> call.frame, write |-> w]],
           used' = used, cr3' = cr3, table' = table
    PROVE  Holding'
<1> USE Ranges DEF MemInv, MemType
<1>1. UsedIsHeld'
    BY ZenonT(30) DEF UsedIsHeld, Held, Owns
<1>2. (RootsDiffer /\ TablesDiffer)'
    BY DEF Apart, RootsDiffer, TablesDiffer
<1>3. PagesDiffer'
  <2>1. \A r \in Spaces, p \in Pages, f \in Frames :
            <<p, f>> \in umap'[r] => \/ <<p, f>> \in umap[r]
                                     \/ r = s /\ p = q /\ f = call.frame
      BY Zenon
  <2> QED BY <2>1, SMTT(30), Z3T(30) DEF Apart, PagesDiffer, InHand
<1>4. (RootsAreNoTables /\ RootsAreNoPages)'
    BY DEF Apart, RootsAreNoTables, RootsAreNoPages, InHand
<1>5. (TablesAreNoPages /\ InHand)'
    BY Zenon DEF Apart, TablesAreNoPages, InHand
<1>6. MappedIsOwned'
    BY Zenon DEF MappedIsOwned
<1> QED BY <1>1, <1>2, <1>3, <1>4, <1>5, <1>6, SMTT(30) DEF Holding, Apart

\* The frame in hand, if any, is given back; leaf entries may be cleared.
LEMMA FrameDropped ==
    ASSUME MemInv, used' = used \ {call.frame}, call'.frame = NoFrame,
           cr3' = cr3, table' = table, umap' = umap,
           \A s \in Spaces, p \in Pages : pte'[s][p] = pte[s][p] \/ pte'[s][p] = Unmapped
    PROVE  Holding'
<1> USE Ranges DEF MemInv, MemType
<1>0. \A r \in Spaces, f \in Frames : /\ Owns(r, f)' <=> Owns(r, f)
                                      /\ Owns(r, f) => f # call.frame
    BY Zenon DEF Owns, Apart, InHand
<1>1. UsedIsHeld'
    BY <1>0 DEF UsedIsHeld, Held
<1>2. (RootsDiffer /\ TablesDiffer /\ PagesDiffer)'
    BY DEF Apart, RootsDiffer, TablesDiffer, PagesDiffer
<1>3. (RootsAreNoTables /\ RootsAreNoPages /\ TablesAreNoPages /\ InHand)'
    BY DEF Apart, RootsAreNoTables, RootsAreNoPages, TablesAreNoPages, InHand
<1>4. MappedIsOwned'
    BY DEF MappedIsOwned
<1> QED BY <1>1, <1>2, <1>3, <1>4, SMTT(30) DEF Holding, Apart

\* Nobody's frames change hands and no leaf entry changes.
LEMMA NothingDropped ==
    ASSUME MemInv, used' = used, call.frame = NoFrame, call'.frame = NoFrame,
           cr3' = cr3, table' = table, umap' = umap, pte' = pte
    PROVE  Holding'
<1>1. used' = used \ {call.frame}
    BY Ranges DEF MemInv, MemType
<1>2. \A s \in Spaces, p \in Pages : pte'[s][p] = pte[s][p] \/ pte'[s][p] = Unmapped
    BY Zenon
<1> QED BY <1>1, <1>2, FrameDropped, Zenon

\* Some pages of a space are given back and their leaf entries cleared.
LEMMA PagesReleased ==
    ASSUME MemInv, NEW s \in Spaces, NEW gone \in SUBSET umap[s],
           call.frame = NoFrame, call'.frame = NoFrame,
           used' = used \ {e[2] : e \in gone},
           umap' = [umap EXCEPT ![s] = @ \ gone],
           pte' = [pte EXCEPT ![s] = [q \in Pages |->
                      IF q \in {e[1] : e \in gone} THEN Unmapped ELSE pte[s][q]]],
           cr3' = cr3, table' = table
    PROVE  Holding'
<1> USE Ranges DEF MemInv, MemType
<1>0. \A f \in Frames : f \in {e[2] : e \in gone} <=> \E p \in Pages : <<p, f>> \in gone
  <2>1. \A e \in gone : e[1] \in Pages /\ e[2] \in Frames /\ e = <<e[1], e[2]>>
      OBVIOUS
  <2>3. ASSUME NEW f \in Frames, f \in {e[2] : e \in gone}
        PROVE  \E p \in Pages : <<p, f>> \in gone
    <3>1. PICK e \in gone : f = e[2]
        BY <2>3
    <3> QED BY <2>1, <3>1, Zenon
  <2>4. ASSUME NEW f \in Frames, NEW p \in Pages, <<p, f>> \in gone
        PROVE  f \in {e[2] : e \in gone}
      BY <2>4
  <2> QED BY <2>3, <2>4, Zenon
<1>1. UsedIsHeld'
  <2>1. ASSUME NEW f \in Frames, f \in used' PROVE Held(f)'
      BY <1>0, <2>1, Zenon DEF UsedIsHeld, Held, Owns
  <2>2. ASSUME NEW f \in Frames, Held(f)' PROVE f \in used'
    <3>1. f \in used
        BY <2>2, Zenon DEF UsedIsHeld, Held, Owns
    <3>2. ASSUME NEW p \in Pages, <<p, f>> \in gone PROVE FALSE
      <4>1. <<p, f>> \in umap[s]
          BY <3>2, Zenon
      <4>2. \A r \in Spaces : cr3'[r] # f /\ \A t \in TableIds : table'[r][t] # f
          BY <4>1 DEF Apart, RootsAreNoPages, TablesAreNoPages
      <4>3. PICK r \in Spaces, q \in Pages : <<q, f>> \in umap'[r]
          BY <2>2, <4>2, Zenon DEF Held, Owns
      <4>4. <<q, f>> \in umap[r]
          BY <4>3, Zenon
      <4>5. r = s /\ q = p
          BY <4>1, <4>4, Zenon DEF Apart, PagesDiffer
      <4> QED BY <3>2, <4>3, <4>5, Zenon
    <3> QED BY <1>0, <3>1, <3>2
  <2> QED BY <2>1, <2>2 DEF UsedIsHeld
<1>2. (RootsDiffer /\ TablesDiffer /\ PagesDiffer)'
    BY DEF Apart, RootsDiffer, TablesDiffer, PagesDiffer
<1>3. (RootsAreNoTables /\ RootsAreNoPages /\ TablesAreNoPages /\ InHand)'
    BY DEF Apart, RootsAreNoTables, RootsAreNoPages, TablesAreNoPages, InHand
<1>4. MappedIsOwned'
    BY DEF MappedIsOwned
<1> QED BY <1>1, <1>2, <1>3, <1>4 DEF Holding, Apart

\* Two spaces own no frame in common, and not the one in hand.
LEMMA OwnersDiffer ==
    ASSUME Apart, NEW f \in Frames, NEW r \in Spaces, NEW s \in Spaces, r # s, Owns(r, f)
    PROVE  ~Owns(s, f) /\ f # call.frame
<1>1. f # call.frame
    BY Zenon DEF Apart, InHand, Owns
<1>2. cr3[s] # f
    BY Zenon DEF Apart, RootsDiffer, RootsAreNoTables, RootsAreNoPages, Owns
<1>3. ASSUME NEW t \in TableIds PROVE table[s][t] # f
    BY Zenon DEF Apart, TablesDiffer, RootsAreNoTables, TablesAreNoPages, Owns
<1>4. ASSUME NEW p \in Pages PROVE <<p, f>> \notin umap[s]
  <2>1. CASE cr3[r] = f
      BY <2>1 DEF Apart, RootsAreNoPages
  <2>2. CASE \E t \in TableIds : table[r][t] = f
      BY <2>2 DEF Apart, TablesAreNoPages
  <2>3. CASE \E q \in Pages : <<q, f>> \in umap[r]
      BY <2>3 DEF Apart, PagesDiffer
  <2> QED BY <2>1, <2>2, <2>3 DEF Owns
<1> QED BY <1>1, <1>2, <1>3, <1>4, Zenon DEF Owns

\* process_destroy_user_space gives back what a space owns.
LEMMA ReleasedIsOwned ==
    ASSUME MemType, NEW s \in Spaces, NEW f \in Frames
    PROVE  f \in Released(s) <=> Owns(s, f)
<1>1. f \in UmapFrames(s) <=> \E p \in Pages : <<p, f>> \in umap[s]
  <2>1. \A e \in umap[s] : e[1] \in Pages /\ e[2] \in Frames /\ e = <<e[1], e[2]>>
      BY DEF MemType
  <2>2. ASSUME f \in UmapFrames(s) PROVE \E p \in Pages : <<p, f>> \in umap[s]
    <3>1. PICK e \in umap[s] : f = e[2]
        BY <2>2 DEF UmapFrames
    <3> QED BY <2>1, <3>1, Zenon
  <2>3. ASSUME NEW p \in Pages, <<p, f>> \in umap[s] PROVE f \in UmapFrames(s)
      BY <2>3 DEF UmapFrames
  <2> QED BY <2>2, <2>3, Zenon
<1>2. f \in TableFrames(s) <=> \E t \in TableIds : table[s][t] = f
    BY Ranges DEF TableFrames
<1> QED BY <1>1, <1>2, Zenon DEF Released, Owns

\* A space and the frame in hand, if any, are given back.
LEMMA SpaceReleased ==
    ASSUME MemInv, NEW s \in Spaces, call'.frame = NoFrame,
           used' = used \ (Released(s) \cup {call.frame}), Emptied(s)
    PROVE  Holding'
<1>0. NoFrame \notin Frames /\ MemType /\ UsedIsHeld /\ Apart /\ MappedIsOwned
    BY Ranges, Zenon DEF MemInv
<1>1. /\ \A r \in Spaces : cr3'[r] = IF r = s THEN NoFrame ELSE cr3[r]
      /\ \A r \in Spaces, t \in TableIds : table'[r][t] = IF r = s THEN NoFrame ELSE table[r][t]
      /\ \A r \in Spaces, p \in Pages : pte'[r][p] = IF r = s THEN Unmapped ELSE pte[r][p]
      /\ \A r \in Spaces : umap'[r] = IF r = s THEN {} ELSE umap[r]
    BY <1>0 DEF Emptied, MemType
<1>2. \A f \in Frames, r \in Spaces : Owns(r, f)' <=> r # s /\ Owns(r, f)
  <2> SUFFICES ASSUME NEW f \in Frames, NEW r \in Spaces
               PROVE  Owns(r, f)' <=> r # s /\ Owns(r, f)
      OBVIOUS
  <2>1. CASE r = s
      BY <1>0, <1>1, <2>1, ZenonT(30) DEF Owns
  <2>2. CASE r # s
      BY <1>1, <2>2, Zenon DEF Owns
  <2> QED BY <2>1, <2>2
<1>3. UsedIsHeld'
  <2>1. ASSUME NEW f \in Frames, f \in used' PROVE Held(f)'
    <3>1. f \in used /\ f # call.frame /\ ~Owns(s, f)
        BY <1>0, <2>1, ReleasedIsOwned, Zenon
    <3> QED BY <1>0, <1>2, <3>1 DEF UsedIsHeld, Held
  <2>2. ASSUME NEW f \in Frames, Held(f)' PROVE f \in used'
    <3>1. PICK r \in Spaces : r # s /\ Owns(r, f)
        BY <1>0, <1>2, <2>2, Zenon DEF Held
    <3>2. f \notin Released(s) /\ f # call.frame
        BY <1>0, <3>1, OwnersDiffer, ReleasedIsOwned, Zenon
    <3> QED BY <1>0, <3>1, <3>2 DEF UsedIsHeld, Held
  <2> QED BY <2>1, <2>2 DEF UsedIsHeld
<1>4. RootsDiffer' /\ TablesDiffer'
    BY <1>0, <1>1, SMTT(30) DEF Apart, RootsDiffer, TablesDiffer
<1>5. PagesDiffer'
    BY <1>0, <1>1, SMTT(30) DEF Apart, PagesDiffer
<1>6. RootsAreNoTables' /\ RootsAreNoPages'
    BY <1>0, <1>1, SMTT(30) DEF Apart, RootsAreNoTables, RootsAreNoPages
<1>7. TablesAreNoPages' /\ InHand'
    BY <1>0, <1>1, SMTT(30) DEF Apart, TablesAreNoPages, InHand
<1>8. MappedIsOwned'
    BY <1>0, <1>1 DEF MappedIsOwned
<1> QED BY <1>3, <1>4, <1>5, <1>6, <1>7, <1>8 DEF Holding, Apart

\* execve: a process's space is given back and the scratch one takes its place.
LEMMA SpaceSwapped ==
    ASSUME MemInv, ExecDone
    PROVE  Holding'
<1> DEFINE p == call.proc
<1>0. /\ NoFrame \notin Frames /\ MemType /\ UsedIsHeld /\ Apart /\ MappedIsOwned
      /\ p \in Spaces /\ Scratch \in Spaces
      /\ call.frame = NoFrame /\ call'.frame = NoFrame
    BY Ranges, Zenon DEF MemInv, MemType, ExecDone, AllMapped, CallType
<1>1. /\ \A r \in Spaces : cr3'[r] = IF r = Scratch THEN NoFrame
                                        ELSE IF r = p THEN cr3[Scratch] ELSE cr3[r]
      /\ \A r \in Spaces, t \in TableIds :
             table'[r][t] = IF r = Scratch THEN NoFrame
                            ELSE IF r = p THEN table[Scratch][t] ELSE table[r][t]
      /\ \A r \in Spaces, q \in Pages :
             pte'[r][q] = IF r = Scratch THEN Unmapped
                          ELSE IF r = p THEN pte[Scratch][q] ELSE pte[r][q]
      /\ \A r \in Spaces : umap'[r] = IF r = Scratch THEN {}
                                        ELSE IF r = p THEN umap[Scratch] ELSE umap[r]
      /\ used' = used \ Released(p)
    BY <1>0, Zenon DEF ExecDone, MemType
<1> HIDE DEF p
<1>2. \A f \in Frames, r \in Spaces :
          Owns(r, f)' <=> r # Scratch /\ IF r = p THEN Owns(Scratch, f) ELSE Owns(r, f)
  <2> SUFFICES ASSUME NEW f \in Frames, NEW r \in Spaces
               PROVE  Owns(r, f)' <=> r # Scratch /\ IF r = p THEN Owns(Scratch, f) ELSE Owns(r, f)
      OBVIOUS
  <2>1. CASE r = Scratch
      BY <1>0, <1>1, <2>1, ZenonT(30) DEF Owns
  <2>2. CASE r # Scratch /\ r = p
      BY <1>1, <2>2, Zenon DEF Owns
  <2>3. CASE r # Scratch /\ r # p
      BY <1>1, <2>3, Zenon DEF Owns
  <2> QED BY <2>1, <2>2, <2>3
<1>3. UsedIsHeld'
  <2>1. ASSUME NEW f \in Frames, f \in used' PROVE Held(f)'
    <3>1. f \in used /\ ~Owns(p, f)
        BY <1>0, <1>1, <2>1, ReleasedIsOwned
    <3>2. PICK r \in Spaces : r # p /\ Owns(r, f)
        BY <1>0, <3>1 DEF UsedIsHeld, Held
    <3>3. PICK o \in Spaces : o = IF r = Scratch THEN p ELSE r
        BY <1>0
    <3>4. Owns(o, f)'
        BY <1>0, <1>2, <3>2, <3>3, Zenon
    <3> QED BY <3>4 DEF Held
  <2>2. ASSUME NEW f \in Frames, Held(f)' PROVE f \in used'
    <3>1. PICK r \in Spaces : Owns(r, f)'
        BY <1>0, <2>2, Zenon DEF Held
    <3>2. PICK o \in Spaces : o # p /\ Owns(o, f)
        BY <1>0, <1>2, <3>1, Zenon
    <3>3. f \notin Released(p)
        BY <1>0, <3>2, OwnersDiffer, ReleasedIsOwned, Zenon
    <3> QED BY <1>0, <1>1, <3>2, <3>3, Zenon DEF UsedIsHeld, Held
  <2> QED BY <2>1, <2>2 DEF UsedIsHeld
<1>4. RootsDiffer' /\ TablesDiffer'
    BY <1>0, <1>1, SMTT(30) DEF Apart, RootsDiffer, TablesDiffer
<1>5. PagesDiffer'
    BY <1>0, <1>1, SMTT(30) DEF Apart, PagesDiffer
<1>6. RootsAreNoTables' /\ RootsAreNoPages'
    BY <1>0, <1>1, SMTT(30) DEF Apart, RootsAreNoTables, RootsAreNoPages
<1>7. TablesAreNoPages' /\ InHand'
    BY <1>0, <1>1, SMTT(30) DEF Apart, TablesAreNoPages, InHand
<1>8. MappedIsOwned'
    BY <1>0, <1>1 DEF MappedIsOwned
<1> QED BY <1>3, <1>4, <1>5, <1>6, <1>7, <1>8, Zenon DEF Holding, Apart

-----------------------------------------------------------------------------
(***************************************************************************)
(* Every step keeps the types.                                             *)
(***************************************************************************)
\* A call as its start leaves it, with pages of the user half to map.
CallOK(c) ==
    /\ c \in CallType /\ c.frame = NoFrame
    /\ c.op \in {"spawn", "fork"} => c.into \in Procs

\* What elf_load_into_process, brk and mmap set out to map.
LEMMA ItemsAreTodo ==
    ASSUME NEW pages \in SUBSET Pages, NEW write \in BOOLEAN
    PROVE  Items(pages, write) \in SUBSET Todo
    BY DEF Items, Todo

\* An item names a page and its permission; fork's also the frame to copy.
LEMMA TodoTypes ==
    ASSUME NEW item \in Todo
    PROVE  item[1] \in Pages /\ item[2] \in BOOLEAN /\ item[3] \in Frames \cup {NoFrame}
    BY DEF Todo

\* The start of spawn, fork and execve: a PML4 is taken.
LEMMA NewSpaceInv ==
    ASSUME MemInv, calls' \in 0 .. MaxCalls, NEW s \in Spaces, NEW c, CallOK(c), NewSpace(s, c)
    PROVE  MemInv'
<1>1. PICK f \in Frames : /\ f \notin used
                          /\ used' = used \cup {f} /\ cr3' = [cr3 EXCEPT ![s] = f]
    BY Zenon DEF NewSpace, NextFrame
<1>2. /\ table' = table /\ umap' = umap /\ pte' = pte /\ brk' = brk /\ live' = live
      /\ call' = c /\ call.frame = NoFrame /\ cr3[s] = NoFrame
    BY Ranges DEF NewSpace
<1>3. Holding'
    BY <1>1, <1>2, RootTaken, Zenon DEF CallOK
<1>4. MemType'
    BY <1>1, <1>2 DEF MemInv, MemType, CallOK
<1> QED BY <1>3, <1>4, SMTT(30) DEF Holding, MemInv

\* The start of brk and mmap takes nothing yet.
LEMMA BeginInv ==
    ASSUME MemInv, calls' \in 0 .. MaxCalls, NEW c, CallOK(c), Begin(c)
    PROVE  MemInv'
<1>1. /\ used' = used /\ cr3' = cr3 /\ table' = table /\ umap' = umap /\ pte' = pte
      /\ brk' = brk /\ live' = live /\ call' = c /\ call.frame = NoFrame
    BY Ranges, SMTT(30) DEF Begin
<1>3. Holding'
    BY <1>1, NothingDropped, Zenon DEF CallOK
<1>4. MemType'
    BY <1>1, SMTT(30) DEF MemInv, MemType, CallOK
<1> QED BY <1>3, <1>4, Zenon DEF Holding, MemInv

\* pmm_alloc_frame for the next page of a call.
LEMMA TakeFrameInv == ASSUME MemInv, calls' \in 0 .. MaxCalls, TakeFrame PROVE MemInv'
<1>1. PICK item \in call.todo, f \in Frames :
          /\ f \notin used /\ used' = used \cup {f}
          /\ call' = [call EXCEPT !.frame = f, !.page = item[1], !.write = item[2],
                                  !.from = item[3], !.todo = @ \ {item}]
    BY Zenon DEF TakeFrame, NextFrame
<1>2. /\ call \in CallType /\ item[1] \in Pages /\ item[2] \in BOOLEAN
      /\ item[3] \in Frames \cup {NoFrame}
    BY TodoTypes DEF CallType, MemInv, MemType
<1>3. /\ call' \in CallType /\ call'.op = call.op /\ call'.into = call.into
      /\ call'.frame = f
    BY <1>1, <1>2, Zenon DEF CallType
<1>4. /\ cr3' = cr3 /\ table' = table /\ umap' = umap /\ pte' = pte
      /\ brk' = brk /\ live' = live /\ call.frame = NoFrame
    BY DEF TakeFrame
<1>5. Holding'
    BY <1>1, <1>3, <1>4, FrameTaken
<1>6. MemType'
    BY <1>1, <1>3, <1>4 DEF MemInv, MemType
<1> QED BY <1>5, <1>6, SMTT(30) DEF Holding, MemInv

\* walk_or_create takes a table.
LEMMA TakeTableInv == ASSUME MemInv, calls' \in 0 .. MaxCalls, TakeTable PROVE MemInv'
<1>1. call \in CallType /\ call.into \in Spaces /\ call.page \in Pages
    BY DEF CallType, MemInv, MemType
<1>2. PICK i \in Missing(call.into, call.page), f \in Frames :
          /\ f \notin used /\ used' = used \cup {f}
          /\ table' = [table EXCEPT ![call.into][TablePath[call.page][i]] = f]
    BY Zenon DEF TakeTable, NextFrame
<1>3. TablePath[call.page][i] \in TableIds
    BY <1>1, MemAssumption, SMTT(30) DEF Missing
<1>4. table[call.into][TablePath[call.page][i]] = NoFrame
    BY DEF Missing
<1>5. /\ cr3' = cr3 /\ umap' = umap /\ pte' = pte /\ brk' = brk /\ live' = live
      /\ call' = call
    BY SMTT(30) DEF TakeTable
<1>6. Holding'
    BY <1>1, <1>2, <1>3, <1>4, <1>5, TableTaken, Zenon
<1>7. MemType'
    BY <1>1, <1>2, <1>3, <1>5 DEF MemInv, MemType
<1> QED BY <1>6, <1>7, Zenon DEF Holding, MemInv

\* vmm_map_page writes the leaf entry and umap records the page.
LEMMA MapPageInv == ASSUME MemInv, calls' \in 0 .. MaxCalls, MapPage PROVE MemInv'
<1>1. /\ call \in CallType /\ call.into \in Spaces /\ call.page \in Pages
      /\ call.write \in BOOLEAN /\ call.frame \in Frames
    BY DEF CallType, MemInv, MemType, MapPage
<1>2. /\ pte' = [pte EXCEPT ![call.into][call.page] = [frame |-> call.frame, write |-> call.write]]
      /\ umap' = [umap EXCEPT ![call.into] = @ \cup {<<call.page, call.frame>>}]
      /\ used' = used /\ cr3' = cr3 /\ table' = table /\ brk' = brk /\ live' = live
    BY DEF MapPage
<1>3. /\ call' \in CallType /\ call'.frame = NoFrame
      /\ call'.op = call.op /\ call'.into = call.into
    BY <1>1, Zenon DEF MapPage, CallType
<1>4. Holding'
    BY <1>1, <1>2, <1>3, PageMade, ZenonT(30)
<1>5. MemType'
  <2>1. pte' \in [Spaces -> [Pages -> Entries]]
      BY <1>1, <1>2, Zenon DEF MemInv, MemType, Entries
  <2>2. umap' \in [Spaces -> SUBSET (Pages \X Frames)]
      BY <1>1, <1>2, SMTT(30) DEF MemInv, MemType
  <2> QED BY <1>2, <1>3, <2>1, <2>2, Zenon DEF MemInv, MemType
<1> QED BY <1>4, <1>5 DEF Holding, MemInv

\* A space torn down keeps its types.
LEMMA EmptiedType ==
    ASSUME MemType, NEW s \in Spaces, Emptied(s)
    PROVE  /\ cr3' \in [Spaces -> Frames \cup {NoFrame}]
           /\ table' \in [Spaces -> [TableIds -> Frames \cup {NoFrame}]]
           /\ pte' \in [Spaces -> [Pages -> Entries]]
           /\ umap' \in [Spaces -> SUBSET (Pages \X Frames)]
    BY Ranges, Zenon DEF MemType, Emptied

\* A call that ran out gives back what it must.
LEMMA FailInv == ASSUME MemInv, calls' \in 0 .. MaxCalls, Fail PROVE MemInv'
<1>1. /\ call \in CallType /\ call.into \in Spaces /\ MemType
      /\ call' \in CallType /\ call'.frame = NoFrame /\ call'.op = "none"
      /\ brk' = brk /\ live' = live
    BY Ranges, Zenon DEF CallType, MemInv, MemType, Fail
<1>2. CASE /\ call.op \in {"spawn", "fork", "exec"}
           /\ used' = used \ (Released(call.into) \cup {call.frame})
           /\ Emptied(call.into)
  <2>1. Holding'
      BY <1>1, <1>2, SpaceReleased, Zenon
  <2>2. MemType'
      BY <1>1, <1>2, EmptiedType, Zenon DEF MemType
  <2> QED BY <2>1, <2>2 DEF Holding, MemInv
<1>3. CASE UndoMap
  <2>1. \A s \in Spaces, p \in Pages : pte'[s][p] = pte[s][p] \/ pte'[s][p] = Unmapped
      BY <1>1, <1>3, Zenon DEF UndoMap, MemType
  <2>2. Holding'
      BY <1>1, <1>3, <2>1, FrameDropped, Zenon DEF UndoMap
  <2>3. pte' \in [Spaces -> [Pages -> Entries]]
      BY <1>1, <1>3, Ranges, Zenon DEF UndoMap, MemType
  <2>4. MemType'
      BY <1>1, <1>3, <2>3, Zenon DEF UndoMap, MemType
  <2> QED BY <2>2, <2>4 DEF Holding, MemInv
<1>4. CASE used' = used \ {call.frame} /\ UNCHANGED <<cr3, table, pte, umap>>
  <2>1. Holding'
      BY <1>1, <1>4, FrameDropped, Zenon
  <2>2. MemType'
      BY <1>1, <1>4, Zenon DEF MemType
  <2> QED BY <2>1, <2>2 DEF Holding, MemInv
<1> QED BY <1>2, <1>3, <1>4, Zenon DEF Fail, Undo

\* A break stays in the user half.
LEMMA BreakRange ==
    ASSUME MemType, call \in CallType
    PROVE  /\ \A s, r \in Spaces : [brk EXCEPT ![s] = brk[r]] \in [Spaces -> 0 .. 2 * PageCount]
           /\ \A s \in Spaces, b \in 0 .. 2 * PageCount :
                  [brk EXCEPT ![s] = b] \in [Spaces -> 0 .. 2 * PageCount]
    BY DEF MemType

\* A call that got all its frames changes who owns them only in execve.
LEMMA DoneInv == ASSUME MemInv, calls' \in 0 .. MaxCalls, Done PROVE MemInv'
<1>1. /\ call \in CallType /\ call.into \in Spaces /\ call.proc \in Spaces
      /\ call.brk \in 0 .. 2 * PageCount /\ MemType
    BY Zenon DEF CallType, MemInv, MemType
<1>2. /\ call' \in CallType /\ call'.frame = NoFrame /\ call'.op = "none"
      /\ call.frame = NoFrame
    BY Ranges DEF Done, SpawnDone, ForkDone, ExecDone, BrkDone, MapDone, AllMapped
<1>3. CASE ExecDone
  <2>1. Holding'
      BY <1>3, SpaceSwapped, SMTT(30)
  <2>2. /\ cr3' \in [Spaces -> Frames \cup {NoFrame}]
        /\ table' \in [Spaces -> [TableIds -> Frames \cup {NoFrame}]]
      BY <1>1, <1>3, Ranges, Zenon DEF ExecDone, MemType
  <2>3. /\ pte' \in [Spaces -> [Pages -> Entries]]
        /\ umap' \in [Spaces -> SUBSET (Pages \X Frames)]
      BY <1>1, <1>3, Ranges, ZenonT(30) DEF ExecDone, MemType
  <2>4. brk' \in [Spaces -> 0 .. 2 * PageCount] /\ used' \in SUBSET Frames /\ live' = live
      BY <1>1, <1>3, Ranges, Zenon DEF ExecDone, MemType
  <2>5. MemType'
      BY <1>1, <1>2, <2>2, <2>3, <2>4, Zenon DEF MemType
  <2> QED BY <2>1, <2>5 DEF Holding, MemInv
<1>4. CASE SpawnDone \/ ForkDone \/ BrkDone \/ MapDone
  <2>1. /\ used' = used /\ cr3' = cr3 /\ table' = table /\ umap' = umap /\ pte' = pte
        /\ \/ live' = live
           \/ call.op \in {"spawn", "fork"} /\ live' = live \cup {call.into}
      BY <1>4, SMTT(30) DEF SpawnDone, ForkDone, BrkDone, MapDone
  <2>2. \/ brk' = brk
        \/ brk' = [brk EXCEPT ![call.into] = HeapStart + 2]
        \/ brk' = [brk EXCEPT ![call.into] = brk[call.proc]]
        \/ brk' = [brk EXCEPT ![call.into] = call.brk]
      BY <1>4, Zenon DEF SpawnDone, ForkDone, BrkDone, MapDone
  <2>4. Holding'
      BY <1>2, <2>1, NothingDropped, Zenon
  <2>5. brk' \in [Spaces -> 0 .. 2 * PageCount]
    <3>1. \A v \in 0 .. 2 * PageCount :
              [brk EXCEPT ![call.into] = v] \in [Spaces -> 0 .. 2 * PageCount]
        BY <1>1, BreakRange, Zenon
    <3>2. [brk EXCEPT ![call.into] = brk[call.proc]] \in [Spaces -> 0 .. 2 * PageCount]
        BY <1>1, BreakRange, Zenon
    <3>3. HeapStart + 2 \in 0 .. 2 * PageCount /\ brk \in [Spaces -> 0 .. 2 * PageCount]
        BY <1>1, Ranges, Zenon DEF MemType
    <3> QED BY <1>1, <2>2, <3>1, <3>2, <3>3, Zenon
  <2>6. live' \in SUBSET Procs
      BY <1>1, <2>1, Zenon DEF MemType
  <2>7. MemType'
      BY <1>1, <1>2, <2>1, <2>5, <2>6, Zenon DEF MemType
  <2> QED BY <2>4, <2>7 DEF Holding, MemInv
<1> QED BY <1>3, <1>4, Zenon DEF Done

\* Giving back pages of one space, between calls.
LEMMA ReleaseInv ==
    ASSUME MemInv, calls' \in 0 .. MaxCalls, NEW s \in Spaces, NEW gone \in SUBSET umap[s],
           call = Idle, call' = call,
           used' = used \ {e[2] : e \in gone},
           umap' = [umap EXCEPT ![s] = @ \ gone],
           pte' = [pte EXCEPT ![s] = [q \in Pages |->
                      IF q \in {e[1] : e \in gone} THEN Unmapped ELSE pte[s][q]]],
           cr3' = cr3, table' = table,
           brk' \in [Spaces -> 0 .. 2 * PageCount], live' \in SUBSET Procs
    PROVE  MemInv'
<1>1. Holding'
    BY PagesReleased, Ranges, Zenon
<1>2. MemType'
  <2>1. pte' \in [Spaces -> [Pages -> Entries]]
      BY Ranges, Zenon DEF MemInv, MemType
  <2>2. umap' \in [Spaces -> SUBSET (Pages \X Frames)]
      BY Zenon DEF MemInv, MemType
  <2> QED BY <2>1, <2>2, Ranges, Zenon DEF MemInv, MemType
<1> QED BY <1>1, <1>2, Zenon DEF Holding, MemInv

\* spawn, fork and execve start with a well-formed call.
LEMMA NewSpacesInv ==
    ASSUME MemInv, calls' \in 0 .. MaxCalls, NEW p \in Procs,
           Spawn(p) \/ Exec(p) \/ \E c \in Procs : Fork(p, c)
    PROVE  MemInv'
<1>1. /\ p \in Spaces /\ Scratch \in Spaces /\ MemType /\ Procs \subseteq Spaces
      /\ 0 \in 0 .. 2 * PageCount
    BY Ranges, MemAssumption, SMTT(30) DEF MemInv
<1>2. Program \in SUBSET Todo
    BY Ranges, ItemsAreTodo, Zenon DEF Program
<1>3. CASE Spawn(p)
  <2> DEFINE c == [Idle EXCEPT !.op = "spawn", !.proc = p, !.into = p, !.todo = Program]
  <2>2. CallOK(c)
      BY <1>1, <1>2, Ranges, Zenon DEF CallOK, CallType, Idle, Ops
  <2> QED BY <1>1, <1>3, <2>2, NewSpaceInv DEF Spawn
<1>4. CASE Exec(p)
  <2> DEFINE c == [Idle EXCEPT !.op = "exec", !.proc = p, !.todo = Program]
  <2>2. CallOK(c)
      BY <1>1, <1>2, Ranges, ZenonT(30) DEF CallOK, CallType, Idle, Ops
  <2> QED BY <1>1, <1>4, <2>2, NewSpaceInv, Zenon DEF Exec
<1>5. ASSUME NEW k \in Procs, Fork(p, k) PROVE MemInv'
  <2> DEFINE todo == {<<e[1], pte[p][e[1]].write, e[2]>> : e \in umap[p]}
             c == [Idle EXCEPT !.op = "fork", !.proc = p, !.into = k, !.todo = todo]
  <2>1. todo \in SUBSET Todo
    <3>1. \A e \in umap[p] : e[1] \in Pages /\ e[2] \in Frames
        BY <1>1 DEF MemType
    <3>2. \A x \in Entries : x.write \in BOOLEAN
      <4>1. Unmapped.write \in BOOLEAN
          BY Zenon DEF Unmapped
      <4> QED BY <4>1, Zenon DEF Entries
    <3>3. \A q \in Pages : pte[p][q].write \in BOOLEAN
        BY <1>1, <3>2 DEF MemType
    <3> QED BY <3>1, <3>3, SMTT(30) DEF Todo
  <2> HIDE DEF todo
  <2>3. CallOK(c)
      BY <1>1, <2>1, Ranges, Zenon DEF CallOK, CallType, Idle, Ops
  <2> QED BY <1>1, <1>5, <2>3, NewSpaceInv, Zenon DEF Fork, todo
<1> QED BY <1>3, <1>4, <1>5, Zenon

\* Pages of the user half a process has not mapped.
Clear(p, window) == \A q \in window : q \in Pages /\ pte[p][q] = Unmapped

\* The window mmap is asked for is clear.
LEMMA RangeIsClear ==
    ASSUME NEW p, NEW base, NEW n, um_range_clear(p, base, n)
    PROVE  Clear(p, base .. base + n - 1)
    BY Zenon DEF um_range_clear, Clear

\* A window mmap reserves is clear, or empty where the search wrapped.
LEMMA ReservedIsClear ==
    ASSUME NEW p, NEW n, NEW window \in um_mmap_reserve(p, n)
    PROVE  Clear(p, window)
<1>1. CASE window = {}
    BY <1>1, Zenon DEF Clear
<1>2. CASE window # {}
  <2>1. PICK b \in Pages : um_range_clear(p, b, n) /\ window = b .. b + n - 1
      BY <1>2, Zenon DEF um_mmap_reserve
  <2> QED BY <2>1, RangeIsClear, Zenon
<1> QED BY <1>1, <1>2, Zenon

\* brk growth and mmap start with pages of the user half only.
LEMMA GrowsInv ==
    ASSUME MemInv, calls' \in 0 .. MaxCalls, NEW p \in Procs,
           \/ \E new \in BrkArgs : BrkGrow(p, new)
           \/ \E n \in Lengths, write \in BOOLEAN : sys_mmap(p, n, write)
           \/ \E n \in Lengths, base \in MapArgs : sys_mmap_fixed(p, base, n, TRUE)
    PROVE  MemInv'
<1>1. /\ p \in Spaces /\ MemType /\ 0 \in 0 .. 2 * PageCount
    BY Ranges, MemAssumption, SMTT(30) DEF MemInv
<1>2. ASSUME NEW new \in BrkArgs, BrkGrow(p, new) PROVE MemInv'
  <2> DEFINE todo == Items(GrowPages(brk[p], new), TRUE)
             c == [Idle EXCEPT !.op = "brk", !.proc = p, !.into = p, !.brk = new, !.todo = todo]
  <2>1. /\ new \in 0 .. 2 * PageCount /\ brk[p] \in 0 .. 2 * PageCount /\ PageCount \in Nat
      BY <1>1, MemAssumption, Zenon DEF MemType
  <2>2. \A a \in brk[p] .. new - 1 : PageOf(a) \in Pages
      BY <2>1, SMTT(30) DEF PageOf, Pages
  <2>3. GrowPages(brk[p], new) \in SUBSET Pages
      BY <2>1, <2>2, SMTT(30) DEF GrowPages
  <2>4. todo \in SUBSET Todo
      BY <2>3, ItemsAreTodo, Zenon
  <2> HIDE DEF todo
  <2>6. CallOK(c)
      BY <1>1, <2>1, <2>4, Ranges, ZenonT(30) DEF CallOK, CallType, Idle, Ops
  <2> QED BY <1>2, <2>6, BeginInv, ZenonT(30) DEF BrkGrow, todo
<1>3. ASSUME NEW window, NEW write \in BOOLEAN, Clear(p, window), Map(p, window, write)
      PROVE  MemInv'
  <2> DEFINE todo == Items(window, write)
             c == [Idle EXCEPT !.op = "mmap", !.proc = p, !.into = p, !.todo = todo]
  <2>1. window \in SUBSET Pages
      BY <1>3 DEF Clear
  <2>2. todo \in SUBSET Todo
      BY <2>1, ItemsAreTodo, Zenon
  <2> HIDE DEF todo
  <2>4. CallOK(c)
      BY <1>1, <2>2, Ranges, ZenonT(30) DEF CallOK, CallType, Idle, Ops
  <2> QED BY <1>3, <2>4, BeginInv DEF Map, todo
<1>4. ASSUME NEW n \in Lengths, NEW write \in BOOLEAN, sys_mmap(p, n, write) PROVE MemInv'
    BY <1>3, <1>4, ReservedIsClear, Zenon DEF sys_mmap
<1>5. ASSUME NEW n \in Lengths, NEW base \in MapArgs, sys_mmap_fixed(p, base, n, TRUE)
      PROVE  MemInv'
    BY <1>3, <1>5, RangeIsClear, Zenon DEF sys_mmap_fixed
<1> QED BY <1>2, <1>4, <1>5, Zenon

\* process_exit_current, brk shrinking and munmap give pages back.
LEMMA ReleasesInv ==
    ASSUME MemInv, calls' \in 0 .. MaxCalls, NEW p \in Procs,
           \/ Exit(p)
           \/ \E new \in BrkArgs : BrkShrink(p, new)
           \/ \E from \in UnmapArgs, n \in Lengths : sys_munmap(p, from, n)
    PROVE  MemInv'
<1>1. /\ p \in Spaces /\ MemType /\ brk \in [Spaces -> 0 .. 2 * PageCount]
      /\ live \in SUBSET Procs
    BY Ranges, Zenon DEF MemInv, MemType
<1>2. CASE Exit(p)
  <2>1. /\ call = Idle /\ call' = call /\ used' = used \ {e[2] : e \in umap[p]}
        /\ pte' = [pte EXCEPT ![p] = [q \in Pages |->
                      IF q \in {e[1] : e \in umap[p]} THEN Unmapped ELSE pte[p][q]]]
        /\ cr3' = cr3 /\ table' = table /\ brk' = brk /\ live' = live \ {p}
        /\ umap' = [umap EXCEPT ![p] = {}]
      BY <1>2, Zenon DEF Exit, UmapFrames
  <2>2. umap[p] \ umap[p] = {} /\ umap[p] \in SUBSET umap[p]
      BY Zenon
  <2>3. live' \in SUBSET Procs
      BY <1>1, <2>1, Zenon
  <2> QED BY <1>1, <2>1, <2>2, <2>3, ReleaseInv, Zenon
<1>3. ASSUME NEW from, um_release_from(p, from), call = Idle, call' = call,
             cr3' = cr3, table' = table, live' = live,
             brk' \in [Spaces -> 0 .. 2 * PageCount]
      PROVE  MemInv'
  <2> DEFINE gone == {e \in umap[p] : e[1] >= from /\ e[1] < MmapTop}
  <2>1. gone \in SUBSET umap[p]
      BY SMTT(30)
  <2>2. /\ used' = used \ {e[2] : e \in gone}
        /\ umap' = [umap EXCEPT ![p] = @ \ gone]
        /\ pte' = [pte EXCEPT ![p] = [q \in Pages |->
                      IF q \in {e[1] : e \in gone} THEN Unmapped ELSE pte[p][q]]]
      BY <1>3, Zenon DEF um_release_from
  <2> HIDE DEF gone
  <2> QED BY <1>1, <1>3, <2>1, <2>2, ReleaseInv, Zenon
<1>4. ASSUME NEW new \in BrkArgs, BrkShrink(p, new) PROVE MemInv'
  <2>1. brk' \in [Spaces -> 0 .. 2 * PageCount]
      BY <1>1, <1>4, MemAssumption, Zenon DEF BrkShrink
  <2> QED BY <1>3, <1>4, <2>1, Zenon DEF BrkShrink
<1>5. ASSUME NEW from \in UnmapArgs, NEW n \in Lengths, sys_munmap(p, from, n) PROVE MemInv'
    BY <1>1, <1>3, <1>5 DEF sys_munmap
<1> QED BY <1>2, <1>4, <1>5

\* process_destroy gives back a zombie's space.
LEMMA DestroyInv ==
    ASSUME MemInv, calls' \in 0 .. MaxCalls, NEW p \in Procs, Destroy(p) PROVE MemInv'
<1>1. /\ p \in Spaces /\ MemType /\ call.frame = NoFrame /\ call' = call
      /\ brk' = brk /\ live' = live /\ Emptied(p) /\ used' = used \ Released(p)
    BY Ranges, Zenon DEF Destroy, MemInv
<1>2. used' = used \ (Released(p) \cup {call.frame})
    BY <1>1, Ranges, SMTT(30) DEF MemType
<1>3. Holding'
    BY <1>1, <1>2, SpaceReleased, ZenonT(30)
<1>4. MemType'
    BY <1>1, EmptiedType DEF MemType
<1> QED BY <1>3, <1>4, Zenon DEF Holding, MemInv

-----------------------------------------------------------------------------
\* The invariant is inductive.
LEMMA MemInvKept == MemInv /\ [MemNext]_vars => MemInv'
<1> SUFFICES ASSUME MemInv, [MemNext]_vars PROVE MemInv'
    OBVIOUS
<1>1. CASE UNCHANGED vars
  <2>1. /\ used' = used /\ cr3' = cr3 /\ table' = table /\ umap' = umap /\ pte' = pte
        /\ brk' = brk /\ live' = live /\ call' = call /\ calls' = calls
      BY <1>1, SMTT(30) DEF vars
  <2>2. MemType' /\ MappedIsOwned'
      BY <2>1, Zenon DEF MemInv, MemType, MappedIsOwned
  <2>3. UsedIsHeld'
      BY <2>1, Zenon DEF MemInv, UsedIsHeld, Held, Owns
  <2>4. (RootsDiffer /\ TablesDiffer)'
      BY <2>1 DEF MemInv, Apart, RootsDiffer, TablesDiffer
  <2>6. PagesDiffer'
      BY <2>1, Zenon DEF MemInv, Apart, PagesDiffer
  <2>5. (RootsAreNoTables /\ RootsAreNoPages /\ TablesAreNoPages /\ InHand)'
      BY <2>1, Zenon DEF MemInv, Apart, RootsAreNoTables, RootsAreNoPages, TablesAreNoPages, InHand
  <2> QED BY <2>2, <2>3, <2>4, <2>5, <2>6, Zenon DEF MemInv, Apart
<1>2. CASE (Step \/ Done) /\ UNCHANGED calls
  <2>1. calls' \in 0 .. MaxCalls
      BY <1>2, SMTT(30) DEF MemInv, MemType
  <2> QED BY <1>2, <2>1, TakeFrameInv, TakeTableInv, MapPageInv, FailInv, DoneInv, Zenon DEF Step
<1>3. ASSUME calls < MaxCalls, calls' = calls + 1, NEW p \in Procs, Start(p) PROVE MemInv'
  <2>1. calls' \in 0 .. MaxCalls
      BY <1>3, MemAssumption DEF MemInv, MemType
  <2>2. CASE Spawn(p) \/ Exec(p) \/ \E c \in Procs : Fork(p, c)
      BY <2>1, <2>2, NewSpacesInv, Zenon
  <2>3. CASE \/ \E new \in BrkArgs : BrkGrow(p, new)
             \/ \E n \in Lengths, write \in BOOLEAN : sys_mmap(p, n, write)
             \/ \E n \in Lengths, base \in MapArgs : sys_mmap_fixed(p, base, n, TRUE)
      BY <2>1, <2>3, GrowsInv, Zenon
  <2>4. CASE \/ Exit(p)
             \/ \E new \in BrkArgs : BrkShrink(p, new)
             \/ \E from \in UnmapArgs, n \in Lengths : sys_munmap(p, from, n)
      BY <2>1, <2>4, ReleasesInv, Zenon
  <2>5. CASE Destroy(p)
      BY <2>1, <2>5, DestroyInv, Zenon
  <2> QED BY <1>3, <2>2, <2>3, <2>4, <2>5, ZenonT(30) DEF Start
<1> QED BY <1>1, <1>2, <1>3, Zenon DEF MemNext

\* The inductive invariant holds in every state of user memory.
THEOREM MemInvariant == MemSpec => []MemInv
    BY InitInv, MemInvKept, PTL DEF MemSpec

-----------------------------------------------------------------------------
(***************************************************************************)
(* What a call in progress keeps, beside the holders of frames.  A page it *)
(* is going to map with permission w is still to do, in hand or mapped     *)
(* that way, and nothing it has to do disagrees.                           *)
(***************************************************************************)
Agrees(q, w) ==
    /\ \A item \in call.todo : item[1] = q => item[2] = w
    /\ call.frame # NoFrame /\ call.page = q => call.write = w

Comes(q, w) ==
    \/ \E item \in call.todo : item[1] = q
    \/ call.frame # NoFrame /\ call.page = q
    \/ pte[call.into][q] # Unmapped /\ pte[call.into][q].write = w

\* A process has a PML4; a new space belongs to none yet; the others work on
\* the space of a living process.
Placed ==
    /\ \A p \in live : cr3[p] # NoFrame
    /\ call.op \in {"spawn", "fork", "exec"} =>
           cr3[call.into] # NoFrame /\ call.into \notin live
    /\ call.op \in {"fork", "exec", "brk", "mmap"} => call.proc \in live
    /\ call.op \in {"brk", "mmap"} => call.into = call.proc
    /\ call.op = "exec" => call.into = Scratch
    /\ call.op = "none" => call = Idle

Fresh(q) == pte[call.into][q] = Unmapped /\ q \notin call.done

\* mmap has each page to map once, not mapped yet and none of the stack.
MapsFresh ==
    call.op = "mmap" =>
        /\ \A item \in call.todo : Fresh(item[1])
        /\ call.frame # NoFrame => Fresh(call.page)
        /\ call.frame # NoFrame => \A item \in call.todo : item[1] # call.page
        /\ \A i, j \in call.todo : i[1] = j[1] => i = j
        /\ \A q \in call.done : q \notin StackPages

BuildsStack ==
    call.op \in {"spawn", "exec"} => \A q \in StackPages : Agrees(q, TRUE) /\ Comes(q, TRUE)

CopiesParent ==
    call.op = "fork" => \A q \in Mapped(call.proc) :
        Agrees(q, pte[call.proc][q].write) /\ Comes(q, pte[call.proc][q].write)

\* What fork has for page q is the frame f and nothing else.
Copies(q, f) ==
    /\ \A item \in call.todo : item[1] = q => item[3] = f
    /\ call.frame # NoFrame /\ call.page = q => call.from = f
    /\ \/ \E item \in call.todo : item[1] = q
       \/ call.frame # NoFrame /\ call.page = q
       \/ call.copy[q] = f

CopiesFrames ==
    call.op = "fork" => \A q \in Mapped(call.proc) :
        OwnsOnce(call.proc, q) => Copies(q, pte[call.proc][q].frame)

\* brk maps writable pages below the new break.
Grows(item) == item[2] = TRUE /\ 2 * item[1] < call.brk
GrowsWritable ==
    call.op = "brk" =>
        /\ \A item \in call.todo : Grows(item)
        /\ call.frame # NoFrame => Grows(<<call.page, call.write>>)

StackWritable == \A p \in live : \A q \in StackPages : pte[p][q].write = TRUE

CallInv ==
    /\ Placed /\ MapsFresh /\ BuildsStack /\ CopiesParent /\ CopiesFrames
    /\ GrowsWritable /\ StackWritable

-----------------------------------------------------------------------------
\* A step that leaves the call, the leaf entries and the processes alone.
LEMMA CallSame ==
    ASSUME CallInv, call' = call, cr3' = cr3, pte' = pte, umap' = umap, live' = live
    PROVE  CallInv'
<1>1. Placed' /\ StackWritable'
    BY Zenon DEF CallInv, Placed, StackWritable
<1>2. MapsFresh'
    BY Zenon DEF CallInv, MapsFresh, Fresh
<1>3. BuildsStack' /\ CopiesParent' /\ GrowsWritable'
    BY Zenon DEF CallInv, BuildsStack, CopiesParent, GrowsWritable, Grows, Agrees, Comes, Mapped
<1>4. CopiesFrames'
    BY Zenon DEF CallInv, CopiesFrames, Copies, OwnsOnce, Mapped
<1> QED BY <1>1, <1>2, <1>3, <1>4, Zenon DEF CallInv

\* Between calls only the processes themselves matter.
LEMMA CallOver ==
    ASSUME call' = Idle, \A p \in live' : cr3'[p] # NoFrame, StackWritable'
    PROVE  CallInv'
<1>1. call'.op = "none"
    BY Ranges, Zenon
<1>2. call'.op \notin {"spawn", "fork", "exec", "brk", "mmap"}
    BY <1>1
<1>3. Placed'
    BY <1>1, <1>2, Zenon DEF Placed
<1> QED BY <1>2, <1>3, Zenon
        DEF CallInv, MapsFresh, BuildsStack, CopiesParent, CopiesFrames, GrowsWritable

\* A page that is writable is mapped.
LEMMA WritableIsMapped ==
    ASSUME NEW e, e.write = TRUE PROVE e # Unmapped
    BY DEF Unmapped

\* Steps of a call name their pages by what it has to do.
LEMMA CallTypes ==
    ASSUME MemInv
    PROVE  /\ call \in CallType /\ call.into \in Spaces /\ call.proc \in Spaces
           /\ \A item \in call.todo : item[1] \in Pages /\ item[2] \in BOOLEAN
           /\ call.page \in Pages /\ call.write \in BOOLEAN
           /\ call.frame \in Frames \cup {NoFrame}
           /\ live \subseteq Procs
           /\ pte \in [Spaces -> [Pages -> Entries]] /\ cr3 \in [Spaces -> Frames \cup {NoFrame}]
<1>1. call \in CallType /\ live \subseteq Procs
    BY Zenon DEF MemInv, MemType
<1>2. call.todo \subseteq Todo
    BY <1>1 DEF CallType
<1>3. \A item \in call.todo : item[1] \in Pages /\ item[2] \in BOOLEAN
    BY <1>2, TodoTypes, Zenon
<1>4. /\ call.into \in Spaces /\ call.proc \in Spaces /\ call.page \in Pages
      /\ call.write \in BOOLEAN /\ call.frame \in Frames \cup {NoFrame}
    BY <1>1 DEF CallType
<1> QED BY <1>1, <1>3, <1>4, Zenon DEF MemInv, MemType

\* A frame for the next page: what was to do is now in hand.
LEMMA TakeFrameCall == ASSUME MemInv, CallInv, TakeFrame PROVE CallInv'
<1>0. call \in CallType
    BY CallTypes
<1>1. PICK item \in call.todo, f \in Frames :
          call' = [call EXCEPT !.frame = f, !.page = item[1], !.write = item[2],
                               !.from = item[3], !.todo = @ \ {item}]
    BY Zenon DEF TakeFrame
<1>2. /\ call'.op = call.op /\ call'.proc = call.proc /\ call'.into = call.into
      /\ call'.done = call.done /\ call'.frame = f /\ call'.page = item[1]
      /\ call'.write = item[2] /\ call'.todo = call.todo \ {item} /\ call'.from = item[3]
      /\ call'.copy = call.copy /\ call'.brk = call.brk
    BY <1>0, <1>1, Zenon DEF CallType
<1>3. /\ cr3' = cr3 /\ pte' = pte /\ umap' = umap /\ live' = live
      /\ call.frame = NoFrame /\ f # NoFrame
    BY Ranges, Zenon DEF TakeFrame
<1>4. ASSUME NEW q, NEW w, Agrees(q, w) PROVE Agrees(q, w)'
    BY <1>2, <1>3, <1>4, Zenon DEF Agrees
<1>5. ASSUME NEW q, NEW w, Comes(q, w) PROVE Comes(q, w)'
    BY <1>2, <1>3, <1>5, Zenon DEF Comes
<1>10. call.op # "none"
  <2>1. call # Idle
      BY <1>1 DEF Idle
  <2> QED BY <2>1, Zenon DEF CallInv, Placed
<1>6. Placed'
    BY <1>2, <1>3, <1>10, Zenon DEF CallInv, Placed
<1>9. StackWritable'
    BY <1>3, Zenon DEF CallInv, StackWritable
<1>7. MapsFresh'
    BY <1>2, <1>3 DEF CallInv, MapsFresh, Fresh
<1>8. BuildsStack' /\ CopiesParent'
    BY <1>2, <1>3, <1>4, <1>5, Zenon DEF CallInv, BuildsStack, CopiesParent, Mapped
<1>11. GrowsWritable'
    BY <1>2, <1>3 DEF CallInv, GrowsWritable, Grows
<1>12. ASSUME NEW q, NEW g, Copies(q, g) PROVE Copies(q, g)'
    BY <1>2, <1>3, <1>12, Zenon DEF Copies
<1>13. CopiesFrames'
    BY <1>2, <1>3, <1>12, Zenon DEF CallInv, CopiesFrames, OwnsOnce, Mapped
<1> QED BY <1>6, <1>7, <1>8, <1>9, <1>11, <1>13, Zenon DEF CallInv

\* The page in hand is mapped as the call meant it.
LEMMA MapPageCall == ASSUME MemInv, CallInv, MapPage PROVE CallInv'
<1>0. /\ call \in CallType /\ call.into \in Spaces /\ call.page \in Pages /\ call.proc \in Spaces
      /\ call.frame \in Frames /\ call.frame # NoFrame
      /\ pte \in [Spaces -> [Pages -> Entries]] /\ live \subseteq Spaces
    BY CallTypes, Ranges, Zenon DEF MapPage
<1>1. /\ call'.op = call.op /\ call'.proc = call.proc /\ call'.into = call.into
      /\ call'.todo = call.todo /\ call'.page = call.page /\ call'.frame = NoFrame
      /\ call'.done = call.done \cup {call.page} /\ call'.brk = call.brk
      /\ call'.copy = [call.copy EXCEPT ![call.page] = call.from]
    BY <1>0, Zenon DEF MapPage, CallType
<1>2. cr3' = cr3 /\ live' = live
    BY Zenon DEF MapPage
<1>3. \A s \in Spaces, q \in Pages :
          pte'[s][q] = IF s = call.into /\ q = call.page
                       THEN [frame |-> call.frame, write |-> call.write] ELSE pte[s][q]
    BY <1>0, Zenon DEF MapPage
<1>4. ASSUME NEW q, NEW w, Agrees(q, w) PROVE Agrees(q, w)'
    BY <1>1, <1>4, Zenon DEF Agrees
<1>5. ASSUME NEW q \in Pages, NEW w, Agrees(q, w), Comes(q, w) PROVE Comes(q, w)'
  <2>1. CASE q = call.page
    <3>1. call.write = w
        BY <1>0, <1>5, <2>1, Zenon DEF Agrees
    <3>2. pte'[call.into][q] = [frame |-> call.frame, write |-> w]
        BY <1>0, <1>3, <2>1, <3>1, ZenonT(30)
    <3>3. pte'[call.into][q] # Unmapped /\ pte'[call.into][q].write = w
        BY <1>0, <3>2 DEF Unmapped
    <3> QED BY <1>1, <3>3, Zenon DEF Comes
  <2>2. CASE q # call.page
    <3>1. pte'[call.into][q] = pte[call.into][q]
        BY <1>0, <1>3, <2>2, Zenon
    <3> QED BY <1>1, <1>5, <2>2, <3>1, Zenon DEF Comes
  <2> QED BY <2>1, <2>2, Zenon
<1>10. call.op # "none"
    BY <1>0, Ranges, Zenon DEF CallInv, Placed
<1>6. Placed'
    BY <1>1, <1>2, <1>10, Zenon DEF CallInv, Placed
<1>7. StackWritable'
  <2> SUFFICES ASSUME NEW p \in live, NEW q \in StackPages PROVE pte'[p][q].write = TRUE
      BY <1>2, Zenon DEF StackWritable
  <2>1. pte[p][q].write = TRUE /\ p \in Spaces /\ q \in Pages
      BY <1>0, Ranges, Zenon DEF CallInv, StackWritable
  <2>2. CASE p = call.into /\ q = call.page
    <3>1. call.op \in {"none", "spawn", "fork", "exec", "brk", "mmap"}
        BY <1>0 DEF CallType, Ops
    <3>2. call.op # "mmap"
        BY <1>0, <2>1, <2>2, WritableIsMapped, Zenon DEF CallInv, MapsFresh, Fresh
    <3>3. call.op = "brk"
        BY <1>10, <2>2, <3>1, <3>2, Zenon DEF CallInv, Placed
    <3>4. call.write = TRUE
        BY <1>0, <3>3 DEF CallInv, GrowsWritable, Grows
    <3>5. pte'[p][q] = [frame |-> call.frame, write |-> TRUE]
        BY <1>3, <2>1, <2>2, <3>4, Zenon
    <3> QED BY <3>5
  <2>3. CASE ~(p = call.into /\ q = call.page)
      BY <1>3, <2>1, <2>3, Zenon
  <2> QED BY <2>2, <2>3, Zenon
<1>8. MapsFresh'
  <2> SUFFICES ASSUME call.op = "mmap" PROVE MapsFresh'
      BY <1>1, ZenonT(30) DEF MapsFresh
  <2>1. /\ \A item \in call.todo : Fresh(item[1]) /\ item[1] # call.page /\ item[1] \in Pages
        /\ Fresh(call.page)
        /\ \A i, j \in call.todo : i[1] = j[1] => i = j
        /\ \A q \in call.done : q \notin StackPages
        /\ call.into \in live
      BY <1>0, CallTypes, SMTT(30) DEF CallInv, MapsFresh, Placed
  <2>2. \A item \in call.todo : Fresh(item[1])'
      BY <1>0, <1>1, <1>3, <2>1 DEF Fresh
  <2>3. call.page \notin StackPages
      BY <2>1, WritableIsMapped, Zenon DEF CallInv, StackWritable, Fresh
  <2> QED BY <1>1, <2>1, <2>2, <2>3, Zenon DEF MapsFresh
<1>9. BuildsStack'
    BY <1>1, <1>4, <1>5, Ranges, Zenon DEF CallInv, BuildsStack
<1>12. GrowsWritable'
    BY <1>1 DEF CallInv, GrowsWritable, Grows
<1>14. ASSUME call.op = "fork", NEW q \in Mapped(call.proc)'
       PROVE  q \in Pages /\ pte'[call.proc][q] = pte[call.proc][q] /\ q \in Mapped(call.proc)
  <2>1. call.proc # call.into
      BY <1>14 DEF CallInv, Placed
  <2>2. q \in Pages /\ pte'[call.proc][q] # Unmapped
      BY <1>1, Zenon DEF Mapped
  <2>3. pte'[call.proc][q] = pte[call.proc][q]
      BY <1>0, <1>3, <2>1, <2>2, Zenon
  <2> QED BY <2>2, <2>3, Zenon DEF Mapped
<1>11. CopiesParent'
  <2> SUFFICES ASSUME call.op = "fork", NEW q \in Mapped(call.proc)'
               PROVE  /\ Agrees(q, pte[call.proc][q].write)'
                      /\ Comes(q, pte[call.proc][q].write)'
      BY <1>1, Zenon DEF CopiesParent
  <2>1. q \in Pages /\ pte'[call.proc][q] = pte[call.proc][q] /\ q \in Mapped(call.proc)
      BY <1>14, Zenon
  <2>2. PICK w : w = pte[call.proc][q].write
      BY Zenon
  <2>3. Agrees(q, w) /\ Comes(q, w)
      BY <2>1, <2>2, Zenon DEF CallInv, CopiesParent
  <2>4. Agrees(q, w)' /\ Comes(q, w)'
      BY <1>4, <1>5, <2>1, <2>3, Zenon
  <2>5. pte'[call'.proc][q].write = w
      BY <1>1, <2>1, <2>2
  <2> QED BY <2>4, <2>5, Zenon DEF Agrees, Comes
<1>13. CopiesFrames'
  <2> SUFFICES ASSUME call.op = "fork", NEW q \in Mapped(call.proc)', OwnsOnce(call.proc, q)'
               PROVE  Copies(q, pte[call.proc][q].frame)'
      BY <1>1, Zenon DEF CopiesFrames
  <2>1. call.proc # call.into /\ umap \in [Spaces -> SUBSET (Pages \X Frames)]
      BY DEF CallInv, Placed, MemInv, MemType
  <2>2. q \in Pages /\ pte'[call.proc][q] = pte[call.proc][q] /\ q \in Mapped(call.proc)
      BY <1>14, Zenon
  <2>3. umap'[call.proc] = umap[call.proc] /\ call'.proc = call.proc
      BY <1>0, <1>1, <2>1, Zenon DEF MapPage
  <2>7. OwnsOnce(call.proc, q)
      BY <2>3 DEF OwnsOnce
  <2>4. Copies(q, pte[call.proc][q].frame)
      BY <2>2, <2>7, Zenon DEF CallInv, CopiesFrames
  <2>5. call.copy \in [Pages -> Frames \cup {NoFrame}]
      BY <1>0 DEF CallType
  <2>6. call'.copy[q] = IF q = call.page THEN call.from ELSE call.copy[q]
      BY <1>0, <1>1, <2>2, <2>5, Zenon
  <2> QED BY <1>0, <1>1, <2>2, <2>4, <2>6, Zenon DEF Copies
<1> QED BY <1>6, <1>7, <1>8, <1>9, <1>11, <1>12, <1>13, Zenon DEF CallInv

\* A call that cannot go on undoes nothing of a process but what it added.
LEMMA FailKeeps ==
    ASSUME MemInv, CallInv, Fail
    PROVE  \A p \in live : cr3'[p] = cr3[p] /\ \A q \in StackPages : pte'[p][q] = pte[p][q]
<1>0. /\ call.into \in Spaces /\ live \subseteq Spaces
      /\ pte \in [Spaces -> [Pages -> Entries]] /\ cr3 \in [Spaces -> Frames \cup {NoFrame}]
    BY CallTypes, Ranges, Zenon
<1>1. StackPages \subseteq Pages
    BY Ranges, Zenon
<1>2. CASE call.op \in {"spawn", "fork", "exec"} /\ Emptied(call.into)
  <2>1. call.into \notin live
      BY <1>2, Zenon DEF CallInv, Placed
  <2> QED BY <1>0, <1>2, <2>1, Zenon DEF Emptied
<1>3. CASE call.op = "mmap" /\ UndoMap
  <2>1. \A q \in call.done : q \notin StackPages
      BY <1>3, Zenon DEF CallInv, MapsFresh
  <2>2. \A p \in live, q \in StackPages : pte'[p][q] = pte[p][q]
      BY <1>0, <1>1, <1>3, <2>1, ZenonT(30) DEF UndoMap
  <2> QED BY <1>3, <2>2, Zenon DEF UndoMap
<1>4. CASE UNCHANGED <<cr3, table, pte, umap>>
    BY <1>4, Zenon
<1> QED BY <1>2, <1>3, <1>4, Zenon DEF Fail, Undo

\* So a failed call leaves the invariant.
LEMMA FailCall == ASSUME MemInv, CallInv, Fail PROVE CallInv'
<1>1. live' = live /\ call' = Idle
    BY Zenon DEF Fail
<1> QED BY <1>1, FailKeeps, CallOver, Zenon DEF CallInv, Placed, StackWritable

\* What a finished call has mapped is what it set out to map.
LEMMA AllCame ==
    ASSUME call.todo = {}, call.frame = NoFrame, NEW q, NEW w, Comes(q, w)
    PROVE  pte[call.into][q] # Unmapped /\ pte[call.into][q].write = w
    BY DEF Comes

\* The end of a call: a new process starts with a writable stack.
LEMMA DoneCall == ASSUME MemInv, CallInv, Done PROVE CallInv'
<1>0. /\ call.into \in Spaces /\ call.proc \in Spaces /\ live \subseteq Procs
      /\ pte \in [Spaces -> [Pages -> Entries]] /\ cr3 \in [Spaces -> Frames \cup {NoFrame}]
    BY CallTypes, Zenon
<1>1. call' = Idle /\ call.todo = {} /\ call.frame = NoFrame
    BY DEF Done, SpawnDone, ForkDone, ExecDone, BrkDone, MapDone, AllMapped
<1>2. CASE SpawnDone
  <2>1. pte' = pte /\ cr3' = cr3 /\ live' = live \cup {call.into} /\ call.op = "spawn"
      BY <1>2 DEF SpawnDone
  <2>2. \A q \in StackPages : pte[call.into][q].write = TRUE
      BY <1>1, <2>1, AllCame, Zenon DEF CallInv, BuildsStack
  <2>3. cr3[call.into] # NoFrame
      BY <2>1, Zenon DEF CallInv, Placed
  <2> QED BY <1>1, <2>1, <2>2, <2>3, CallOver, Zenon DEF CallInv, Placed, StackWritable
<1>3. CASE ForkDone
  <2>1. pte' = pte /\ cr3' = cr3 /\ live' = live \cup {call.into} /\ call.op = "fork"
      BY <1>3, Zenon DEF ForkDone
  <2>2. call.proc \in live /\ cr3[call.into] # NoFrame
      BY <2>1 DEF CallInv, Placed
  <2>3. ASSUME NEW q \in StackPages PROVE pte[call.into][q].write = TRUE
    <3>1. pte[call.proc][q].write = TRUE
        BY <2>2, Zenon DEF CallInv, StackWritable
    <3>2. q \in Mapped(call.proc)
        BY <3>1, WritableIsMapped, Ranges, Zenon DEF Mapped
    <3>3. Comes(q, TRUE)
        BY <2>1, <3>1, <3>2, Zenon DEF CallInv, CopiesParent
    <3> QED BY <1>1, <3>3, AllCame, Zenon
  <2> QED BY <1>1, <2>1, <2>2, <2>3, CallOver, Zenon DEF CallInv, Placed, StackWritable
<1>4. CASE ExecDone
  <2>1. call.op = "exec" /\ live' = live
      BY <1>4, Zenon DEF ExecDone
  <2>2. call.into = Scratch /\ call.proc \in live /\ cr3[Scratch] # NoFrame
      BY <2>1 DEF CallInv, Placed
  <2>3. \A q \in StackPages : pte[Scratch][q].write = TRUE
      BY <1>1, <2>1, <2>2, AllCame, Zenon DEF CallInv, BuildsStack
  <2>4. \A p \in live : /\ p # Scratch
                        /\ pte'[p] = IF p = call.proc THEN pte[Scratch] ELSE pte[p]
                        /\ cr3'[p] = IF p = call.proc THEN cr3[Scratch] ELSE cr3[p]
      BY <1>0, <1>4, MemAssumption DEF ExecDone, Spaces
  <2>5. \A p \in live' : cr3'[p] # NoFrame
      BY <2>1, <2>2, <2>4, Zenon DEF CallInv, Placed
  <2>6. StackWritable'
      BY <2>1, <2>3, <2>4, Zenon DEF CallInv, StackWritable
  <2> QED BY <1>1, <2>5, <2>6, CallOver, Zenon
<1>5. CASE BrkDone \/ MapDone
  <2>1. pte' = pte /\ cr3' = cr3 /\ live' = live
      BY <1>5, Zenon DEF BrkDone, MapDone
  <2> QED BY <1>1, <2>1, CallOver, Zenon DEF CallInv, Placed, StackWritable
<1> QED BY <1>2, <1>3, <1>4, <1>5, Zenon DEF Done

\* A call sets out to map page q, with permission w.
Sets(c, q, w) ==
    /\ \E item \in c.todo : item[1] = q
    /\ \A item \in c.todo : item[1] = q => item[2] = w

\* spawn, fork and execve start in a space that belongs to no process.
LEMMA NewSpaceCall ==
    ASSUME MemInv, CallInv, NEW s \in Spaces, NEW c, NewSpace(s, c),
           c.into = s, c.frame = NoFrame, c.op \in {"spawn", "fork", "exec"},
           c.op \in {"fork", "exec"} => c.proc \in live, c.op = "exec" => s = Scratch,
           c.op \in {"spawn", "exec"} => \A q \in StackPages : Sets(c, q, TRUE),
           c.op = "fork" => \A q \in Mapped(c.proc) :
               /\ Sets(c, q, pte[c.proc][q].write)
               /\ OwnsOnce(c.proc, q) =>
                      \A item \in c.todo : item[1] = q => item[3] = pte[c.proc][q].frame
    PROVE  CallInv'
<1>0. cr3 \in [Spaces -> Frames \cup {NoFrame}] /\ live \subseteq Spaces
    BY CallTypes, Ranges, Zenon
<1>1. /\ call' = c /\ pte' = pte /\ umap' = umap /\ live' = live /\ cr3[s] = NoFrame
      /\ \E f \in Frames : cr3' = [cr3 EXCEPT ![s] = f]
    BY Zenon DEF NewSpace
<1>2. s \notin live
    BY <1>1, Zenon DEF CallInv, Placed
<1>3. cr3'[s] # NoFrame /\ \A p \in live : cr3'[p] = cr3[p]
    BY <1>0, <1>1, <1>2, Ranges, Zenon
<1>4. Placed'
    BY <1>1, <1>2, <1>3, Zenon DEF CallInv, Placed
<1>5. StackWritable'
    BY <1>1, Zenon DEF CallInv, StackWritable
<1>6. \A q, w : Sets(c, q, w) => Agrees(q, w)' /\ Comes(q, w)'
    BY <1>1, Zenon DEF Sets, Agrees, Comes
<1>7. BuildsStack' /\ CopiesParent'
    BY <1>1, <1>6, Zenon DEF BuildsStack, CopiesParent, Mapped
<1>8. MapsFresh' /\ GrowsWritable'
  <2>1. call'.op # "mmap" /\ call'.op # "brk"
      BY <1>1, Zenon
  <2> QED BY <2>1, Zenon DEF MapsFresh, GrowsWritable
<1>9. CopiesFrames'
  <2> SUFFICES ASSUME c.op = "fork", NEW q \in Mapped(c.proc), OwnsOnce(c.proc, q)
               PROVE  Copies(q, pte[c.proc][q].frame)'
      BY <1>1 DEF CopiesFrames, Mapped, OwnsOnce
  <2>1. Sets(c, q, pte[c.proc][q].write)
      BY Zenon
  <2>2. \A item \in c.todo : item[1] = q => item[3] = pte[c.proc][q].frame
      BY Zenon
  <2> QED BY <1>1, <2>1, <2>2, Zenon DEF Copies, Sets
<1> QED BY <1>4, <1>5, <1>7, <1>8, <1>9, Zenon DEF CallInv

\* brk and mmap start in the space of a living process.
LEMMA BeginCall ==
    ASSUME MemInv, CallInv, NEW c, Begin(c), NEW p \in live,
           c.into = p, c.proc = p, c.frame = NoFrame, c.op \in {"brk", "mmap"}, c.done = {},
           c.op = "brk" => \A item \in c.todo : item[2] = TRUE /\ 2 * item[1] < c.brk,
           c.op = "mmap" => /\ \A item \in c.todo : pte[p][item[1]] = Unmapped
                            /\ \A i, j \in c.todo : i[1] = j[1] => i = j
    PROVE  CallInv'
<1>1. call' = c /\ pte' = pte /\ live' = live /\ cr3' = cr3
    BY Zenon DEF Begin
<1>2. Placed'
    BY <1>1, Zenon DEF CallInv, Placed
<1>3. StackWritable'
    BY <1>1, Zenon DEF CallInv, StackWritable
<1>4. GrowsWritable'
    BY <1>1, Zenon DEF GrowsWritable, Grows
<1>5. MapsFresh'
    BY <1>1, Zenon DEF MapsFresh, Fresh
<1>6. BuildsStack' /\ CopiesParent' /\ CopiesFrames'
  <2>1. call'.op \notin {"spawn", "exec"} /\ call'.op # "fork"
      BY <1>1, Zenon
  <2> QED BY <2>1, Zenon DEF BuildsStack, CopiesParent, CopiesFrames
<1> QED BY <1>2, <1>3, <1>4, <1>5, <1>6, Zenon DEF CallInv

\* An ELF image maps the stack writable, and nothing of it otherwise.
LEMMA ProgramStack ==
    ASSUME NEW q \in StackPages
    PROVE  /\ \E item \in Program : item[1] = q
           /\ \A item \in Program : item[1] = q => item[2] = TRUE
<1>1. ImageEnd \in Nat /\ MmapTop \in Nat /\ PageCount \in Nat /\ ImageEnd < MmapTop
    BY MemAssumption
<1>2. q \notin ImagePages
    BY <1>1 DEF StackPages, ImagePages
<1>3. <<q, TRUE, NoFrame>> \in Program
    BY Zenon DEF Program, Items
<1>4. \A item \in Program : item[1] = q => item[2] = TRUE
    BY <1>2, Zenon DEF Program, Items
<1> QED BY <1>3, <1>4, Zenon

\* Every start of a call that maps sets out as its kind must.
LEMMA SpawnCall == ASSUME MemInv, CallInv, NEW p \in Procs, Spawn(p) PROVE CallInv'
<1> DEFINE c == [Idle EXCEPT !.op = "spawn", !.proc = p, !.into = p, !.todo = Program]
<1>1. /\ c.into = p /\ c.frame = NoFrame /\ c.op = "spawn" /\ c.todo = Program
      /\ NewSpace(p, c) /\ p \in Spaces
    BY Ranges, Zenon DEF Spawn, Idle
<1>2. \A q \in StackPages : Sets(c, q, TRUE)
    BY <1>1, ProgramStack, Zenon DEF Sets
<1> HIDE DEF c
<1> QED BY <1>1, <1>2, NewSpaceCall, Zenon

\* execve starts a call on the scratch space.
LEMMA ExecCall ==
    ASSUME MemInv, CallInv, NEW p \in Procs, Exec(p)
    PROVE  CallInv'
<1> DEFINE c == [Idle EXCEPT !.op = "exec", !.proc = p, !.todo = Program]
<1>1. /\ c.into = Scratch /\ c.frame = NoFrame /\ c.op = "exec" /\ c.todo = Program
      /\ c.proc = p /\ p \in live /\ NewSpace(Scratch, c) /\ Scratch \in Spaces
    BY Ranges, Zenon DEF Exec, Idle
<1>2. \A q \in StackPages : Sets(c, q, TRUE)
    BY <1>1, ProgramStack, Zenon DEF Sets
<1> HIDE DEF c
<1> QED BY <1>1, <1>2, NewSpaceCall, Zenon

\* fork takes its list from umap, which has every page that is mapped.
LEMMA ForkCall ==
    ASSUME MemInv, CallInv, NEW p \in Procs, NEW k \in Procs, Fork(p, k)
    PROVE  CallInv'
<1> DEFINE todo == {<<e[1], pte[p][e[1]].write, e[2]>> : e \in umap[p]}
           c == [Idle EXCEPT !.op = "fork", !.proc = p, !.into = k, !.todo = todo]
<1>1. /\ c.into = k /\ c.frame = NoFrame /\ c.op = "fork" /\ c.todo = todo /\ c.proc = p
      /\ p \in live /\ NewSpace(k, c) /\ k \in Spaces /\ p \in Spaces
    BY Ranges, Zenon DEF Fork, Idle
<1>2. \A item \in todo : item[2] = pte[p][item[1]].write
    OBVIOUS
<1>3. ASSUME NEW q \in Mapped(p) PROVE \E item \in todo : item[1] = q
  <2>1. <<q, pte[p][q].frame>> \in umap[p]
      BY <1>1, Zenon DEF MemInv, MappedIsOwned, Mapped
  <2>2. <<q, pte[p][q].write, pte[p][q].frame>> \in todo
      BY <2>1
  <2> QED BY <2>2, Zenon
<1>4. \A q \in Mapped(p) : Sets(c, q, pte[p][q].write)
    BY <1>1, <1>2, <1>3, Zenon DEF Sets
<1>5. ASSUME NEW q \in Mapped(p), OwnsOnce(p, q), NEW item \in todo, item[1] = q
      PROVE  item[3] = pte[p][q].frame
  <2>1. PICK e \in umap[p] : item = <<e[1], pte[p][e[1]].write, e[2]>>
      BY Zenon
  <2>2. <<q, pte[p][q].frame>> \in umap[p]
      BY <1>1, Zenon DEF MemInv, MappedIsOwned, Mapped
  <2>3. e = <<q, pte[p][q].frame>>
      BY <1>5, <2>1, <2>2 DEF OwnsOnce
  <2> QED BY <2>1, <2>3
<1> HIDE DEF c, todo
<1> QED BY <1>1, <1>4, <1>5, NewSpaceCall, Zenon

\* A growing break starts a call on the caller's own space.
LEMMA BrkGrowCall ==
    ASSUME MemInv, CallInv, NEW p \in Procs, NEW new \in BrkArgs, BrkGrow(p, new)
    PROVE  CallInv'
<1> DEFINE todo == Items(GrowPages(brk[p], new), TRUE)
           c == [Idle EXCEPT !.op = "brk", !.proc = p, !.into = p, !.brk = new, !.todo = todo]
<1>1. \A item \in todo : item[2] = TRUE /\ item[1] \in GrowPages(brk[p], new)
    BY Zenon DEF Items
<1>4. \A q \in GrowPages(brk[p], new) : 2 * q < new
  <2>1. brk[p] \in Nat /\ new \in Nat
      BY MemAssumption, Ranges DEF MemInv, MemType
  <2>2. \A a \in brk[p] .. new - 1 : 2 * PageOf(a) < new
      BY <2>1, SMTT(30) DEF PageOf
  <2> QED BY <2>2, Zenon DEF GrowPages
<1> HIDE DEF todo
<1>2. /\ c.into = p /\ c.proc = p /\ c.frame = NoFrame /\ c.op = "brk" /\ c.todo = todo
      /\ c.done = {} /\ c.brk = new
    BY DEF Idle
<1>3. Begin(c) /\ p \in live
    BY Zenon DEF BrkGrow, todo
<1> HIDE DEF c
<1> QED BY <1>1, <1>2, <1>3, <1>4, BeginCall, Zenon

\* mmap only maps a window it found clear.
LEMMA MapCall ==
    ASSUME MemInv, CallInv, NEW p \in live, NEW window, NEW write,
           Clear(p, window), Map(p, window, write)
    PROVE  CallInv'
<1> DEFINE todo == Items(window, write)
           c == [Idle EXCEPT !.op = "mmap", !.proc = p, !.into = p, !.todo = todo]
<1>1. \A item \in todo : /\ item[1] \in window /\ item[2] = write /\ item[3] = NoFrame
                         /\ item = <<item[1], item[2], item[3]>>
  <2> SUFFICES ASSUME NEW item \in todo
               PROVE  /\ item[1] \in window /\ item[2] = write /\ item[3] = NoFrame
                      /\ item = <<item[1], item[2], item[3]>>
      OBVIOUS
  <2>1. item \in window \X {write} \X {NoFrame}
      BY Zenon DEF Items
  <2>2. PICK w \in window : item = <<w, write, NoFrame>>
      BY <2>1, SMT
  <2> HIDE DEF todo
  <2> QED BY <2>2, SMT
<1>2. /\ \A item \in todo : pte[p][item[1]] = Unmapped
      /\ \A i, j \in todo : i[1] = j[1] => i = j
    BY <1>1, Zenon DEF Clear
<1>3. Begin(c)
    BY Zenon DEF Map
<1> HIDE DEF todo
<1>4. /\ c.into = p /\ c.proc = p /\ c.frame = NoFrame /\ c.op = "mmap" /\ c.todo = todo
      /\ c.done = {}
    BY DEF Idle
<1> HIDE DEF c
<1> QED BY <1>2, <1>3, <1>4, BeginCall, Zenon

\* Releasing leaves the stacks of the living alone.
LEMMA ReleaseKeeps ==
    ASSUME MemInv, CallInv, NEW p \in Procs,
           \/ Exit(p) \/ Destroy(p)
           \/ \E new \in BrkArgs : BrkShrink(p, new)
           \/ \E from \in UnmapArgs, n \in Lengths : sys_munmap(p, from, n)
    PROVE  /\ live' \subseteq live
           /\ \A r \in live' :
                 cr3'[r] = cr3[r] /\ \A q \in StackPages : pte'[r][q] = pte[r][q]
<1>0. /\ p \in Spaces /\ live \subseteq Spaces /\ StackPages \subseteq Pages
      /\ pte \in [Spaces -> [Pages -> Entries]] /\ cr3 \in [Spaces -> Frames \cup {NoFrame}]
    BY CallTypes, Ranges, Zenon
<1>1. CASE Exit(p)
  <2>1. cr3' = cr3 /\ live' = live \ {p}
      BY <1>1, Zenon DEF Exit
  <2>2. \A r \in live' : r \in live /\ pte'[r] = pte[r]
      BY <1>0, <1>1, <2>1, Zenon DEF Exit
  <2> QED BY <2>1, <2>2, Zenon
<1>2. CASE Destroy(p)
  <2>1. live' = live /\ p \notin live
      BY <1>2, Zenon DEF Destroy
  <2>2. \A r \in live : cr3'[r] = cr3[r] /\ pte'[r] = pte[r]
      BY <1>0, <1>2, <2>1, Zenon DEF Destroy, Emptied
  <2> QED BY <2>1, <2>2, Zenon
<1>3. ASSUME NEW from, um_release_from(p, from)
      PROVE  \A r \in live, q \in StackPages : pte'[r][q] = pte[r][q]
  <2> DEFINE gone == {e \in umap[p] : e[1] >= from /\ e[1] < MmapTop}
  <2>1. pte' = [pte EXCEPT ![p] = [q \in Pages |->
                    IF q \in {e[1] : e \in gone} THEN Unmapped ELSE pte[p][q]]]
      BY <1>3, Zenon DEF um_release_from
  <2>2. \A q \in StackPages : q >= MmapTop /\ MmapTop \in Nat /\ q \in Int
      BY MemAssumption, SMTT(30) DEF StackPages
  <2>3. \A q \in StackPages : q \notin {e[1] : e \in gone}
      BY <2>2
  <2> HIDE DEF gone
  <2> QED BY <1>0, <2>1, <2>3, Zenon
<1>4. CASE \E new \in BrkArgs : BrkShrink(p, new)
    BY <1>3, <1>4, Zenon DEF BrkShrink
<1>5. CASE \E from \in UnmapArgs, n \in Lengths : sys_munmap(p, from, n)
    BY <1>3, <1>5, Zenon DEF sys_munmap
<1> QED BY <1>1, <1>2, <1>4, <1>5, Zenon

\* So does the invariant survive it.
LEMMA ReleaseCall ==
    ASSUME MemInv, CallInv, NEW p \in Procs,
           \/ Exit(p) \/ Destroy(p)
           \/ \E new \in BrkArgs : BrkShrink(p, new)
           \/ \E from \in UnmapArgs, n \in Lengths : sys_munmap(p, from, n)
    PROVE  CallInv'
<1>1. call' = Idle
    BY Zenon DEF Exit, Destroy, BrkShrink, sys_munmap
<1>2. /\ live' \subseteq live
      /\ \A r \in live' : cr3'[r] = cr3[r] /\ \A q \in StackPages : pte'[r][q] = pte[r][q]
    BY ReleaseKeeps, Zenon
<1> QED BY <1>1, <1>2, CallOver, Zenon DEF CallInv, Placed, StackWritable

\* Every step keeps what a call in progress must.
LEMMA CallInvKept == MemInv /\ CallInv /\ [MemNext]_vars => CallInv'
<1> SUFFICES ASSUME MemInv, CallInv, [MemNext]_vars PROVE CallInv'
    OBVIOUS
<1>1. CASE UNCHANGED vars
  <2>1. call' = call /\ cr3' = cr3 /\ pte' = pte /\ umap' = umap /\ live' = live
      BY <1>1, Zenon DEF vars
  <2> QED BY <2>1, CallSame, Zenon
<1>2. CASE TakeTable
  <2>1. call' = call /\ cr3' = cr3 /\ pte' = pte /\ umap' = umap /\ live' = live
      BY <1>2, Zenon DEF TakeTable
  <2> QED BY <2>1, CallSame, Zenon
<1>3. CASE Step \/ Done
    BY <1>2, <1>3, TakeFrameCall, MapPageCall, FailCall, DoneCall, ZenonT(30) DEF Step
<1>4. ASSUME NEW p \in Procs, Start(p) PROVE CallInv'
  <2>1. ASSUME NEW n \in Lengths, NEW write \in BOOLEAN, sys_mmap(p, n, write) PROVE CallInv'
    <3>1. PICK window \in um_mmap_reserve(p, n) : Map(p, window, write)
        BY <2>1, Zenon DEF sys_mmap
    <3>2. Clear(p, window) /\ p \in live
        BY <2>1, ReservedIsClear, Zenon DEF sys_mmap
    <3> QED BY <3>1, <3>2, MapCall, Zenon
  <2>2. ASSUME NEW n \in Lengths, NEW base \in MapArgs, sys_mmap_fixed(p, base, n, TRUE)
        PROVE  CallInv'
      BY <2>2, MapCall, RangeIsClear, Zenon DEF sys_mmap_fixed
  <2>3. CASE Spawn(p) \/ Exec(p) \/ \E c \in Procs : Fork(p, c)
      BY <2>3, SpawnCall, ExecCall, ForkCall, Zenon
  <2>4. CASE \E new \in BrkArgs : BrkGrow(p, new)
      BY <2>4, BrkGrowCall, Zenon
  <2>5. CASE \/ Exit(p) \/ Destroy(p)
             \/ \E new \in BrkArgs : BrkShrink(p, new)
             \/ \E from \in UnmapArgs, n \in Lengths : sys_munmap(p, from, n)
      BY <2>5, ReleaseCall, Zenon
  <2> QED BY <1>4, <2>1, <2>2, <2>3, <2>4, <2>5, ZenonT(30) DEF Start
<1> QED BY <1>1, <1>3, <1>4, Zenon DEF MemNext

\* Boot: there is no process and no call.
LEMMA CallInitInv == MemInit => CallInv
<1> SUFFICES ASSUME MemInit PROVE CallInv
    BY Zenon
<1>1. call = Idle /\ live = {} /\ call.op = "none"
    BY Ranges, Zenon DEF MemInit
<1>2. Placed /\ StackWritable
    BY <1>1, Zenon DEF Placed, StackWritable
<1>3. call.op \notin {"spawn", "fork", "exec", "brk", "mmap"}
    BY <1>1, Zenon
<1> QED BY <1>2, <1>3, Zenon
        DEF CallInv, MapsFresh, BuildsStack, CopiesParent, CopiesFrames, GrowsWritable

\* The invariant of calls in progress holds in every state of user memory.
THEOREM CallInvariant == MemSpec => []CallInv
    BY MemInvariant, CallInitInv, CallInvKept, PTL DEF MemSpec

-----------------------------------------------------------------------------
\* What one step may do to the stack of a process.
StackStep ==
    \A p \in live' : \A q \in StackPages :
        /\ pte'[p][q].write
        /\ p \in live /\ pte'[p][q].frame # pte[p][q].frame =>
              /\ call.proc = p
              /\ call.op = "exec" \/ (call.op = "brk" /\ call.brk > 2 * MmapTop)

\* A page is mapped over a stack only by a break that passed its floor.
LEMMA MapPageStack ==
    ASSUME MemInv, CallInv, MapPage, NEW p \in live, NEW q \in StackPages,
           pte'[p][q].frame # pte[p][q].frame
    PROVE  call.proc = p /\ call.op = "brk" /\ call.brk > 2 * MmapTop
<1>0. /\ call \in CallType /\ call.into \in Spaces /\ call.page \in Pages
      /\ call.frame # NoFrame /\ call.brk \in Int
      /\ pte \in [Spaces -> [Pages -> Entries]] /\ p \in Spaces /\ q \in Pages
  <2>1. call.brk \in 0 .. 2 * PageCount
      BY CallTypes DEF CallType
  <2> QED BY <2>1, CallTypes, Ranges DEF MapPage
<1>1. p = call.into /\ q = call.page
    BY <1>0, Zenon DEF MapPage
<1>2. pte[p][q].write = TRUE
    BY Zenon DEF CallInv, StackWritable
<1>3. call.op \in {"none", "spawn", "fork", "exec", "brk", "mmap"}
    BY <1>0 DEF CallType, Ops
<1>4. call.op # "none"
    BY <1>0, Ranges, Zenon DEF CallInv, Placed
<1>5. call.op # "mmap"
    BY <1>0, <1>1, <1>2, WritableIsMapped, Zenon DEF CallInv, MapsFresh, Fresh
<1>6. call.op = "brk" /\ call.proc = p
    BY <1>1, <1>3, <1>4, <1>5, Zenon DEF CallInv, Placed
<1>7. 2 * q < call.brk
    BY <1>0, <1>1, <1>6 DEF CallInv, GrowsWritable, Grows
<1>8. q \in Int /\ MmapTop \in Int /\ q >= MmapTop
    BY MemAssumption DEF StackPages
<1> QED BY <1>0, <1>6, <1>7, <1>8

\* Every step leaves the stacks as they are, but for those two.
LEMMA StackSteps == MemInv /\ CallInv /\ [MemNext]_vars => StackStep
<1> SUFFICES ASSUME MemInv, CallInv, [MemNext]_vars PROVE StackStep
    OBVIOUS
<1>1. \A p \in live' : \A q \in StackPages : pte'[p][q].write
    BY CallInvKept, Zenon DEF CallInv, StackWritable
<1> SUFFICES ASSUME NEW p \in live', p \in live, NEW q \in StackPages,
                    pte'[p][q].frame # pte[p][q].frame
             PROVE  /\ call.proc = p
                    /\ call.op = "exec" \/ (call.op = "brk" /\ call.brk > 2 * MmapTop)
    BY <1>1, Zenon DEF StackStep
<1>2. pte' # pte
    BY Zenon
<1>3. CASE Step
  <2>1. ~TakeFrame /\ ~TakeTable
      BY <1>2, Zenon DEF TakeFrame, TakeTable
  <2>2. ~Fail
      BY FailKeeps, Zenon
  <2> QED BY <1>3, <2>1, <2>2, MapPageStack, Zenon DEF Step
<1>4. CASE Done
  <2>1. ExecDone
      BY <1>2, <1>4, Zenon DEF Done, SpawnDone, ForkDone, BrkDone, MapDone
  <2>2. /\ p \in Spaces /\ p # Scratch /\ call.proc \in Spaces
        /\ pte \in [Spaces -> [Pages -> Entries]]
      BY CallTypes, Ranges, MemAssumption DEF Spaces
  <2>3. p # call.proc => pte'[p] = pte[p]
      BY <2>1, <2>2, Zenon DEF ExecDone
  <2> QED BY <2>1, <2>3, Zenon DEF ExecDone
<1>5. ASSUME NEW r \in Procs, Start(r) PROVE FALSE
  <2>1. CASE Spawn(r) \/ Exec(r) \/ \E c \in Procs : Fork(r, c)
      BY <1>2, <2>1, Zenon DEF Spawn, Exec, Fork, NewSpace
  <2>2. CASE \/ \E new \in BrkArgs : BrkGrow(r, new)
             \/ \E n \in Lengths, write \in BOOLEAN : sys_mmap(r, n, write)
             \/ \E n \in Lengths, base \in MapArgs : sys_mmap_fixed(r, base, n, TRUE)
      BY <1>2, <2>2, Zenon DEF BrkGrow, sys_mmap, sys_mmap_fixed, Map, Begin
  <2>3. CASE \/ Exit(r) \/ Destroy(r)
             \/ \E new \in BrkArgs : BrkShrink(r, new)
             \/ \E from \in UnmapArgs, n \in Lengths : sys_munmap(r, from, n)
      BY <2>3, ReleaseKeeps, Zenon
  <2> QED BY <1>5, <2>1, <2>2, <2>3, ZenonT(30) DEF Start
<1> QED BY <1>2, <1>3, <1>4, <1>5, Zenon DEF MemNext, vars

\* A living process keeps its stack, writable and in its frames, whatever is
\* mapped, unmapped or undone, until its own execve or a break moved past the
\* stack's floor: StackIsKept.
THEOREM StackKept == MemSpec => StackIsKept
<1>1. MemInv /\ CallInv /\ [MemNext]_vars => [StackStep]_vars
    BY StackSteps, Zenon
<1>2. MemSpec => [][StackStep]_vars
    BY <1>1, MemInvariant, CallInvariant, PTL DEF MemSpec
<1> QED BY <1>2, Zenon DEF StackStep, StackIsKept

-----------------------------------------------------------------------------
\* What one step of an mmap changes: the page in hand, or what the undoing
\* takes back.
MmapStep ==
    /\ call.op = "mmap" => \A s \in Spaces : \A q \in Pages \ call.done :
          pte'[s][q] # pte[s][q] =>
             /\ s = call.into /\ q = call.page /\ pte[s][q] = Unmapped
    /\ call.op = "mmap" /\ call' = Idle /\ (call.frame # NoFrame \/ call.todo # {}) =>
          \A q \in call.done : pte'[call.into][q] = Unmapped

\* A fork that ends well has given the child what the parent has mapped.
ForkStep ==
    call.op = "fork" /\ call.into \in live' =>
        \A q \in Mapped(call.proc) :
            /\ pte[call.into][q].write = pte[call.proc][q].write
            /\ pte[call.into][q] # Unmapped
            /\ OwnsOnce(call.proc, q) => call.copy[q] = pte[call.proc][q].frame

\* A call in progress is ended or taken further; nothing else happens.
LEMMA DuringCall ==
    ASSUME MemInv, CallInv, [MemNext]_vars, call.op \in {"mmap", "fork"}
    PROVE  UNCHANGED vars \/ Step \/ Done
<1>1. call # Idle
    BY Ranges, Zenon
<1>2. ASSUME NEW p \in Procs, Start(p) PROVE call = Idle
  <2>1. CASE Spawn(p) \/ Exec(p) \/ \E c \in Procs : Fork(p, c)
      BY <2>1, Zenon DEF Spawn, Exec, Fork, NewSpace
  <2>2. CASE \/ Exit(p) \/ Destroy(p)
             \/ \E new \in BrkArgs : BrkShrink(p, new)
             \/ \E from \in UnmapArgs, n \in Lengths : sys_munmap(p, from, n)
      BY <2>2, Zenon DEF Exit, Destroy, BrkShrink, sys_munmap
  <2>3. CASE \/ \E new \in BrkArgs : BrkGrow(p, new)
             \/ \E n \in Lengths, write \in BOOLEAN : sys_mmap(p, n, write)
             \/ \E n \in Lengths, base \in MapArgs : sys_mmap_fixed(p, base, n, TRUE)
      BY <2>3, Zenon DEF BrkGrow, sys_mmap, sys_mmap_fixed, Map, Begin
  <2> QED BY <1>2, <2>1, <2>2, <2>3, Zenon DEF Start
<1> QED BY <1>1, <1>2, Zenon DEF MemNext

\* mmap maps clear pages only, and undoes them all when it runs out.
LEMMA MmapSteps == MemInv /\ CallInv /\ [MemNext]_vars => MmapStep
<1> SUFFICES ASSUME MemInv, CallInv, [MemNext]_vars, call.op = "mmap" PROVE MmapStep
    BY Zenon DEF MmapStep
<1>0. /\ call \in CallType /\ call.into \in Spaces /\ call.page \in Pages
      /\ pte \in [Spaces -> [Pages -> Entries]] /\ call # Idle
    BY CallTypes, Ranges, Zenon
<1>1. UNCHANGED vars \/ Step \/ Done
    BY DuringCall, Zenon
<1>2. CASE UNCHANGED vars \/ TakeTable
  <2>1. pte' = pte /\ call' = call
      BY <1>2, Zenon DEF vars, TakeTable
  <2> QED BY <1>0, <2>1, Zenon DEF MmapStep
<1>3. CASE TakeFrame
  <2>1. pte' = pte
      BY <1>3, Zenon DEF TakeFrame
  <2>2. \E f \in Frames : call'.frame = f
      BY <1>0, <1>3, Zenon DEF TakeFrame, CallType
  <2>3. call' # Idle
      BY <2>2, Ranges, Zenon
  <2> QED BY <2>1, <2>3, Zenon DEF MmapStep
<1>4. CASE MapPage
  <2>1. call.frame # NoFrame /\ call'.op = call.op
      BY <1>0, <1>4, Zenon DEF MapPage, CallType
  <2>2. call' # Idle
      BY <2>1, Ranges, Zenon
  <2>3. pte[call.into][call.page] = Unmapped
      BY <2>1, Zenon DEF CallInv, MapsFresh, Fresh
  <2>4. \A s \in Spaces, q \in Pages : s # call.into \/ q # call.page => pte'[s][q] = pte[s][q]
      BY <1>0, <1>4, Zenon DEF MapPage
  <2> QED BY <2>2, <2>3, <2>4, Zenon DEF MmapStep
<1>5. CASE Fail
  <2>1. UndoMap
      BY <1>5, Zenon DEF Fail, Undo
  <2>2. \A s \in Spaces, q \in Pages :
            pte'[s][q] = IF s = call.into /\ q \in call.done THEN Unmapped ELSE pte[s][q]
      BY <1>0, <2>1, Zenon DEF UndoMap
  <2>3. call.done \subseteq Pages
      BY <1>0, Zenon DEF CallType
  <2> QED BY <1>0, <2>2, <2>3, Zenon DEF MmapStep
<1>6. CASE Done
  <2>1. MapDone
    <3>1. /\ SpawnDone => call.op = "spawn"
          /\ ForkDone => call.op = "fork"
          /\ ExecDone => call.op = "exec"
          /\ BrkDone => call.op = "brk"
        BY Zenon DEF SpawnDone, ForkDone, ExecDone, BrkDone
    <3> QED BY <1>6, <3>1, Zenon DEF Done
  <2>2. pte' = pte /\ call.frame = NoFrame /\ call.todo = {}
      BY <2>1, Zenon DEF MapDone, AllMapped
  <2> QED BY <2>2, Zenon DEF MmapStep
<1> QED BY <1>1, <1>2, <1>3, <1>4, <1>5, <1>6, ZenonT(30) DEF Step

\* An mmap adds clear pages or, in the end, nothing: MmapAddsOrNothing.
THEOREM MmapAtomic == MemSpec => MmapAddsOrNothing
<1>1. MemInv /\ CallInv /\ [MemNext]_vars => [MmapStep]_vars
    BY MmapSteps, Zenon
<1>2. MemSpec => [][MmapStep]_vars
    BY <1>1, MemInvariant, CallInvariant, PTL DEF MemSpec
<1> QED BY <1>2, Zenon DEF MmapStep, MmapAddsOrNothing

\* A child only comes alive with the parent's pages.
LEMMA ForkSteps == MemInv /\ CallInv /\ [MemNext]_vars => ForkStep
<1> SUFFICES ASSUME MemInv, CallInv, [MemNext]_vars, call.op = "fork", call.into \in live',
                    NEW q \in Mapped(call.proc)
             PROVE  /\ pte[call.into][q].write = pte[call.proc][q].write
                    /\ pte[call.into][q] # Unmapped
                    /\ OwnsOnce(call.proc, q) => call.copy[q] = pte[call.proc][q].frame
    BY Zenon DEF ForkStep
<1>1. UNCHANGED vars \/ Step \/ Done
    BY DuringCall, Zenon
<1>2. call.into \notin live
    BY DEF CallInv, Placed
<1>3. ForkDone
  <2>1. UNCHANGED vars \/ Step => live' = live
      BY Zenon DEF vars, Step, TakeFrame, TakeTable, MapPage, Fail
  <2>2. Done
      BY <1>1, <1>2, <2>1, Zenon
  <2>3. /\ SpawnDone => call.op = "spawn"
        /\ ExecDone => call.op = "exec"
        /\ BrkDone => call.op = "brk"
        /\ MapDone => call.op = "mmap"
      BY Zenon DEF SpawnDone, ExecDone, BrkDone, MapDone
  <2> QED BY <2>2, <2>3, Zenon DEF Done
<1>4. call.todo = {} /\ call.frame = NoFrame
    BY <1>3, Zenon DEF ForkDone, AllMapped
<1>5. Comes(q, pte[call.proc][q].write)
    BY Zenon DEF CallInv, CopiesParent
<1>6. OwnsOnce(call.proc, q) => call.copy[q] = pte[call.proc][q].frame
    BY <1>4, Zenon DEF CallInv, CopiesFrames, Copies
<1> QED BY <1>4, <1>5, <1>6, AllCame, Zenon

\* fork: the child gets every page the parent has mapped, with the parent's
\* permissions, as a copy of the parent's frame where umap has but one for the
\* page: ForkCoversParent.
THEOREM ForkCovers == MemSpec => ForkCoversParent
<1>1. MemInv /\ CallInv /\ [MemNext]_vars => [ForkStep]_vars
    BY ForkSteps, SMTT(30)
<1>2. MemSpec => [][ForkStep]_vars
    BY <1>1, MemInvariant, CallInvariant, PTL DEF MemSpec
<1> QED BY <1>2, Zenon DEF ForkStep, ForkCoversParent

-----------------------------------------------------------------------------
(***************************************************************************)
(* A claim names its kind, its space and, for a table or a page, which.    *)
(***************************************************************************)
RootClaim(c, f) == \E s \in Spaces : c = <<"pml4", s, 0>> /\ cr3[s] = f
TableClaim(c, f) == \E s \in Spaces, t \in TableIds : c = <<"table", s, t>> /\ table[s][t] = f
PageClaim(c, f) == \E s \in Spaces, p \in Pages : c = <<"page", s, p>> /\ <<p, f>> \in umap[s]
CallClaim(c, f) == c = <<"call", Scratch, 0>> /\ call.frame = f

\* The four kinds of claim.
LEMMA ClaimsAre ==
    ASSUME NEW f, NEW c
    PROVE  c \in Claims(f) <=> \/ RootClaim(c, f) \/ TableClaim(c, f)
                               \/ PageClaim(c, f) \/ CallClaim(c, f)
<1>1. c \in {<<"pml4", s, 0>> : s \in {r \in Spaces : cr3[r] = f}} <=> RootClaim(c, f)
    BY Zenon DEF RootClaim
<1>2. c \in {x \in {"table"} \X Spaces \X TableIds : table[x[2]][x[3]] = f} <=> TableClaim(c, f)
    BY SMTT(30) DEF TableClaim
<1>3. c \in {x \in {"page"} \X Spaces \X Pages : <<x[3], f>> \in umap[x[2]]} <=> PageClaim(c, f)
  <2>1. ASSUME NEW x \in {"page"} \X Spaces \X Pages
        PROVE  x[2] \in Spaces /\ x[3] \in Pages /\ x = <<"page", x[2], x[3]>>
      OBVIOUS
  <2>2. ASSUME NEW x \in {"page"} \X Spaces \X Pages, <<x[3], f>> \in umap[x[2]]
        PROVE  PageClaim(x, f)
      BY <2>1, <2>2, Zenon DEF PageClaim
  <2>3. ASSUME NEW s \in Spaces, NEW p \in Pages, <<p, f>> \in umap[s], c = <<"page", s, p>>
        PROVE  /\ c \in {"page"} \X Spaces \X Pages
               /\ <<c[3], f>> \in umap[c[2]]
      BY <2>3, Zenon
  <2> QED BY <2>2, <2>3, ZenonT(30) DEF PageClaim
<1>4. c \in {<<"call", s, 0>> : s \in {r \in {Scratch} : call.frame = f}} <=> CallClaim(c, f)
    BY Zenon DEF CallClaim
<1> QED BY <1>1, <1>2, <1>3, <1>4, Zenon DEF Claims

\* Two claims on a frame are the same claim.
LEMMA ClaimIsOne ==
    ASSUME Apart, NEW f \in Frames, NEW c \in Claims(f), NEW d \in Claims(f)
    PROVE  c = d
<1>1. ASSUME NEW x, NEW y, RootClaim(x, f)
      PROVE  ~TableClaim(y, f) /\ ~PageClaim(y, f) /\ ~CallClaim(y, f)
                /\ (RootClaim(y, f) => x = y)
  <2>1. PICK s \in Spaces : x = <<"pml4", s, 0>> /\ cr3[s] = f
      BY <1>1, Zenon DEF RootClaim
  <2>2. ~TableClaim(y, f) /\ ~PageClaim(y, f) /\ ~CallClaim(y, f)
      BY <2>1, Zenon DEF TableClaim, PageClaim, CallClaim, Apart, RootsAreNoTables,
                         RootsAreNoPages, InHand
  <2>3. RootClaim(y, f) => x = y
      BY <2>1, Zenon DEF RootClaim, Apart, RootsDiffer
  <2> QED BY <2>2, <2>3, Zenon
<1>2. ASSUME NEW x, NEW y, TableClaim(x, f)
      PROVE  ~PageClaim(y, f) /\ ~CallClaim(y, f) /\ (TableClaim(y, f) => x = y)
  <2>1. PICK s \in Spaces, t \in TableIds : x = <<"table", s, t>> /\ table[s][t] = f
      BY <1>2, Zenon DEF TableClaim
  <2>2. ~PageClaim(y, f) /\ ~CallClaim(y, f)
      BY <2>1, ZenonT(30) DEF PageClaim, CallClaim, Apart, TablesAreNoPages, InHand
  <2>3. TableClaim(y, f) => x = y
      BY <2>1, Zenon DEF TableClaim, Apart, TablesDiffer
  <2> QED BY <2>2, <2>3, Zenon
<1>3. ASSUME NEW x, NEW y, PageClaim(x, f)
      PROVE  ~CallClaim(y, f) /\ (PageClaim(y, f) => x = y)
  <2>1. PICK s \in Spaces, p \in Pages : x = <<"page", s, p>> /\ <<p, f>> \in umap[s]
      BY <1>3, Zenon DEF PageClaim
  <2>2. ~CallClaim(y, f)
      BY <2>1, Zenon DEF CallClaim, Apart, InHand
  <2>3. PageClaim(y, f) => x = y
      BY <2>1, Zenon DEF PageClaim, Apart, PagesDiffer
  <2> QED BY <2>2, <2>3, Zenon
<1>4. ASSUME NEW x, NEW y, CallClaim(x, f), CallClaim(y, f) PROVE x = y
    BY <1>4, Zenon DEF CallClaim
<1> QED BY <1>1, <1>2, <1>3, <1>4, ClaimsAre, Zenon

(***************************************************************************)
(* The frame bitmap is exact in every state: a used frame has one holder,  *)
(* a free one none, whatever call was interrupted by running out where     *)
(* (pmm.c, vmm.c, user_mem.c and process.c together).                      *)
(***************************************************************************)
THEOREM FramesAccounted == MemSpec => []FramesHaveOneHolder
<1>1. MemInv => FramesHaveOneHolder
  <2> SUFFICES ASSUME MemInv, NEW f \in Frames
               PROVE  Cardinality(Claims(f)) = IF f \in used THEN 1 ELSE 0
      BY Zenon DEF FramesHaveOneHolder
  <2>1. f \in used <=> \E c : c \in Claims(f)
    <3>1. f \in used <=> Held(f)
        BY Zenon DEF MemInv, UsedIsHeld
    <3>2. ASSUME Held(f) PROVE \E c : c \in Claims(f)
        BY <3>2, ClaimsAre, Zenon DEF Held, Owns, RootClaim, TableClaim, PageClaim, CallClaim
    <3>3. ASSUME NEW c \in Claims(f) PROVE Held(f)
        BY ClaimsAre, Zenon DEF Held, Owns, RootClaim, TableClaim, PageClaim, CallClaim
    <3> QED BY <3>1, <3>2, <3>3, Zenon
  <2>2. CASE f \in used
    <3>1. PICK c : c \in Claims(f)
        BY <2>1, <2>2, Zenon
    <3>2. Claims(f) = {c}
        BY <3>1, ClaimIsOne DEF MemInv
    <3> QED BY <2>2, <3>2, FS_Singleton, Zenon
  <2>3. CASE f \notin used
    <3>1. Claims(f) = {}
        BY <2>1, <2>3, Zenon
    <3> QED BY <2>3, <3>1, FS_EmptySet, Zenon
  <2> QED BY <2>2, <2>3, Zenon
<1> QED BY <1>1, MemInvariant, PTL

(***************************************************************************)
(* No process can reach memory that is not its own: what its page tables   *)
(* map is in use, is no page table and is mapped nowhere else.             *)
(***************************************************************************)
THEOREM SpacesIsolated == MemSpec => []SpacesAreIsolated
<1>1. MemInv => SpacesAreIsolated
  <2> SUFFICES ASSUME MemInv, NEW s \in Spaces, NEW p \in Mapped(s)
               PROVE  /\ pte[s][p].frame \in used
                      /\ \A r \in Spaces :
                            /\ pte[s][p].frame # cr3[r] /\ pte[s][p].frame \notin TableFrames(r)
                            /\ \A q \in Mapped(r) :
                                  pte[r][q].frame = pte[s][p].frame => r = s /\ q = p
      BY Zenon DEF SpacesAreIsolated
  <2>1. PICK f : f = pte[s][p].frame
      BY Zenon
  <2>2. p \in Pages /\ f \in Frames /\ <<p, f>> \in umap[s]
    <3>1. p \in Pages /\ pte[s][p] \in Entries /\ pte[s][p] # Unmapped
        BY Zenon DEF Mapped, MemInv, MemType
    <3> QED BY <2>1, <3>1, Zenon DEF Entries, MemInv, MappedIsOwned
  <2>3. f \in used
      BY <2>2, Zenon DEF MemInv, UsedIsHeld, Held, Owns
  <2>4. ASSUME NEW r \in Spaces PROVE f # cr3[r] /\ f \notin TableFrames(r)
      BY <2>2, Zenon DEF MemInv, Apart, RootsAreNoPages, TablesAreNoPages, TableFrames
  <2>5. ASSUME NEW r \in Spaces, NEW q \in Mapped(r), pte[r][q].frame = f PROVE r = s /\ q = p
    <3>1. q \in Pages /\ <<q, f>> \in umap[r]
        BY <2>5, Zenon DEF Mapped, MemInv, MappedIsOwned
    <3> QED BY <2>2, <3>1, Zenon DEF MemInv, Apart, PagesDiffer
  <2> QED BY <2>1, <2>3, <2>4, <2>5, Zenon
<1> QED BY <1>1, MemInvariant, PTL
=============================================================================
