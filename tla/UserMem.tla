-------------------------------- MODULE UserMem --------------------------------
(***************************************************************************)
(* The memory of user processes: the frame bitmap (kernel/mm/pmm.c), the   *)
(* page tables (mm/vmm.c), the pages a process owns (umap in               *)
(* proc/process.c), its heap and anonymous mappings (mm/user_mem.c) and    *)
(* the calls on them (syscall/syscall.c).                                  *)
(*                                                                         *)
(* A call that takes frames does so one at a time and may run out at any   *)
(* point.  It is a sequence of steps here, one per frame taken, with what  *)
(* is in progress in `call'; nothing else runs until it is over, since     *)
(* system calls run with interrupts off.  Calls that only release, and     *)
(* the undoing of a call that failed, are single steps.                    *)
(*                                                                         *)
(* An address is a number of half pages: page p covers 2 p and 2 p + 1, so *)
(* a break may lie inside a page.  PTE permissions other than WRITE are    *)
(* left out; of what is in a page, only the frame fork copied it from.     *)
(*                                                                         *)
(* A definition marked Mutant is no part of the model (see Scheduler).     *)
(***************************************************************************)
EXTENDS Integers, Sequences, FiniteSets

CONSTANTS
    Frames,     \* usable physical frames
    Procs,      \* process slots
    Scratch,    \* execve's transient process_t
    PageCount,  \* the user half, in pages
    MmapTop,    \* USER_MMAP_TOP: the stack's lowest page
    ImageEnd,   \* the first page above the image, which starts at page 0
    TableIds,   \* PDPTs, PDs and PTs
    TablePath,  \* those on the way to a page, outermost first
    MaxUmap,    \* the length of umap, 256
    BrkArgs, MapArgs, UnmapArgs, Lengths, \* bounds: the calls' arguments
    MaxCalls    \* bound: the number of calls made

Pages == 0 .. PageCount - 1
Spaces == Procs \cup {Scratch}
ImagePages == 0 .. ImageEnd - 1
StackPages == MmapTop .. PageCount - 1

\* Frame 0 is never handed out: 0 is the allocator's failure.
NoFrame == 0

ASSUME MemAssumption ==
    /\ Frames \subseteq Nat \ {NoFrame} /\ IsFiniteSet(Frames)
    /\ Scratch \notin Procs
    /\ {PageCount, MmapTop, ImageEnd, MaxUmap, MaxCalls} \subseteq Nat
    /\ TablePath \in [Pages -> Seq(TableIds)]
    \* The images spawn and execve load end below the stack.
    /\ ImageEnd < MmapTop /\ MmapTop < PageCount
    /\ MapArgs \subseteq Pages /\ UnmapArgs \subseteq Pages
    /\ BrkArgs \subseteq 0 .. 2 * PageCount /\ Lengths \subseteq Nat \ {0}

VARIABLES
    used,       \* the frames whose bit is set
    cr3,        \* the PML4 of each space
    table,      \* its page tables
    pte,        \* its leaf entries
    umap,       \* the pages it owns, with their frames
    brk,        \* brk_current
    live,       \* the slots with a process that has been built and not exited
    call,       \* the call in progress
    calls       \* the number of calls made

vars == <<used, cr3, table, pte, umap, brk, live, call, calls>>

Unmapped == [frame |-> NoFrame, write |-> FALSE]
Idle == [op |-> "none", proc |-> Scratch, into |-> Scratch, todo |-> {}, done |-> {},
         page |-> 0, write |-> FALSE, from |-> NoFrame, frame |-> NoFrame, brk |-> 0,
         copy |-> [q \in Pages |-> NoFrame]]

HeapStart == 2 * ImageEnd
PageOf(a) == a \div 2
CeilPage(a) == (a + 1) \div 2

UmapFrames(s) == {e[2] : e \in umap[s]}
TableFrames(s) == {table[s][t] : t \in TableIds} \ {NoFrame}
Mapped(s) == {p \in Pages : pte[s][p] # Unmapped}

\* What a call still has to map: a page, whether it is writable, and the frame
\* it is a copy of, if any.
Items(pages, write) == pages \X {write} \X {NoFrame}

-----------------------------------------------------------------------------
\* pmm_alloc_frame hands out the lowest frame whose bit is clear.
NextFrame(f) == f \in Frames \ used /\ \A g \in Frames \ used : f <= g

Exhausted == Frames \subseteq used

\* The first table missing on the way to a page (vmm_map_page).
Missing(s, page) ==
    {i \in 1 .. Len(TablePath[page]) :
        /\ table[s][TablePath[page][i]] = NoFrame
        /\ \A j \in 1 .. i - 1 : table[s][TablePath[page][j]] # NoFrame}

-----------------------------------------------------------------------------
MemInit ==
    /\ used = {}
    /\ cr3 = [s \in Spaces |-> NoFrame]
    /\ table = [s \in Spaces |-> [t \in TableIds |-> NoFrame]]
    /\ pte = [s \in Spaces |-> [p \in Pages |-> Unmapped]]
    /\ umap = [s \in Spaces |-> {}]
    /\ brk = [s \in Spaces |-> 0]
    /\ live = {}
    /\ call = Idle
    /\ calls = 0

\* The start of a call that fills a new space: its PML4.
NewSpace(s, c) ==
    /\ call = Idle /\ cr3[s] = NoFrame
    /\ \E f \in Frames :
          /\ NextFrame(f)
          /\ used' = used \cup {f}
          /\ cr3' = [cr3 EXCEPT ![s] = f]
    /\ call' = c
    /\ UNCHANGED <<table, pte, umap, brk, live>>

\* What elf_load_into_process maps: the image and the stack.
Program == Items(ImagePages, FALSE) \cup Items(StackPages, TRUE)

Spawn(p) == NewSpace(p, [Idle EXCEPT !.op = "spawn", !.proc = p, !.into = p, !.todo = Program])

\* Mutant: the new frame is left zeroed.
ForkZeroed(p, c) ==
    /\ p \in live
    /\ NewSpace(c, [Idle EXCEPT !.op = "fork", !.proc = p, !.into = c,
                       !.todo = {<<e[1], pte[p][e[1]].write, NoFrame>> : e \in umap[p]}])

\* fork copies the frames umap lists, with the parent's PTE flags.
Fork(p, c) ==
    /\ p \in live
    /\ NewSpace(c, [Idle EXCEPT !.op = "fork", !.proc = p, !.into = c,
                       !.todo = {<<e[1], pte[p][e[1]].write, e[2]>> : e \in umap[p]}])

Exec(p) ==
    /\ p \in live
    /\ NewSpace(Scratch, [Idle EXCEPT !.op = "exec", !.proc = p, !.todo = Program])

Begin(c) ==
    /\ call = Idle
    /\ call' = c
    /\ UNCHANGED <<used, cr3, table, pte, umap, brk, live>>

\* The pages um_brk_grow visits, a page's length apart from the old break on.
GrowPages(old, new) == {PageOf(a) : a \in {b \in old .. new - 1 : (b - old) % 2 = 0}}

BrkGrow(p, new) ==
    /\ p \in live
    /\ new > brk[p]
    /\ Begin([Idle EXCEPT !.op = "brk", !.proc = p, !.into = p, !.brk = new,
                 !.todo = Items(GrowPages(brk[p], new), TRUE)])

\* Mutant: the last page is not looked at.
RangeClearShort(p, base, n) ==
    \A q \in base .. base + n - 2 : q \in Pages /\ pte[p][q] = Unmapped

um_range_clear(p, base, n) == \A q \in base .. base + n - 1 : q \in Pages /\ pte[p][q] = Unmapped

\* um_mmap_reserve: the highest clear window between the break and the stack.
\* Where there is none, the search ends at occ, the highest page mapped below
\* floor + n.  If occ < n then occ - n wraps, the window from there up counts as
\* clear, and mmap succeeds without a page.
um_mmap_reserve(p, n) ==
    LET floor == CeilPage(brk[p])
        fits == {b \in Pages : b >= floor /\ b + n <= MmapTop /\ um_range_clear(p, b, n)}
        wraps == /\ fits = {} /\ floor + n <= MmapTop
                 /\ \A q \in Mapped(p) : q < floor + n => q < n
    IN  {b .. b + n - 1 : b \in {c \in fits : \A d \in fits : d <= c}}
          \cup {w \in {{}} : wraps}

Map(p, window, write) ==
    Begin([Idle EXCEPT !.op = "mmap", !.proc = p, !.into = p, !.todo = Items(window, write)])

sys_mmap(p, n, write) ==
    /\ p \in live
    /\ \E window \in um_mmap_reserve(p, n) : Map(p, window, write)

sys_mmap_fixed(p, base, n, write) ==
    /\ p \in live
    /\ base < MmapTop
    /\ um_range_clear(p, base, n)
    /\ Map(p, base .. base + n - 1, write)

-----------------------------------------------------------------------------
\* The next page of a call: in address order, but for fork, which goes by umap,
\* whose order removals permute.
Turn(item) == call.op = "fork" \/ \A other \in call.todo : item[1] <= other[1]

\* A frame for it, zeroed or copied into.
TakeFrame ==
    /\ call.frame = NoFrame
    /\ \E item \in call.todo, f \in Frames :
          /\ Turn(item) /\ NextFrame(f)
          /\ used' = used \cup {f}
          /\ call' = [call EXCEPT !.frame = f, !.page = item[1], !.write = item[2],
                                  !.from = item[3], !.todo = @ \ {item}]
    /\ UNCHANGED <<cr3, table, pte, umap, brk, live>>

UmapFull == Cardinality(umap[call.into]) >= MaxUmap

\* walk_or_create on a missing level.
TakeTable ==
    /\ call.frame # NoFrame /\ ~UmapFull
    /\ \E i \in Missing(call.into, call.page), f \in Frames :
          /\ NextFrame(f)
          /\ used' = used \cup {f}
          /\ table' = [table EXCEPT ![call.into][TablePath[call.page][i]] = f]
    /\ UNCHANGED <<cr3, pte, umap, brk, live, call>>

\* The leaf entry is written over whatever it held, and the page recorded.
MapPage ==
    /\ call.frame # NoFrame /\ ~UmapFull
    /\ Missing(call.into, call.page) = {}
    /\ pte' = [pte EXCEPT ![call.into][call.page] = [frame |-> call.frame, write |-> call.write]]
    /\ umap' = [umap EXCEPT ![call.into] = @ \cup {<<call.page, call.frame>>}]
    /\ call' = [call EXCEPT !.frame = NoFrame, !.done = @ \cup {call.page},
                            !.copy[call.page] = call.from]
    /\ UNCHANGED <<used, cr3, table, brk, live>>

\* Mutant: the tables of a space are not given back with it.
ReleasedButTables(s) == UmapFrames(s) \cup {cr3[s]}

\* The frames process_destroy_user_space gives back.
Released(s) == UmapFrames(s) \cup TableFrames(s) \cup {cr3[s]}

\* A space without its user half.
Emptied(s) ==
    /\ cr3' = [cr3 EXCEPT ![s] = NoFrame]
    /\ table' = [table EXCEPT ![s] = [t \in TableIds |-> NoFrame]]
    /\ pte' = [pte EXCEPT ![s] = [p \in Pages |-> Unmapped]]
    /\ umap' = [umap EXCEPT ![s] = {}]

\* Mutant: the pages mapped so far stay.
UndoNothing == UNCHANGED <<used, cr3, table, pte, umap>>

\* What sys_mmap undoes when it runs out: the leaf entries, not umap.
UndoMap ==
    /\ pte' = [pte EXCEPT ![call.into] =
                  [p \in Pages |-> IF p \in call.done THEN Unmapped ELSE pte[call.into][p]]]
    /\ used' = used \ {call.frame}
    /\ UNCHANGED <<cr3, table, umap>>

\* The call cannot go on: the frame in hand goes back; a new space is torn
\* down, a mapping undone, a heap left as far as it got.
Undo ==
    \/ /\ call.op \in {"spawn", "fork", "exec"}
       /\ used' = used \ (Released(call.into) \cup {call.frame})
       /\ Emptied(call.into)
    \/ call.op = "mmap" /\ UndoMap
    \/ /\ call.op = "brk"
       /\ used' = used \ {call.frame}
       /\ UNCHANGED <<cr3, table, pte, umap>>

\* Where it can happen: no frame for a page or a table, or umap is full.  The
\* kernel stack, taken last by spawn and fork, may be refused too.
Stuck ==
    \/ call.frame = NoFrame /\ call.todo # {} /\ Exhausted
    \/ call.frame # NoFrame /\ UmapFull
    \/ call.frame # NoFrame /\ Missing(call.into, call.page) # {} /\ Exhausted
    \/ call.frame = NoFrame /\ call.todo = {} /\ call.op \in {"spawn", "fork"}

Fail ==
    /\ call # Idle /\ Stuck
    /\ Undo
    /\ call' = Idle
    /\ UNCHANGED <<brk, live>>

AllMapped == call # Idle /\ call.frame = NoFrame /\ call.todo = {} /\ call' = Idle

\* brk_init: the break starts a page above the image.
SpawnDone ==
    /\ call.op = "spawn" /\ AllMapped
    /\ brk' = [brk EXCEPT ![call.into] = HeapStart + 2]
    /\ live' = live \cup {call.into}
    /\ UNCHANGED <<used, cr3, table, pte, umap>>

ForkDone ==
    /\ call.op = "fork" /\ AllMapped
    /\ brk' = [brk EXCEPT ![call.into] = brk[call.proc]]
    /\ live' = live \cup {call.into}
    /\ UNCHANGED <<used, cr3, table, pte, umap>>

\* The old space goes, the scratch one takes its place.
ExecDone ==
    LET p == call.proc
        moved(x, none) == [x EXCEPT ![p] = x[Scratch], ![Scratch] = none]
    IN
    /\ call.op = "exec" /\ AllMapped
    /\ used' = used \ Released(p)
    /\ cr3' = moved(cr3, NoFrame)
    /\ table' = moved(table, [t \in TableIds |-> NoFrame])
    /\ pte' = moved(pte, [q \in Pages |-> Unmapped])
    /\ umap' = moved(umap, {})
    /\ brk' = [brk EXCEPT ![p] = HeapStart + 2]
    /\ UNCHANGED live

BrkDone ==
    /\ call.op = "brk" /\ AllMapped
    /\ brk' = [brk EXCEPT ![call.into] = call.brk]
    /\ UNCHANGED <<used, cr3, table, pte, umap, live>>

MapDone ==
    /\ call.op = "mmap" /\ AllMapped
    /\ UNCHANGED <<used, cr3, table, pte, umap, brk, live>>

-----------------------------------------------------------------------------
\* Mutant: the frames go back, the leaf entries stay.
ReleaseStillMapped(p, from) ==
    LET gone == {e \in umap[p] : e[1] >= from /\ e[1] < MmapTop}
    IN  /\ used' = used \ {e[2] : e \in gone}
        /\ umap' = [umap EXCEPT ![p] = @ \ gone]
        /\ UNCHANGED pte

\* um_release_from: every page the process owns from there up to the stack.
um_release_from(p, from) ==
    LET gone == {e \in umap[p] : e[1] >= from /\ e[1] < MmapTop}
    IN  /\ used' = used \ {e[2] : e \in gone}
        /\ umap' = [umap EXCEPT ![p] = @ \ gone]
        /\ pte' = [pte EXCEPT ![p] = [q \in Pages |->
                      IF q \in {e[1] : e \in gone} THEN Unmapped ELSE pte[p][q]]]

BrkShrink(p, new) ==
    /\ call = Idle /\ p \in live
    /\ new >= HeapStart /\ new < brk[p]
    /\ um_release_from(p, CeilPage(new))
    /\ brk' = [brk EXCEPT ![p] = new]
    /\ UNCHANGED <<cr3, table, live, call>>

\* The length only decides whether the call is refused.
sys_munmap(p, from, n) ==
    /\ call = Idle /\ p \in live
    /\ from + n <= MmapTop
    /\ um_release_from(p, from)
    /\ UNCHANGED <<cr3, table, brk, live, call>>

\* process_exit_current gives back the pages and keeps the tables.
Exit(p) ==
    /\ call = Idle /\ p \in live
    /\ used' = used \ UmapFrames(p)
    /\ umap' = [umap EXCEPT ![p] = {}]
    /\ pte' = [pte EXCEPT ![p] = [q \in Pages |->
                  IF q \in {e[1] : e \in umap[p]} THEN Unmapped ELSE pte[p][q]]]
    /\ live' = live \ {p}
    /\ UNCHANGED <<cr3, table, brk, call>>

\* process_destroy, of a zombie.
Destroy(p) ==
    /\ call = Idle /\ p \notin live /\ cr3[p] # NoFrame
    /\ used' = used \ Released(p)
    /\ Emptied(p)
    /\ UNCHANGED <<brk, live, call>>

Step == TakeFrame \/ TakeTable \/ MapPage \/ Fail

Done == SpawnDone \/ ForkDone \/ ExecDone \/ BrkDone \/ MapDone

Start(p) ==
    \/ Spawn(p) \/ Exec(p) \/ Exit(p) \/ Destroy(p)
    \/ \E c \in Procs : Fork(p, c)
    \/ \E new \in BrkArgs : BrkGrow(p, new) \/ BrkShrink(p, new)
    \/ \E n \in Lengths :
          \/ \E write \in BOOLEAN : sys_mmap(p, n, write)
          \/ \E base \in MapArgs : sys_mmap_fixed(p, base, n, TRUE)
          \/ \E from \in UnmapArgs : sys_munmap(p, from, n)

MemNext ==
    \/ (Step \/ Done) /\ UNCHANGED calls
    \/ calls < MaxCalls /\ calls' = calls + 1 /\ \E p \in Procs : Start(p)

MemSpec == MemInit /\ [][MemNext]_vars

-----------------------------------------------------------------------------
Entries == [frame : Frames, write : BOOLEAN] \cup {Unmapped}

\* Everything that counts on a frame.
Claims(f) ==
    {<<"pml4", s, 0>> : s \in {r \in Spaces : cr3[r] = f}}
      \cup {c \in {"table"} \X Spaces \X TableIds : table[c[2]][c[3]] = f}
      \cup {c \in {"page"} \X Spaces \X Pages : <<c[3], f>> \in umap[c[2]]}
      \cup {<<"call", s, 0>> : s \in {r \in {Scratch} : call.frame = f}}

(***************************************************************************)
(* The bitmap is exact in every state, also between the frames of a call   *)
(* and after one that ran out half way: a frame is marked used exactly     *)
(* when one thing holds it, a page, a page table or a PML4 of one space,   *)
(* or the call in progress.  None leaks and none is freed twice.           *)
(***************************************************************************)
FramesHaveOneHolder ==
    \A f \in Frames : Cardinality(Claims(f)) = IF f \in used THEN 1 ELSE 0

(***************************************************************************)
(* No process can reach memory that is not its own: a frame a page maps is *)
(* in use, is no page table, and is mapped nowhere else.                   *)
(***************************************************************************)
SpacesAreIsolated ==
    \A s \in Spaces : \A p \in Mapped(s) :
        LET f == pte[s][p].frame IN
        /\ f \in used
        /\ \A r \in Spaces :
              /\ f # cr3[r] /\ f \notin TableFrames(r)
              /\ \A q \in Mapped(r) : pte[r][q].frame = f => r = s /\ q = p

(***************************************************************************)
(* "no process can unmap its own stack" (user_mem.c), and nothing but the  *)
(* process itself puts other pages there: a stack page of a living process *)
(* stays writable and keeps its frame, whatever is mapped, unmapped or     *)
(* undone, until an execve of that process or a break it moves past the    *)
(* stack's floor, which um_brk_grow does not refuse.                       *)
(***************************************************************************)
StackIsKept ==
    [][\A p \in live' : \A q \in StackPages :
          /\ pte'[p][q].write
          /\ p \in live /\ pte'[p][q].frame # pte[p][q].frame =>
                /\ call.proc = p
                /\ call.op = "exec" \/ (call.op = "brk" /\ call.brk > 2 * MmapTop)]_vars

(***************************************************************************)
(* An mmap that fails half way leaves no page of it mapped, and one that   *)
(* succeeds has mapped pages that were not mapped before; either way the   *)
(* pages around it, heap, image and stack, are as they were.               *)
(***************************************************************************)
MmapAddsOrNothing ==
    [][/\ call.op = "mmap" => \A s \in Spaces : \A q \in Pages \ call.done :
             pte'[s][q] # pte[s][q] =>
                /\ s = call.into /\ q = call.page /\ pte[s][q] = Unmapped
       /\ call.op = "mmap" /\ call' = Idle /\ (call.frame # NoFrame \/ call.todo # {}) =>
             \A q \in call.done : pte'[call.into][q] = Unmapped]_vars

\* umap has one frame for the page.
OwnsOnce(p, q) == \A e, d \in umap[p] : e[1] = q /\ d[1] = q => e = d

(***************************************************************************)
(* "the child gets a private copy of every user page the parent has        *)
(* mapped" (process.c), with the parent's permissions.  The copy is of the *)
(* frame the parent maps where umap has one frame for the page; of a page  *)
(* mapped over, fork may copy the frame that lies under it.                *)
(***************************************************************************)
ForkCoversParent ==
    [][call.op = "fork" /\ call.into \in live' =>
          \A q \in Mapped(call.proc) :
              /\ pte[call.into][q].write = pte[call.proc][q].write
              /\ pte[call.into][q] # Unmapped
              /\ OwnsOnce(call.proc, q) => call.copy[q] = pte[call.proc][q].frame]_vars
=============================================================================
