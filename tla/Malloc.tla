-------------------------------- MODULE Malloc --------------------------------
(***************************************************************************)
(* The userland allocator (userland/libc/malloc.c), at the level of what   *)
(* is in memory: boundary tags, free-list links and the program's data.    *)
(*                                                                         *)
(* Addresses and sizes are in granules of 16 bytes from a_start.  A header *)
(* or a footer is a granule, and so are the two links of a free block.     *)
(* The program fills what it gets with its own mark, never writes outside  *)
(* it, wipes it and frees it once, and leaves the break alone.             *)
(*                                                                         *)
(* A definition marked Mutant is no part of the model (see Scheduler).     *)
(***************************************************************************)
EXTENDS Integers, Sequences, FiniteSets

CONSTANTS
    Page,       \* PAGE_SZ
    MaxPages,   \* bound: how far the break can go
    Ids,        \* bound: the objects a program has at a time
    Sizes,      \* bound: the sizes it asks for
    Threshold   \* MALLOC_MMAP_THRESHOLD

MIN_BLOCK == 3
NULL == -1
ASSUME MallocAssumption ==
    /\ Page \in Nat /\ Page >= MIN_BLOCK
    /\ MaxPages \in Nat
    /\ Sizes \subseteq Nat /\ Threshold \in Nat \ {0}

VARIABLES
    arena,      \* [mem, a_end, free_head]: the break heap
    live        \* what the program holds: where, how large, which granules lost

vars == <<arena, live>>

Top == Page * MaxPages

Tag(size, alloc, prev) == [kind |-> "tag", size |-> size, alloc |-> alloc, prev |-> prev]
Node(prev, next) == [kind |-> "node", prev |-> prev, next |-> next]
Data(id) == [kind |-> "data", of |-> id]
Zero == [kind |-> "zero"]
None == [at |-> NULL, size |-> 0, lost |-> {}, mapped |-> FALSE]

\* An object with a mapping of its own; a realloc keeps that or gets another.
Mapping == [None EXCEPT !.mapped = TRUE]

-----------------------------------------------------------------------------
(***************************************************************************)
(* The free list.  H and FN read a block's header and links; each operator *)
(* below maps an arena to the arena after it.                              *)
(***************************************************************************)
H(a, b) == a.mem[b]
FN(a, b) == a.mem[b + 1]
SetH(a, b, tag) == [a EXCEPT !.mem[b] = tag]

SetNext(a, b, n) == IF b = NULL THEN [a EXCEPT !.free_head = n] ELSE [a EXCEPT !.mem[b + 1].next = n]
SetPrev(a, b, p) == IF b = NULL THEN a ELSE [a EXCEPT !.mem[b + 1].prev = p]

fl_unlink(a, b) ==
    LET n == FN(a, b)
        c == SetPrev(SetNext(a, n.prev, n.next), n.next, n.prev)
    IN  [c EXCEPT !.mem[b + 1] = Node(NULL, NULL)]

\* FOOT(b), the block's last granule, mirrors its header.
WriteFooter(a, b) == [a EXCEPT !.mem[b + H(a, b).size - 1] = H(a, b)]

\* The PREV bit of the block after b.
SetNextPrev(a, b, prev) ==
    LET nx == b + H(a, b).size
    IN  IF nx < a.a_end THEN [a EXCEPT !.mem[nx].prev = prev] ELSE a

\* Mutant: the block after is not told that this one is free.
InsertNoFence(a, b) ==
    LET linked == SetPrev([a EXCEPT !.mem[b + 1] = Node(NULL, a.free_head)], a.free_head, b)
    IN  WriteFooter([linked EXCEPT !.free_head = b], b)

fl_insert(a, b) ==
    LET linked == SetPrev([a EXCEPT !.mem[b + 1] = Node(NULL, a.free_head)], a.free_head, b)
    IN  SetNextPrev(WriteFooter([linked EXCEPT !.free_head = b], b), b, TRUE)

\* The block after b, if it is free, becomes part of it.
AbsorbNext(a, b) ==
    LET nx == b + H(a, b).size
    IN  IF nx < a.a_end /\ ~H(a, nx).alloc
        THEN fl_unlink([a EXCEPT !.mem[b].size = @ + H(a, nx).size], nx)
        ELSE a

insert_free(a, b) == fl_insert(AbsorbNext(a, b), b)

\* The free blocks in list order.
FreeList(a) ==
    LET from[k \in 0 .. Top] ==
            IF k = 0 THEN <<>>
            ELSE LET l == from[k - 1]
                     n == IF l = <<>> THEN a.free_head ELSE FN(a, l[Len(l)]).next
                 IN  IF n = NULL THEN l ELSE Append(l, n)
    IN  from[Top \div MIN_BLOCK]

-----------------------------------------------------------------------------
Least(a, b) == IF a < b THEN a ELSE b

size_to_need(size) == IF size + 1 < MIN_BLOCK THEN MIN_BLOCK ELSE size + 1

top_free_block(a) == {b \in {FreeList(a)[i] : i \in DOMAIN FreeList(a)} : b + H(a, b).size = a.a_end}

Chunk(need) == ((need + Page - 1) \div Page) * Page

\* arena_grow, with the break where the arena ends.
arena_grow(a, need) ==
    LET chunk == Chunk(need)
        grown == [a EXCEPT !.a_end = @ + chunk]
    IN  IF top_free_block(a) # {}
        THEN LET b == CHOOSE x \in top_free_block(a) : TRUE
             IN  WriteFooter([grown EXCEPT !.mem[b].size = @ + chunk], b)
        ELSE fl_insert(SetH(grown, a.a_end, Tag(chunk, FALSE, FALSE)), a.a_end)

\* Where the first fit is: none, or the first of the list.
FirstFit(a, need) ==
    LET l == FreeList(a)
        fits == {i \in DOMAIN l : H(a, l[i]).size >= need}
    IN  {l[i] : i \in {j \in fits : \A k \in fits : j <= k}}

\* Block b is cut to need, or taken whole.
Cut(a, b, need) ==
    LET rest == H(a, b).size - need
    IN  IF rest >= MIN_BLOCK
        THEN insert_free(SetH(SetH(fl_unlink(a, b), b, Tag(need, TRUE, H(a, b).prev)),
                              b + need, Tag(rest, FALSE, FALSE)), b + need)
        ELSE fl_unlink(SetNextPrev([a EXCEPT !.mem[b].alloc = TRUE], b, FALSE), b)

heap_free(a, b) ==
    LET right == AbsorbNext(a, b)
        left == b - H(a, b - 1).size
    IN  IF H(right, b).prev
        THEN fl_insert(fl_unlink([right EXCEPT !.mem[left].size = @ + H(right, b).size,
                                               !.mem[left].alloc = FALSE], left), left)
        ELSE fl_insert([right EXCEPT !.mem[b].alloc = FALSE], b)

\* The arenas heap_alloc can leave, with the block; growing may be refused.
Grown(a, need) == IF a.a_end + Chunk(need) <= Top THEN {arena_grow(a, need)} ELSE {}

heap_alloc(a, size) ==
    LET need == size_to_need(size)
        ready == IF FirstFit(a, need) # {} THEN {a} ELSE Grown(a, need)
    IN  UNION {{[arena |-> Cut(r, b, need), at |-> b] : b \in FirstFit(r, need)} : r \in ready}

-----------------------------------------------------------------------------
\* The program writes v into granules `from' to `to' of what is at b.
Fill(a, b, v, from, to) ==
    [a EXCEPT !.mem = [g \in 0 .. Top - 1 |-> IF g - b \in from .. to THEN v ELSE a.mem[g]]]

Init ==
    /\ arena = [mem |-> [g \in 0 .. Top - 1 |-> Zero], a_end |-> 0, free_head |-> NULL]
    /\ live = [id \in Ids |-> None]

Holds(id) == live[id] # None
InArena(id) == Holds(id) /\ ~live[id].mapped

\* An allocation of the arena.
malloc(id, size) ==
    /\ ~Holds(id) /\ size < Threshold
    /\ \E r \in heap_alloc(arena, size) :
          /\ arena' = Fill(r.arena, r.at, Data(id), 1, size)
          /\ live' = [live EXCEPT ![id] = [at |-> r.at, size |-> size, lost |-> {}, mapped |-> FALSE]]

\* A large one gets a mapping of its own, if the kernel has one.
malloc_mmap(id, size) ==
    /\ ~Holds(id) /\ size >= Threshold
    /\ live' = [live EXCEPT ![id] = Mapping]
    /\ UNCHANGED arena

free(id) ==
    /\ Holds(id)
    /\ arena' = IF InArena(id)
                THEN heap_free(Fill(arena, live[id].at, Zero, 1, live[id].size), live[id].at)
                ELSE arena
    /\ live' = [live EXCEPT ![id] = None]

\* realloc to less or the same: the tail, if large enough, becomes a free block,
\* and a footer is written at the end of what stays allocated, into the
\* program's last granule unless the block is larger than what was asked for.
realloc_shrink(id, size) ==
    LET b == live[id].at
        need == size_to_need(size)
        old == H(arena, b).size
        tail == SetH(arena, b + need, Tag(old - need, FALSE, FALSE))
        cut == WriteFooter([insert_free(tail, b + need) EXCEPT !.mem[b].size = need], b)
    IN  /\ InArena(id) /\ size > 0 /\ need <= old
        /\ IF old - need >= MIN_BLOCK
           THEN /\ arena' = Fill(cut, b, Data(id), live[id].size + 1, size)
                /\ live' = [live EXCEPT ![id].size = size,
                               ![id].lost = (@ \cup {need - 1}) \cap (1 .. Least(size, live[id].size))]
           ELSE /\ arena' = Fill(arena, b, Data(id), live[id].size + 1, size)
                /\ live' = [live EXCEPT ![id].size = size, ![id].lost = @ \cap (1 .. size)]

\* Mutant: the old block is not freed.
CopyOnly(a, r, b, n) ==
    [r.arena EXCEPT !.mem = [g \in 0 .. Top - 1 |->
        IF g - r.at \in 1 .. n THEN r.arena.mem[g - r.at + b] ELSE r.arena.mem[g]]]

\* Mutant: the old block is freed before it is copied.
CopyAfterFree(a, r, b, n) ==
    LET freed == heap_free(r.arena, b)
    IN  [freed EXCEPT !.mem = [g \in 0 .. Top - 1 |->
            IF g - r.at \in 1 .. n THEN freed.mem[g - r.at + b] ELSE freed.mem[g]]]

\* The new block gets the old one's payload, then the old one is freed.
CopyThenFree(a, r, b, n) ==
    heap_free([r.arena EXCEPT !.mem = [g \in 0 .. Top - 1 |->
        IF g - r.at \in 1 .. n THEN r.arena.mem[g - r.at + b] ELSE r.arena.mem[g]]], b)

\* realloc to more, inside the arena.
realloc_grow(id, size) ==
    LET b == live[id].at
        old == H(arena, b).size
    IN  /\ InArena(id) /\ size_to_need(size) > old /\ size < Threshold
        /\ \E r \in heap_alloc(arena, size) :
              /\ arena' = Fill(CopyThenFree(arena, r, b, old - 1), r.at, Data(id), live[id].size + 1, size)
              /\ live' = [live EXCEPT ![id].at = r.at, ![id].size = size]

\* realloc to so much more that the new block is a mapping.
realloc_to_mmap(id, size) ==
    LET b == live[id].at
    IN  /\ InArena(id) /\ size_to_need(size) > H(arena, b).size /\ size >= Threshold
        /\ arena' = heap_free(Fill(arena, b, Zero, 1, live[id].size), b)
        /\ live' = [live EXCEPT ![id] = Mapping]

Next ==
    \E id \in Ids :
        \/ free(id)
        \/ \E size \in Sizes :
              malloc(id, size) \/ malloc_mmap(id, size)
                \/ realloc_shrink(id, size) \/ realloc_grow(id, size)
                \/ realloc_to_mmap(id, size)

Spec == Init /\ [][Next]_vars

-----------------------------------------------------------------------------
\* The blocks met going up from a_start by the headers' sizes.
Blocks ==
    LET at[k \in 0 .. Top] ==
            IF k = 0 THEN 0
            ELSE IF at[k - 1] >= arena.a_end THEN at[k - 1]
            ELSE at[k - 1] + H(arena, at[k - 1]).size
    IN  {at[k] : k \in 0 .. Top \div MIN_BLOCK} \ {arena.a_end}

SetOf(l) == {l[i] : i \in DOMAIN l}
IsFree(b) == ~H(arena, b).alloc

(***************************************************************************)
(* What malloc_selfcheck checks of the free list, and all it could: the    *)
(* blocks tile the arena, the list holds exactly the free ones, once each, *)
(* no two of them touch, every free one has its footer, and every PREV bit *)
(* says whether the block before is free.                                  *)
(***************************************************************************)
ArenaIsTiled ==
    LET blocks == Blocks
        list == FreeList(arena)
        free_blocks == {b \in blocks : IsFree(b)}
    IN
    /\ \A b \in blocks :
          LET nx == b + H(arena, b).size IN
          /\ nx = arena.a_end \/ nx \in blocks
          /\ nx \in blocks => (H(arena, nx).prev <=> IsFree(b)) /\ ~(IsFree(b) /\ IsFree(nx))
          /\ IsFree(b) => arena.mem[nx - 1] = H(arena, b)
    /\ SetOf(list) = free_blocks
    /\ Len(list) = Cardinality(free_blocks)

(***************************************************************************)
(* Every object of the program is one used block of the arena, large       *)
(* enough for it, and there are no other used blocks: no memory is handed  *)
(* out twice, and none is lost when it is freed or moved.                  *)
(***************************************************************************)
UsedBlocksAreTheObjects ==
    /\ {live[id].at : id \in {i \in Ids : InArena(i)}} = {b \in Blocks : ~IsFree(b)}
    /\ \A i, j \in Ids : InArena(i) /\ InArena(j) /\ live[i].at = live[j].at => i = j
    /\ \A id \in Ids : InArena(id) => H(arena, live[id].at).size > live[id].size

(***************************************************************************)
(* Nothing the allocator writes, tags, links or copies, ends up in what    *)
(* the program holds, and a realloc keeps what was there, except for the   *)
(* footer that a realloc which shrinks writes.                             *)
(***************************************************************************)
PayloadsAreKept ==
    \A id \in Ids : InArena(id) =>
        \A k \in (1 .. live[id].size) \ live[id].lost : arena.mem[live[id].at + k] = Data(id)
=============================================================================
