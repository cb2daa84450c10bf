-------------------------------- MODULE KHeap --------------------------------
(***************************************************************************)
(* The kernel heap (kernel/mm/kheap.c): kmalloc, kfree and the growth of   *)
(* the heap, page by page.  Addresses and sizes are in units of 16 bytes   *)
(* from KHEAP_START; a header takes two units, of which it fills one and a *)
(* half.                                                                   *)
(*                                                                         *)
(* A block is on the free list, in `list', or has been handed out, in      *)
(* `live'.  kfree only sets the block's flag: the block does not go back   *)
(* on the list, so it is in neither and is never used again.               *)
(*                                                                         *)
(* A definition marked Mutant is no part of the model (see Scheduler).     *)
(***************************************************************************)
EXTENDS Integers, Sequences

CONSTANTS
    PageUnits,  \* PAGE_SIZE
    MaxPages,   \* KHEAP_MAX - KHEAP_START, in pages
    Wrap,       \* 2^64 bytes
    Sizes       \* bound: what is asked for, rounded up to units

Header == 2

ASSUME KHeapAssumption ==
    /\ PageUnits \in Nat /\ PageUnits > Header
    /\ MaxPages \in Nat \ {0}
    /\ Wrap \in Nat /\ Wrap > 2 * PageUnits * MaxPages
    /\ Sizes \subseteq 1 .. PageUnits * MaxPages

VARIABLES
    list,       \* the free list, from head: its blocks' addresses and sizes
    live,       \* the blocks kmalloc has handed out and kfree not yet had back
    heap_top,   \* the first unmapped address
    bytes_used,
    torn,       \* a growth failed after it had mapped some pages
    state       \* "up", or "down": the kernel faulted or follows a wild head

vars == <<list, live, heap_top, bytes_used, torn, state>>

Block(at, size) == [at |-> at, size |-> size]
EndOf(b) == b.at + Header + b.size

\* The subtractions are of uint64_t.
Minus(a, b) == (a - b) % Wrap

-----------------------------------------------------------------------------
\* kheap_init, on the first page.
KHeapInit ==
    /\ list = <<Block(0, PageUnits - Header)>>
    /\ live = {}
    /\ heap_top = PageUnits
    /\ bytes_used = 0
    /\ torn = FALSE
    /\ state = "up"

Down ==
    /\ state' = "down"
    /\ UNCHANGED <<list, live, heap_top, bytes_used, torn>>

\* Block b goes to the caller; header is what its size field says.
HandOut(b, header) ==
    /\ live' = live \cup {[at |-> b.at, size |-> b.size, header |-> header]}
    /\ bytes_used' = (bytes_used + header) % Wrap
    /\ state' = "up"

\* Mutant: the split forgets that the remainder needs a header.
RemainderNoHeader(b, size) == Minus(b.size, size)

\* What splitting b leaves for the rest, if it wraps around a huge number.
Remainder(b, size) == Minus(Minus(b.size, size), Header)

RestOf(b, size) == Block(b.at + Header + size, Remainder(b, size))

\* The header of the rest would not be in mapped memory.
RestFaults(b, size, top) == RestOf(b, size).at + 1 >= top

\* A free block b of the list `before, b, after' is split, or handed out whole
\* when less than a unit would be left.  top is where the heap now ends.
Split(b, size, before, after, top) ==
    \/ /\ Remainder(b, size) >= 1 /\ ~RestFaults(b, size, top)
       /\ HandOut(Block(b.at, size), size)
       /\ list' = before \o <<RestOf(b, size)>> \o after
       /\ heap_top' = top /\ UNCHANGED torn
    \/ /\ Remainder(b, size) >= 1 /\ RestFaults(b, size, top)
       /\ Down
    \/ /\ Remainder(b, size) < 1
       /\ HandOut(b, b.size)
       /\ list' = before \o after
       /\ heap_top' = top /\ UNCHANGED torn

Fits(size) == {i \in DOMAIN list : list[i].size >= size}

\* kmalloc, a block of the list is large enough: the first one.
kmalloc_fit(size) ==
    /\ state = "up"
    /\ \E i \in Fits(size) :
          /\ \A j \in Fits(size) : i <= j
          /\ Split(list[i], size, SubSeq(list, 1, i - 1), SubSeq(list, i + 1, Len(list)), heap_top)

\* Where heap_grow stops, and whether that is allowed.
PagesFor(units) == (units + PageUnits - 1) \div PageUnits
Target(size) == heap_top + PageUnits * PagesFor(Header + size)

Allowed(size) == Target(size) <= PageUnits * MaxPages

LastBlock == list[Len(list)]
TailIsLast == list # <<>> /\ EndOf(LastBlock) = heap_top

\* What the size field of a page nobody has written may say.
Unwritten == {0, Wrap - 1}

\* New pages are handed out whole.  Nobody has written their header: the size is
\* whatever is there, and so is the next block, NULL or a wild one.
TakeUnwritten(b, top) ==
    \/ /\ \E header \in Unwritten : HandOut(b, header)
       /\ heap_top' = top /\ UNCHANGED <<list, torn>>
    \/ Down

\* kmalloc, none is and the heap grows.  The new pages join the last block if
\* it ends where they begin, else they are a block after it.
kmalloc_grow(size) ==
    LET top == Target(size)
        fresh == Block(heap_top, top - heap_top - Header)
    IN  /\ state = "up"
        /\ Fits(size) = {} /\ Allowed(size)
        /\ \/ /\ TailIsLast
              /\ Split(Block(LastBlock.at, LastBlock.size + Header + fresh.size), size,
                       SubSeq(list, 1, Len(list) - 1), <<>>, top)
           \/ ~TailIsLast /\ Remainder(fresh, size) >= 1 /\ Split(fresh, size, list, <<>>, top)
           \/ ~TailIsLast /\ Remainder(fresh, size) < 1 /\ TakeUnwritten(fresh, top)

\* kmalloc returns NULL: the limit, or frames run out after some pages, which
\* stay mapped and belong to no block.
kmalloc_null(size) ==
    /\ state = "up"
    /\ Fits(size) = {} /\ Allowed(size)
    /\ \E pages \in 1 .. PagesFor(Header + size) - 1 :
          heap_top' = heap_top + PageUnits * pages
    /\ torn' = TRUE
    /\ UNCHANGED <<list, live, bytes_used, state>>

\* coalesce merges neighbours of the list, wherever they are: all of it.
Coalesced(l) ==
    LET sum[i \in 1 .. Len(l)] ==
            IF i = 1 THEN l[1].size ELSE (sum[i - 1] + Header + l[i].size) % Wrap
    IN  IF l = <<>> THEN l ELSE <<Block(l[1].at, sum[Len(l)])>>

kfree(b) ==
    /\ state = "up" /\ b \in live
    /\ live' = live \ {b}
    /\ bytes_used' = Minus(bytes_used, b.header)
    /\ list' = Coalesced(list)
    /\ UNCHANGED <<heap_top, torn, state>>

KHeapNext ==
    \/ \E size \in Sizes : kmalloc_fit(size) \/ kmalloc_grow(size) \/ kmalloc_null(size)
    \/ \E b \in live : kfree(b)

KHeapSpec == KHeapInit /\ [][KHeapNext]_vars

-----------------------------------------------------------------------------
Apart(b, c) == EndOf(b) <= c.at \/ EndOf(c) <= b.at

(***************************************************************************)
(* "the allocated half is never also reachable from the free list"         *)
(* (kheap.c): the blocks handed out, with their headers, are mapped and    *)
(* overlap neither each other nor a free block, whatever the sequence of   *)
(* sizes, splits, growths and frees, as long as no growth has failed half  *)
(* way.                                                                    *)
(***************************************************************************)
BlocksAreApart ==
    ~torn =>
        /\ \A b, c \in live : b = c \/ Apart(b, c)
        /\ \A b \in live : EndOf(b) <= heap_top /\ \A i \in DOMAIN list : Apart(b, list[i])
=============================================================================
