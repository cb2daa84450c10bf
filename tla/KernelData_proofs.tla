-------------------------- MODULE KernelData_proofs --------------------------
(***************************************************************************)
(* Two of the kernel's data structures, for every value of their           *)
(* constants.  The ring buffer of an endpoint (MsgQueue) keeps its indices *)
(* consistent and implements a bounded FIFO.  The blocks of the kernel     *)
(* heap (KHeap) stay apart.                                                *)
(***************************************************************************)
EXTENDS MsgQueue, KHeap, SequenceTheorems, TLAPS

\* What % does to a position that has run past the end at most once.
LEMMA WrapOnce ==
    ASSUME NEW a \in 0 .. 2 * Depth - 1
    PROVE  a % Depth = IF a < Depth THEN a ELSE a - Depth
<1> DEFINE r == a % Depth
           q == a \div Depth
<1>1. Depth \in Nat /\ Depth > 0 /\ a \in Nat
    BY DepthAssumption
<1>2. r \in 0 .. Depth - 1 /\ q \in Int /\ a = Depth * q + r
    BY <1>1
<1>3. q = 0 \/ q = 1
    BY <1>1, <1>2
<1> QED
    BY <1>1, <1>2, <1>3

\* The indices agree once sys_ipc_endpoint_create has zeroed them.
LEMMA QInitEstablishesInv ==
    ASSUME QInit
    PROVE  IndicesAgree
<1>1. 0 \in 0 .. Depth - 1 /\ 0 \in 0 .. 2 * Depth - 1 /\ Depth > 0
    BY DepthAssumption
<1>2. 0 % Depth = 0
    BY <1>1, WrapOnce
<1> QED
    BY <1>1, <1>2, DepthAssumption DEF QInit, IndicesAgree, Positions

\* Where a position i places on from h is, when both are within the depth.
LEMMA WrapSum ==
    ASSUME NEW h \in 0 .. Depth - 1, NEW i \in 0 .. Depth
    PROVE  (h + i) % Depth = IF h + i < Depth THEN h + i ELSE (h + i) - Depth
<1> DEFINE a == h + i
<1>1. a \in 0 .. 2 * Depth - 1
    BY DepthAssumption
<1> HIDE DEF a
<1>2. a % Depth = IF a < Depth THEN a ELSE a - Depth
    BY <1>1, WrapOnce
<1> QED
    BY <1>2 DEF a

\* Moving the head on by one moves every position behind it by one.
LEMMA WrapStep ==
    ASSUME NEW h \in 0 .. Depth - 1, NEW i \in 0 .. Depth - 1
    PROVE  /\ (h + 1) % Depth \in 0 .. Depth - 1
           /\ (h + i) % Depth \in 0 .. Depth - 1
           /\ (((h + 1) % Depth) + i) % Depth = (h + (i + 1)) % Depth
           /\ (((h + i) % Depth) + 1) % Depth = (h + (i + 1)) % Depth
<1> DEFINE g == (h + 1) % Depth
           k == (h + i) % Depth
<1>0. Depth \in Nat /\ Depth >= 1
    BY DepthAssumption
<1>1. g = IF h + 1 < Depth THEN h + 1 ELSE (h + 1) - Depth
    BY <1>0, WrapSum
<1>2. k = IF h + i < Depth THEN h + i ELSE (h + i) - Depth
    BY <1>0, WrapSum
<1>3. (h + (i + 1)) % Depth = IF h + (i + 1) < Depth THEN h + (i + 1) ELSE (h + (i + 1)) - Depth
    <2>1. i + 1 \in 0 .. Depth
        BY <1>0
    <2> QED
        BY <2>1, WrapSum
<1>4. g \in 0 .. Depth - 1 /\ k \in 0 .. Depth - 1
    BY <1>0, <1>1, <1>2
<1> HIDE DEF g, k
<1>5. (g + i) % Depth = IF g + i < Depth THEN g + i ELSE (g + i) - Depth
    BY <1>0, <1>4, WrapSum
<1>6. (k + 1) % Depth = IF k + 1 < Depth THEN k + 1 ELSE (k + 1) - Depth
    BY <1>0, <1>4, WrapSum
<1>7. (g + i) % Depth = (h + (i + 1)) % Depth
    BY <1>0, <1>1, <1>3, <1>5
<1>8. (k + 1) % Depth = (h + (i + 1)) % Depth
    BY <1>0, <1>2, <1>3, <1>6
<1> QED
    BY <1>4, <1>7, <1>8 DEF g, k

\* Two positions of one window are different slots.
LEMMA WrapInjective ==
    ASSUME NEW h \in 0 .. Depth - 1, NEW i \in 0 .. Depth - 1, NEW j \in 0 .. Depth - 1,
           i # j
    PROVE  (h + i) % Depth # (h + j) % Depth
<1>1. /\ (h + i) % Depth = IF h + i < Depth THEN h + i ELSE (h + i) - Depth
      /\ (h + j) % Depth = IF h + j < Depth THEN h + j ELSE (h + j) - Depth
    BY DepthAssumption, WrapSum
<1> QED
    BY <1>1, DepthAssumption

\* ipc_queue_enqueue keeps the indices in agreement: the slot it writes is
\* just past the live window.
LEMMA EnqueueKeepsInv ==
    ASSUME IndicesAgree, NEW m \in Messages, ipc_queue_enqueue(m)
    PROVE  IndicesAgree'
<1>1. /\ queue_head \in 0 .. Depth - 1 /\ queue_count \in 0 .. Depth - 1
      /\ queue_tail = (queue_head + queue_count) % Depth
      /\ queue_tail \in Positions
      /\ queue' = [queue EXCEPT ![queue_tail] = m]
      /\ queue_tail' = (queue_tail + 1) % Depth
      /\ queue_count' = queue_count + 1
      /\ queue_head' = queue_head
    BY DepthAssumption DEF IndicesAgree, ipc_queue_enqueue, Positions
<1>2. queue_tail' = (queue_head' + queue_count') % Depth
    BY <1>1, WrapStep
<1>3. queue_tail' \in Positions
    BY <1>1, WrapStep DEF Positions
<1>4. \A i \in 0 .. queue_count' - 1 : queue'[(queue_head' + i) % Depth] \in Messages
    <2> TAKE i \in 0 .. queue_count' - 1
    <2>1. i \in 0 .. queue_count /\ i \in 0 .. Depth - 1
        BY <1>1, DepthAssumption
    <2>2. (queue_head + i) % Depth \in Positions
        BY <1>1, <2>1, WrapSum, DepthAssumption DEF Positions
    <2>3. CASE i = queue_count
        BY <1>1, <2>3 DEF IndicesAgree
    <2>4. CASE i # queue_count
        <3>1. queue[(queue_head + i) % Depth] \in Messages
            BY <1>1, <2>1, <2>4 DEF IndicesAgree
        <3>2. (queue_head + i) % Depth # queue_tail
            BY <1>1, <2>1, <2>4, WrapInjective
        <3> QED
            BY <1>1, <2>2, <3>1, <3>2 DEF IndicesAgree
    <2> QED
        BY <2>3, <2>4
<1>5. queue' \in [Positions -> Messages \cup {NoMessage}]
    BY <1>1 DEF IndicesAgree
<1>6. queue_count' \in 0 .. Depth
    BY <1>1, DepthAssumption
<1> QED
    BY <1>1, <1>2, <1>3, <1>4, <1>5, <1>6, Zenon DEF IndicesAgree, Positions

\* ipc_queue_dequeue keeps the indices in agreement.
LEMMA DequeueKeepsInv ==
    ASSUME IndicesAgree, ipc_queue_dequeue
    PROVE  IndicesAgree'
<1>1. /\ queue_head \in 0 .. Depth - 1 /\ queue_count \in 1 .. Depth
      /\ queue_tail = (queue_head + queue_count) % Depth
      /\ queue_head' = (queue_head + 1) % Depth
      /\ queue_count' = queue_count - 1
      /\ queue' = queue /\ queue_tail' = queue_tail
    BY DepthAssumption DEF IndicesAgree, ipc_queue_dequeue, Positions
<1>2. queue_count - 1 \in 0 .. Depth - 1 /\ (queue_count - 1) + 1 = queue_count
    BY <1>1, DepthAssumption
<1>3. queue_head' \in Positions /\ queue_tail' = (queue_head' + queue_count') % Depth
    BY <1>1, <1>2, WrapStep DEF Positions
<1>4. \A i \in 0 .. queue_count' - 1 : queue'[(queue_head' + i) % Depth] \in Messages
    <2> TAKE i \in 0 .. queue_count' - 1
    <2>1. i \in 0 .. Depth - 1 /\ i + 1 \in 0 .. queue_count - 1
        BY <1>1, DepthAssumption
    <2>2. queue[(queue_head + (i + 1)) % Depth] \in Messages
        BY <2>1 DEF IndicesAgree
    <2>3. (queue_head' + i) % Depth = (queue_head + (i + 1)) % Depth
        BY <1>1, <2>1, WrapStep
    <2> QED
        BY <1>1, <2>2, <2>3
<1> QED
    BY <1>1, <1>2, <1>3, <1>4, DepthAssumption DEF IndicesAgree

\* Every step keeps the indices in agreement.
LEMMA QStepKeepsInv ==
    ASSUME IndicesAgree, [QNext]_qVars
    PROVE  IndicesAgree'
<1>1. CASE CloseQueue
    BY <1>1 DEF CloseQueue, IndicesAgree
<1>2. CASE UNCHANGED qVars
    BY <1>2 DEF qVars, IndicesAgree
<1> QED
    BY <1>1, <1>2, EnqueueKeepsInv, DequeueKeepsInv DEF QNext

(***************************************************************************)
(* head, tail and count of an endpoint's queue always agree and point      *)
(* inside the array, whatever its depth (ipc_queue_enqueue and             *)
(* ipc_queue_dequeue).                                                     *)
(***************************************************************************)
THEOREM IndicesAlwaysAgree == QSpec => []IndicesAgree
BY QInitEstablishesInv, QStepKeepsInv, PTL DEF QSpec

-----------------------------------------------------------------------------
\* The window is a sequence of messages no longer than the queue is deep.
LEMMA WindowIsSeq ==
    ASSUME IndicesAgree
    PROVE  /\ Window \in Seq(Messages)
           /\ Len(Window) = queue_count
           /\ \A i \in 1 .. queue_count : Window[i] = queue[(queue_head + i - 1) % Depth]
<1>1. queue_count \in Nat
    BY DepthAssumption DEF IndicesAgree
<1>2. \A i \in 1 .. queue_count : queue[(queue_head + i - 1) % Depth] \in Messages
    <2> TAKE i \in 1 .. queue_count
    <2>1. queue[(queue_head + (i - 1)) % Depth] \in Messages
        BY <1>1 DEF IndicesAgree
    <2>2. queue_head + (i - 1) = queue_head + i - 1
        BY DepthAssumption DEF IndicesAgree, Positions
    <2> QED
        BY <2>1, <2>2
<1> QED
    BY <1>1, <1>2 DEF Window

\* ipc_queue_enqueue appends to the window.
LEMMA EnqueueAppends ==
    ASSUME IndicesAgree, NEW m \in Messages, ipc_queue_enqueue(m)
    PROVE  Window' = Append(Window, m)
<1>1. /\ queue_head \in 0 .. Depth - 1 /\ queue_count \in 0 .. Depth - 1
      /\ queue_tail = (queue_head + queue_count) % Depth
      /\ queue_tail \in Positions
      /\ queue \in [Positions -> Messages \cup {NoMessage}]
      /\ queue' = [queue EXCEPT ![queue_tail] = m]
      /\ queue_count' = queue_count + 1
      /\ queue_head' = queue_head
    BY DepthAssumption DEF IndicesAgree, ipc_queue_enqueue, Positions
<1>2. /\ Window \in Seq(Messages) /\ Len(Window) = queue_count
      /\ \A i \in 1 .. queue_count : Window[i] = queue[(queue_head + i - 1) % Depth]
    BY WindowIsSeq, Zenon
<1>3. ASSUME NEW i \in 1 .. queue_count + 1
      PROVE  queue'[(queue_head + i - 1) % Depth]
                = IF i = queue_count + 1 THEN m ELSE queue[(queue_head + i - 1) % Depth]
    <2>1. i - 1 \in 0 .. Depth - 1 /\ queue_head + i - 1 = queue_head + (i - 1)
        BY <1>1, DepthAssumption
    <2>2. (queue_head + (i - 1)) % Depth \in Positions
        BY <1>1, <2>1, WrapStep, Zenon DEF Positions
    <2>3. CASE i = queue_count + 1
        BY <1>1, <2>1, <2>3
    <2>4. CASE i # queue_count + 1
        <3>1. (queue_head + (i - 1)) % Depth # (queue_head + queue_count) % Depth
            BY <1>1, <2>1, <2>4, WrapInjective
        <3> QED
            BY <1>1, <2>1, <2>2, <2>4, <3>1, Zenon
    <2> QED
        BY <2>3, <2>4
<1>4. Window' = [i \in 1 .. queue_count + 1 |->
                    IF i = queue_count + 1 THEN m ELSE Window[i]]
    <2>1. Window' = [i \in 1 .. queue_count + 1 |-> queue'[(queue_head + i - 1) % Depth]]
        BY <1>1 DEF Window
    <2>2. \A i \in 1 .. queue_count + 1 :
             queue'[(queue_head + i - 1) % Depth]
                = IF i = queue_count + 1 THEN m ELSE Window[i]
        <3> TAKE i \in 1 .. queue_count + 1
        <3>1. CASE i = queue_count + 1
            BY <1>3, <3>1
        <3>2. CASE i # queue_count + 1
            <4>1. i \in 1 .. queue_count
                BY <1>1, <3>2
            <4> QED
                BY <1>2, <1>3, <3>2, <4>1
        <3> QED
            BY <3>1, <3>2
    <2> QED
        BY <2>1, <2>2
<1>5. Window \in [1 .. queue_count -> Messages]
    BY <1>2, LenProperties
<1>6. Window' \in [1 .. queue_count + 1 -> Messages]
    BY <1>1, <1>4, <1>5
<1>7. Window' \in Seq(Messages) /\ Len(Window') = queue_count + 1
    BY <1>1, <1>6
<1>8. /\ Append(Window, m) \in Seq(Messages)
      /\ Len(Append(Window, m)) = queue_count + 1
      /\ \A i \in 1 .. queue_count + 1 :
            Append(Window, m)[i] = IF i <= queue_count THEN Window[i] ELSE m
    BY <1>1, <1>2, AppendProperties
<1>9. \A i \in 1 .. queue_count + 1 : Window'[i] = Append(Window, m)[i]
    BY <1>1, <1>4, <1>8
<1> QED
    BY <1>7, <1>8, <1>9, SeqEqual, Zenon

\* ipc_queue_dequeue takes the oldest message off the window.
LEMMA DequeueTakesHead ==
    ASSUME IndicesAgree, ipc_queue_dequeue
    PROVE  /\ Window # << >>
           /\ msg_out' = Head(Window)
           /\ Window' = Tail(Window)
<1>1. /\ queue_head \in 0 .. Depth - 1 /\ queue_count \in 1 .. Depth
      /\ queue_head' = (queue_head + 1) % Depth
      /\ queue_count' = queue_count - 1
      /\ queue' = queue /\ msg_out' = queue[queue_head]
    BY DepthAssumption DEF IndicesAgree, ipc_queue_dequeue, Positions
<1>2. /\ Window \in Seq(Messages) /\ Len(Window) = queue_count
      /\ \A i \in 1 .. queue_count : Window[i] = queue[(queue_head + i - 1) % Depth]
    BY WindowIsSeq
<1>3. Window # << >> /\ Head(Window) = Window[1]
    BY <1>1, <1>2
<1>4. \A i \in 1 .. queue_count : i = 1 => (queue_head + i - 1) % Depth = queue_head
    <2> TAKE i \in 1 .. queue_count
    <2> HAVE i = 1
    <2> DEFINE k == queue_head + i - 1
    <2>1. k = queue_head /\ queue_head \in 0 .. 2 * Depth - 1
        BY <1>1, DepthAssumption
    <2> HIDE DEF k
    <2>2. k % Depth = queue_head
        BY <1>1, <2>1, WrapOnce, DepthAssumption
    <2> QED
        BY <2>2 DEF k
<1>5. ASSUME NEW i \in 1 .. queue_count - 1
      PROVE  (queue_head' + i - 1) % Depth = (queue_head + (i + 1) - 1) % Depth
    <2>1. i - 1 \in 0 .. Depth - 1
        BY <1>1, DepthAssumption
    <2>2. (((queue_head + 1) % Depth) + (i - 1)) % Depth = (queue_head + ((i - 1) + 1)) % Depth
        BY <1>1, <2>1, WrapStep
    <2>3. queue_head' \in 0 .. Depth - 1
        BY <1>1, <2>1, WrapStep
    <2>4. /\ queue_head' + i - 1 = queue_head' + (i - 1)
          /\ queue_head + (i + 1) - 1 = queue_head + ((i - 1) + 1)
        BY <1>1, <2>3, DepthAssumption
    <2> QED
        BY <1>1, <2>2, <2>4
<1>6. Window' = [i \in 1 .. queue_count - 1 |-> Window[i + 1]]
    <2>1. Window' = [i \in 1 .. queue_count - 1 |-> queue[(queue_head' + i - 1) % Depth]]
        BY <1>1 DEF Window
    <2>2. \A i \in 1 .. queue_count - 1 :
             queue[(queue_head' + i - 1) % Depth] = Window[i + 1]
        <3> TAKE i \in 1 .. queue_count - 1
        <3>1. i + 1 \in 1 .. queue_count
            BY <1>1
        <3> QED
            BY <1>2, <1>5, <3>1
    <2> QED
        BY <2>1, <2>2
<1>7. /\ Tail(Window) \in Seq(Messages)
      /\ Len(Tail(Window)) = queue_count - 1
      /\ \A i \in 1 .. queue_count - 1 : Tail(Window)[i] = Window[i + 1]
    BY <1>2, <1>3, HeadTailProperties
<1>8. Tail(Window) = [i \in 1 .. queue_count - 1 |-> Window[i + 1]]
    BY <1>7, LenProperties, Zenon
<1>9. msg_out' = Window[1]
    BY <1>1, <1>2, <1>4
<1> QED
    BY <1>3, <1>6, <1>8, <1>9, Zenon

(***************************************************************************)
(* For every depth, the ring buffer of ipc_queue_enqueue and               *)
(* ipc_queue_dequeue implements the bounded FIFO of module Fifo.           *)
(***************************************************************************)
THEOREM RingImplementsFifo == QSpec => ImplementsFifo
<1>1. QInit => F!FifoInit
    <2> SUFFICES ASSUME QInit PROVE F!FifoInit
        OBVIOUS
    <2>1. Window = << >>
        BY DEF QInit, Window
    <2> QED
        BY <2>1 DEF QInit, F!FifoInit
<1>2. IndicesAgree /\ [QNext]_qVars => [F!FifoNext]_F!fifoVars
    <2> SUFFICES ASSUME IndicesAgree, [QNext]_qVars
                 PROVE  [F!FifoNext]_F!fifoVars
        OBVIOUS
    <2>1. ASSUME NEW m \in Messages, ipc_queue_enqueue(m)
          PROVE  F!Put(m)
        <3>1. Len(Window) = queue_count
            BY WindowIsSeq
        <3> QED
            BY <2>1, <3>1, EnqueueAppends, Zenon DEF F!Put, ipc_queue_enqueue
    <2>2. CASE ipc_queue_dequeue
        BY <2>2, DequeueTakesHead DEF F!FifoNext, F!Get, ipc_queue_dequeue
    <2>3. CASE CloseQueue
        BY <2>3 DEF CloseQueue, Window, F!FifoNext, F!Shut
    <2>4. CASE UNCHANGED qVars
        BY <2>4 DEF qVars, Window, F!fifoVars
    <2> QED
        BY <2>1, <2>2, <2>3, <2>4 DEF QNext, F!FifoNext
<1> QED
    BY <1>1, <1>2, IndicesAlwaysAgree, PTL DEF QSpec, ImplementsFifo, F!FifoSpec

-----------------------------------------------------------------------------
\* A number below the modulus does not wrap.
LEMMA BelowLimit ==
    ASSUME NEW n \in Nat, NEW m \in Nat, n < m
    PROVE  n % m = n
<1> DEFINE r == n % m
           q == n \div m
<1>1. r \in 0 .. m - 1 /\ q \in Int /\ n = m * q + r
    OBVIOUS
<1>2. q = 0
    BY <1>1
<1> QED
    BY <1>1, <1>2

\* The most units there can be.
Limit == PageUnits * MaxPages

\* Where the part of the heap begins that no block handed out reaches into.
FreeFrom == IF list = <<>> THEN heap_top ELSE list[1].at

(***************************************************************************)
(* Why blocks stay apart: the free list never holds more than one block,   *)
(* the last of the heap, and everything handed out is below it.            *)
(***************************************************************************)
HeapInv ==
    /\ torn \in BOOLEAN
    /\ ~torn =>
          /\ heap_top \in 0 .. Limit
          /\ list # <<>> =>
                /\ list = <<list[1]>> /\ Len(list) = 1
                /\ list[1].at \in Nat /\ list[1].size \in Nat /\ EndOf(list[1]) = heap_top
          /\ \A b \in live : b.at \in Nat /\ b.size \in Nat /\ EndOf(b) <= FreeFrom
          /\ \A b, c \in live : b = c \/ Apart(b, c)

\* What the constants are.
LEMMA HeapFacts ==
    /\ PageUnits \in Nat /\ PageUnits > 2 /\ MaxPages \in Nat /\ MaxPages > 0
    /\ Wrap \in Nat /\ Limit \in Nat /\ Limit < Wrap /\ PageUnits <= Limit
    /\ Header = 2 /\ Sizes \subseteq 1 .. Limit
<1>1. /\ PageUnits \in Nat /\ PageUnits > 2 /\ MaxPages \in Nat /\ MaxPages > 0
      /\ Wrap \in Nat /\ Wrap > 2 * PageUnits * MaxPages
      /\ Sizes \subseteq 1 .. PageUnits * MaxPages
    BY KHeapAssumption DEF Header
<1>2. PageUnits * MaxPages \in Nat /\ PageUnits <= PageUnits * MaxPages
    BY <1>1
<1>3. 2 * PageUnits * MaxPages = 2 * (PageUnits * MaxPages)
    BY <1>1
<1> QED
    BY <1>1, <1>2, <1>3 DEF Limit, Header

\* What is grown by is enough.
LEMMA PagesEnough ==
    ASSUME NEW u \in Nat
    PROVE  PagesFor(u) \in Nat /\ PageUnits * PagesFor(u) >= u
<1>1. PageUnits \in Nat /\ PageUnits > 0
    BY HeapFacts
<1> DEFINE n == u + PageUnits - 1
           q == n \div PageUnits
           r == n % PageUnits
<1>2. q \in Int /\ r \in 0 .. PageUnits - 1 /\ n = PageUnits * q + r
    BY <1>1
<1>3. q >= 0
    BY <1>1, <1>2
<1> QED
    BY <1>1, <1>2, <1>3 DEF PagesFor

\* kheap_init leaves one block, the whole first page.
LEMMA HeapInitInv ==
    ASSUME KHeapInit
    PROVE  HeapInv
<1>1. /\ heap_top = PageUnits /\ list = <<Block(0, PageUnits - Header)>>
      /\ live = {} /\ torn = FALSE
    BY DEF KHeapInit
<1>2. list[1] = Block(0, PageUnits - Header)
    BY <1>1
<1>3. list[1].at = 0 /\ list[1].size = PageUnits - Header
    BY <1>2 DEF Block
<1>4. list = <<list[1]>> /\ Len(list) = 1
    BY <1>1, <1>2, <1>3
<1>5. EndOf(list[1]) = heap_top
    BY <1>1, <1>3, HeapFacts DEF EndOf
<1>6. heap_top \in 0 .. Limit /\ PageUnits - Header \in Nat
    BY <1>1, HeapFacts
<1> QED
    <2>1. list[1].at \in Nat /\ list[1].size \in Nat
        BY <1>3, <1>6
    <2>2. torn = FALSE /\ live = {}
        BY <1>1
    <2> QED BY <1>4, <1>5, <1>6, <2>1, <2>2, Zenon DEF HeapInv

\* One more block handed out, from where the free part begins.
LEMMA HandOutApart ==
    ASSUME HeapInv, ~torn, NEW b, b.at \in Nat, b.size \in Nat, NEW header, HandOut(b, header),
           FreeFrom <= b.at
    PROVE  /\ \A c \in live' : c.at \in Nat /\ c.size \in Nat /\ EndOf(c) <= EndOf(b)
           /\ \A c, d \in live' : c = d \/ Apart(c, d)
<1> DEFINE new == [at |-> b.at, size |-> b.size, header |-> header]
<1>1. live' = live \cup {new}
    BY DEF HandOut
<1>2. new.at = b.at /\ new.size = b.size /\ EndOf(new) = EndOf(b)
    BY DEF EndOf
<1>3. EndOf(b) \in Nat /\ b.at <= EndOf(b)
    BY DEF EndOf, Header
<1>4. \A c \in live : /\ c.at \in Nat /\ c.size \in Nat /\ EndOf(c) \in Nat /\ EndOf(c) <= b.at
    <2>1. FreeFrom \in Nat
        BY HeapFacts DEF FreeFrom, HeapInv
    <2>2. \A c \in live : c.at \in Nat /\ c.size \in Nat /\ EndOf(c) <= FreeFrom
        BY DEF HeapInv
    <2>3. \A c \in live : EndOf(c) \in Nat
        BY <2>2 DEF EndOf, Header
    <2> QED BY <2>1, <2>2, <2>3
<1> HIDE DEF new
<1>5. \A c \in live' : c.at \in Nat /\ c.size \in Nat /\ EndOf(c) <= EndOf(b)
    BY <1>1, <1>2, <1>3, <1>4
<1>6. \A c \in live : Apart(c, new) /\ Apart(new, c)
    BY <1>2, <1>4 DEF Apart
<1>7. \A c, d \in live : c = d \/ Apart(c, d)
    BY DEF HeapInv
<1>8. \A c, d \in live' : c = d \/ Apart(c, d)
    BY <1>1, <1>6, <1>7, Zenon
<1> QED
    BY <1>5, <1>8

\* The arithmetic of a split whose second header lies below the top.
LEMMA RoomForRest ==
    ASSUME NEW at \in Nat, NEW total \in Nat, NEW size \in 1 .. total, NEW wrap \in Nat,
           at + 2 + total < wrap
    PROVE  /\ at + 2 + size \in Nat
           /\ at + 2 + size + 2 + (total - size - 2) = at + 2 + total
           /\ total - size \in Nat /\ total - size < wrap
           /\ at + 2 + size + 1 < at + 2 + total =>
                 total - size - 2 \in Nat /\ total - size - 2 < wrap
    OBVIOUS

\* The last block of the heap, split.
LEMMA SplitKeepsInv ==
    ASSUME HeapInv, ~torn, NEW b, b.at \in Nat, b.size \in Nat,
           FreeFrom <= b.at, NEW top \in 0 .. Limit, EndOf(b) = top,
           NEW size \in 1 .. b.size, Split(b, size, <<>>, <<>>, top)
    PROVE  HeapInv'
<1> DEFINE rest == RestOf(b, size)
           whole == Block(b.at, size)
<1>1. /\ Wrap \in Nat /\ Limit \in Nat /\ Limit < Wrap /\ Header = 2
      /\ top = b.at + 2 + b.size
    BY HeapFacts, Zenon DEF EndOf
<1>2. CASE /\ ~RestFaults(b, size, top)
           /\ HandOut(Block(b.at, size), size)
           /\ list' = <<>> \o <<RestOf(b, size)>> \o <<>>
           /\ heap_top' = top /\ UNCHANGED torn
    <2>1. rest.at = b.at + 2 + size /\ rest.size = Remainder(b, size)
        BY <1>1 DEF RestOf, Block
    <2>2. b.at + 2 + size + 1 < top
        BY <1>1, <1>2, <2>1 DEF RestFaults
    <2>3. b.size - size \in Nat /\ b.size - size < Wrap /\ b.size - size - 2 \in Nat
          /\ b.size - size - 2 < Wrap
        <3> HIDE DEF rest, whole
        <3>1. b.at + 2 + b.size < Wrap /\ b.at + 2 + size + 1 < b.at + 2 + b.size
            BY <1>1, <2>2
        <3> QED BY <1>1, <3>1, RoomForRest, Zenon
    <2>4. Remainder(b, size) = b.size - size - 2
        BY <1>1, <2>3, BelowLimit, Zenon DEF Remainder, Minus
    <2>5. EndOf(rest) = top /\ rest.at \in Nat /\ rest.size \in Nat
        <3> HIDE DEF rest, whole
        <3>1. EndOf(rest) = b.at + 2 + size + 2 + (b.size - size - 2)
            BY <1>1, <2>1, <2>4, Zenon DEF EndOf
        <3>2. b.at + 2 + b.size < Wrap
            BY <1>1
        <3>3. /\ b.at + 2 + size \in Nat
              /\ b.at + 2 + size + 2 + (b.size - size - 2) = b.at + 2 + b.size
            BY <1>1, <3>2, RoomForRest, ZenonT(30)
        <3> QED BY <1>1, <2>1, <2>3, <2>4, <3>1, <3>3, Zenon
    <2>6. whole.at = b.at /\ whole.size = size /\ EndOf(whole) = rest.at
        BY <1>1, <2>1 DEF Block, EndOf
    <2>7. /\ \A c \in live' : c.at \in Nat /\ c.size \in Nat /\ EndOf(c) <= EndOf(whole)
          /\ \A c, d \in live' : c = d \/ Apart(c, d)
        <3> HIDE DEF whole
        <3>1. /\ HandOut(whole, size) /\ whole.at \in Nat /\ whole.size \in Nat
              /\ FreeFrom <= whole.at
            BY <1>2, <2>6 DEF whole
        <3> QED BY <3>1, HandOutApart
    <2> HIDE DEF rest, whole
    <2>8. list' = <<rest>>
        BY <1>2 DEF rest
    <2>9. list'[1] = rest /\ Len(list') = 1 /\ list' # <<>> /\ list' = <<list'[1]>>
        BY <2>8
    <2>10. FreeFrom' = rest.at
        BY <2>9 DEF FreeFrom
    <2> QED BY <1>2, <2>1, <2>5, <2>6, <2>7, <2>9, <2>10, Zenon DEF HeapInv
<1>3. CASE /\ HandOut(b, b.size)
           /\ list' = <<>> \o <<>>
           /\ heap_top' = top /\ UNCHANGED torn
    <2>1. /\ \A c \in live' : c.at \in Nat /\ c.size \in Nat /\ EndOf(c) <= EndOf(b)
          /\ \A c, d \in live' : c = d \/ Apart(c, d)
        BY <1>3, HandOutApart, Zenon
    <2>2. list' = <<>>
        BY <1>3
    <2>3. FreeFrom' = top
        BY <1>3, <2>2 DEF FreeFrom
    <2> QED BY <1>3, <2>1, <2>2, <2>3, Zenon DEF HeapInv
<1>4. CASE Down
    BY <1>4, Zenon DEF Down, HeapInv, FreeFrom
<1> QED
    BY <1>2, <1>3, <1>4, Zenon DEF Split

-----------------------------------------------------------------------------

\* kmalloc from the list: the block found is the only one, and the last.
LEMMA FitKeepsInv ==
    ASSUME HeapInv, ~torn, NEW size \in Sizes, kmalloc_fit(size)
    PROVE  HeapInv'
<1>1. PICK i \in Fits(size) :
          Split(list[i], size, SubSeq(list, 1, i - 1), SubSeq(list, i + 1, Len(list)), heap_top)
    BY Zenon DEF kmalloc_fit
<1>2. i \in DOMAIN list /\ list[i].size >= size
    BY DEF Fits
<1>3. list # <<>>
    BY <1>2
<1>4. /\ list = <<list[1]>> /\ Len(list) = 1 /\ list[1].at \in Nat /\ list[1].size \in Nat
      /\ EndOf(list[1]) = heap_top /\ heap_top \in 0 .. Limit
    BY <1>3, Zenon DEF HeapInv
<1>5. i = 1
    BY <1>2, <1>4
<1>6. SubSeq(list, 1, i - 1) = <<>> /\ SubSeq(list, i + 1, Len(list)) = <<>>
    <2>1. i - 1 = 0 /\ i + 1 = 2 /\ Len(list) = 1
        BY <1>4, <1>5
    <2> QED BY <2>1
<1>7. FreeFrom <= list[1].at
    BY <1>3, <1>4 DEF FreeFrom
<1>8. size \in 1 .. list[1].size
    BY <1>2, <1>4, <1>5, HeapFacts
<1>9. Split(list[1], size, <<>>, <<>>, heap_top)
    BY <1>1, <1>5, <1>6, Zenon
<1> QED
    BY <1>4, <1>7, <1>8, <1>9, SplitKeepsInv, Zenon

\* Where a growth that is allowed ends.
LEMMA GrowsEnough ==
    ASSUME HeapInv, ~torn, NEW size \in Sizes, Allowed(size)
    PROVE  /\ Target(size) \in 0 .. Limit /\ heap_top \in 0 .. Limit
           /\ heap_top + 2 + size <= Target(size)
<1>1. size \in Nat /\ Header = 2 /\ PageUnits \in Nat /\ Limit \in Nat
    BY HeapFacts
<1>2. heap_top \in 0 .. Limit
    BY DEF HeapInv
<1>3. PagesFor(Header + size) \in Nat /\ PageUnits * PagesFor(Header + size) >= Header + size
    BY <1>1, PagesEnough
<1> DEFINE n == PageUnits * PagesFor(Header + size)
<1>4. n \in Nat
    BY <1>1, <1>3
<1>5. Target(size) = heap_top + n /\ Target(size) <= Limit
    BY DEF Target, Allowed, Limit
<1> HIDE DEF n
<1>6. n >= 2 + size
    BY <1>1, <1>3 DEF n
<1> QED
    BY <1>1, <1>2, <1>4, <1>5, <1>6

\* kmalloc after a growth: of the last block with the new pages, or of the new
\* pages alone when the list is empty.
LEMMA GrowKeepsInv ==
    ASSUME HeapInv, ~torn, NEW size \in Sizes, kmalloc_grow(size)
    PROVE  HeapInv'
<1> DEFINE top == Target(size)
           fresh == Block(heap_top, top - heap_top - Header)
           last == Block(LastBlock.at, LastBlock.size + Header + fresh.size)
<1>1. /\ top \in 0 .. Limit /\ heap_top \in 0 .. Limit /\ heap_top + 2 + size <= top
      /\ Header = 2 /\ Limit \in Nat /\ size \in Nat /\ size >= 1
    BY GrowsEnough, HeapFacts DEF kmalloc_grow
<1>2. \/ TailIsLast /\ Split(last, size, SubSeq(list, 1, Len(list) - 1), <<>>, top)
      \/ ~TailIsLast /\ Split(fresh, size, list, <<>>, top)
      \/ ~TailIsLast /\ TakeUnwritten(fresh, top)
    BY Zenon DEF kmalloc_grow
<1>3. fresh.at = heap_top /\ fresh.size = top - heap_top - 2
    BY <1>1 DEF Block
<1>4. last.at = LastBlock.at /\ last.size = LastBlock.size + Header + fresh.size
    BY DEF Block
<1> HIDE DEF top, fresh, last
<1>5. fresh.size \in Nat /\ fresh.at \in Nat /\ size \in 1 .. fresh.size /\ EndOf(fresh) = top
    BY <1>1, <1>3 DEF EndOf
<1>6. CASE list # <<>>
    <2>1. /\ list = <<list[1]>> /\ Len(list) = 1 /\ list[1].at \in Nat /\ list[1].size \in Nat
          /\ EndOf(list[1]) = heap_top
        BY <1>6, Zenon DEF HeapInv
    <2>2. LastBlock = list[1] /\ TailIsLast
        BY <1>6, <2>1, Zenon DEF LastBlock, TailIsLast
    <2>3. Len(list) - 1 = 0
        BY <2>1
    <2>4. SubSeq(list, 1, Len(list) - 1) = <<>>
        <3>1. SubSeq(list, 1, 0) = <<>>
            OBVIOUS
        <3> QED BY <2>3, <3>1, Zenon
    <2>5. Split(last, size, <<>>, <<>>, top)
        BY <1>2, <2>2, <2>4, Zenon
    <2>6. last.at \in Nat /\ last.size \in Nat /\ size \in 1 .. last.size /\ EndOf(last) = top
        <3>1. list[1].at + 2 + list[1].size = heap_top
            BY <1>1, <2>1, Zenon DEF EndOf
        <3>2. last.at = list[1].at /\ last.size = list[1].size + 2 + (top - heap_top - 2)
            BY <1>1, <1>3, <1>4, <2>2
        <3>3. EndOf(last) = last.at + 2 + last.size
            BY <1>1 DEF EndOf
        <3> QED BY <1>1, <2>1, <3>1, <3>2, <3>3
    <2>7. FreeFrom <= last.at
        BY <1>4, <1>6, <2>1, <2>2 DEF FreeFrom
    <2> QED BY <1>1, <2>5, <2>6, <2>7, SplitKeepsInv, Zenon
<1>7. CASE list = <<>>
    <2>1. ~TailIsLast
        BY <1>7 DEF TailIsLast
    <2>2. FreeFrom <= fresh.at
        BY <1>1, <1>3, <1>7 DEF FreeFrom
    <2>3. CASE Split(fresh, size, list, <<>>, top)
        <3>1. Split(fresh, size, <<>>, <<>>, top)
            BY <1>7, <2>3, Zenon
        <3> QED BY <1>1, <1>5, <2>2, <3>1, SplitKeepsInv, Zenon
    <2>4. CASE /\ \E header \in Unwritten : HandOut(fresh, header)
               /\ heap_top' = top /\ UNCHANGED <<list, torn>>
        <3>1. PICK header \in Unwritten : HandOut(fresh, header)
            BY <2>4, Zenon
        <3>2. /\ \A c \in live' : c.at \in Nat /\ c.size \in Nat /\ EndOf(c) <= EndOf(fresh)
              /\ \A c, d \in live' : c = d \/ Apart(c, d)
            BY <1>5, <2>2, <3>1, HandOutApart, Zenon
        <3>3. FreeFrom' = top /\ list' = <<>> /\ torn' = torn
            BY <1>7, <2>4 DEF FreeFrom
        <3> QED BY <1>1, <1>5, <2>4, <3>2, <3>3, Zenon DEF HeapInv
    <2>5. CASE Down
        BY <2>5, Zenon DEF Down, HeapInv, FreeFrom
    <2> QED BY <1>2, <2>1, <2>3, <2>4, <2>5, Zenon DEF TakeUnwritten
<1> QED
    BY <1>6, <1>7, Zenon

\* A list of one block is coalesced already.
LEMMA CoalescedOne ==
    ASSUME NEW l, l # <<>>, Len(l) = 1
    PROVE  Coalesced(l) = <<Block(l[1].at, l[1].size)>>
<1> DEFINE f(s) == [i \in 1 .. Len(l) |->
                       IF i = 1 THEN l[1].size ELSE (s[i - 1] + Header + l[i].size) % Wrap]
           one == [i \in 1 .. Len(l) |-> l[1].size]
           sum == CHOOSE s : s = f(s)
<1>1. one = f(one)
    <2>1. 1 .. Len(l) = {1}
        BY Len(l) = 1
    <2> QED BY <2>1
<1>2. sum = f(sum)
    BY <1>1, Zenon
<1>3. sum[Len(l)] = l[1].size
    <2>1. Len(l) \in 1 .. Len(l) /\ Len(l) = 1
        OBVIOUS
    <2>2. f(sum)[Len(l)] = l[1].size
        BY <2>1, Zenon
    <2> QED BY <1>2, <2>2, Zenon
<1> QED
    BY <1>3, Zenon DEF Coalesced

\* kfree gives a block up and leaves the list as it is.
LEMMA FreeKeepsInv ==
    ASSUME HeapInv, ~torn, NEW b \in live, kfree(b)
    PROVE  HeapInv'
<1>1. /\ live' \subseteq live /\ heap_top' = heap_top /\ torn' = torn /\ list' = Coalesced(list)
    BY DEF kfree
<1>2. CASE list = <<>>
    <2>1. list' = <<>>
        BY <1>1, <1>2, Zenon DEF Coalesced
    <2> QED BY <1>1, <1>2, <2>1, Zenon DEF HeapInv, FreeFrom
<1>3. CASE list # <<>>
    <2>1. /\ list = <<list[1]>> /\ Len(list) = 1 /\ list[1].at \in Nat /\ list[1].size \in Nat
          /\ EndOf(list[1]) = heap_top
        BY <1>3, Zenon DEF HeapInv
    <2> DEFINE one == Block(list[1].at, list[1].size)
    <2>2. one.at = list[1].at /\ one.size = list[1].size
        BY DEF Block
    <2>3. list' = <<one>>
        BY <1>1, <1>3, <2>1, CoalescedOne, Zenon
    <2> HIDE DEF one
    <2>4. list'[1] = one /\ list' = <<list'[1]>> /\ Len(list') = 1 /\ list' # <<>>
        BY <2>3
    <2>5. EndOf(list'[1]) = heap_top /\ FreeFrom' = FreeFrom
        BY <1>3, <2>1, <2>2, <2>4, Zenon DEF EndOf, FreeFrom
    <2> QED BY <1>1, <2>1, <2>2, <2>4, <2>5, Zenon DEF HeapInv
<1> QED
    BY <1>2, <1>3

\* Every step keeps the invariant; once a growth has failed half way it says
\* nothing.
LEMMA HeapStep ==
    ASSUME HeapInv, [KHeapNext]_vars
    PROVE  HeapInv'
<1>1. CASE UNCHANGED vars
    BY <1>1, Zenon DEF vars, HeapInv, FreeFrom
<1>2. CASE torn /\ KHeapNext
    <2>1. torn' = TRUE
        <3>1. torn = TRUE
            BY <1>2 DEF HeapInv
        <3> QED BY <1>2, <3>1, Zenon DEF KHeapNext, kmalloc_fit, kmalloc_grow, kmalloc_null,
                    kfree, Split, TakeUnwritten, Down
    <2> QED BY <2>1, Zenon DEF HeapInv
<1>3. CASE ~torn /\ KHeapNext
    <2>1. ASSUME NEW size \in Sizes, kmalloc_null(size) PROVE HeapInv'
        BY <2>1, Zenon DEF kmalloc_null, HeapInv
    <2> QED BY <1>3, <2>1, FitKeepsInv, GrowKeepsInv, FreeKeepsInv, Zenon DEF KHeapNext
<1> QED
    BY <1>1, <1>2, <1>3

(***************************************************************************)
(* kmalloc and kfree keep at most one free block, the last of the heap.    *)
(***************************************************************************)
THEOREM HeapInvariant == KHeapSpec => []HeapInv
<1>1. KHeapInit => HeapInv
    BY HeapInitInv
<1>2. HeapInv /\ [KHeapNext]_vars => HeapInv'
    BY HeapStep
<1> QED
    BY <1>1, <1>2, PTL DEF KHeapSpec

(***************************************************************************)
(* The blocks that kmalloc has handed out are mapped and overlap neither   *)
(* each other nor the free block, for every page size, heap limit, word    *)
(* size and every set of request sizes: what is left of a block too small  *)
(* for a header wraps around, and the kernel faults before it uses it.     *)
(***************************************************************************)
THEOREM HeapBlocksApart == KHeapSpec => []BlocksAreApart
<1>1. HeapInv => BlocksAreApart
    <2> SUFFICES ASSUME HeapInv, ~torn PROVE BlocksAreApart
        BY DEF BlocksAreApart
    <2>1. /\ \A b, c \in live : b = c \/ Apart(b, c)
          /\ \A b \in live : b.at \in Nat /\ b.size \in Nat /\ EndOf(b) <= FreeFrom
        BY DEF HeapInv
    <2>2. FreeFrom <= heap_top
        <3>1. heap_top \in Nat
            BY HeapFacts DEF HeapInv
        <3> QED BY <3>1, HeapFacts, SMTT(30), Z3T(30) DEF HeapInv, FreeFrom, EndOf
    <2>3. FreeFrom \in Nat /\ heap_top \in Nat
        BY HeapFacts DEF FreeFrom, HeapInv
    <2>4. ASSUME NEW b \in live PROVE EndOf(b) <= heap_top
        <3>1. EndOf(b) \in Nat
            BY <2>1 DEF EndOf, Header
        <3> QED BY <2>1, <2>2, <2>3, <3>1
    <2>5. ASSUME NEW b \in live, NEW i \in DOMAIN list PROVE Apart(b, list[i])
        <3>1. list # <<>>
            BY <2>5
        <3>2. list = <<list[1]>> /\ Len(list) = 1
            BY <3>1 DEF HeapInv
        <3>3. i = 1
            BY <2>5, <3>2
        <3> QED BY <2>1, <3>1, <3>3, Zenon DEF FreeFrom, Apart
    <2> QED BY <2>1, <2>4, <2>5, Zenon DEF BlocksAreApart
<1> QED
    BY <1>1, HeapInvariant, PTL
=============================================================================
