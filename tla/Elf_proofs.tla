------------------------------ MODULE Elf_proofs ------------------------------
(***************************************************************************)
(* Proofs about module Elf, for every image and interpreter, every layout  *)
(* of the address space and every page size: what the loader makes ready   *)
(* to run is what was linked, with no more rights than the segments ask    *)
(* for, and it starts in code.                                             *)
(*                                                                         *)
(* First what validation establishes about one segment: where it ends,     *)
(* that it is off the stack and apart from the image's other segments.     *)
(* Then, one conjunct of the invariant at a time, that every step keeps    *)
(* the page entries and the bytes as far as the loader has come.           *)
(***************************************************************************)
EXTENDS Elf, WellFoundedInduction, TLAPS

\* A nonempty set of naturals has a least element.
LEMMA LeastNat ==
    ASSUME NEW T \in SUBSET Nat, T # {}
    PROVE  \E n \in T : \A m \in T : n <= m
<1>1. PICK x \in T : \A y \in T : ~(<<y, x>> \in OpToRel(<, Nat))
    BY NatLessThanWellFounded, WFMin, Zenon
<1>2. \A y \in T : ~(y < x)
    BY <1>1, Zenon DEF OpToRel
<1> QED
    BY <1>2

\* A sum of two words wraps at most once.
LEMMA WordSum ==
    ASSUME NEW a \in Nat, a < 2 * Wrap
    PROVE  a % Wrap = IF a < Wrap THEN a ELSE a - Wrap
<1> DEFINE r == a % Wrap
           q == a \div Wrap
<1>1. Wrap \in Nat /\ Wrap > 0
    BY ElfAssumption
<1>2. r \in 0 .. Wrap - 1 /\ q \in Int /\ a = Wrap * q + r
    BY <1>1
<1>3. q = 0 \/ q = 1
    BY <1>1, <1>2
<1> QED
    BY <1>1, <1>2, <1>3

\* The page of an address, as bounds on the address.
LEMMA PageBounds ==
    ASSUME NEW a \in Nat
    PROVE  /\ PageOf(a) \in Nat
           /\ PageSize * PageOf(a) <= a
           /\ a < PageSize * PageOf(a) + PageSize
<1> DEFINE r == a % PageSize
           q == a \div PageSize
<1>1. PageSize \in Nat /\ PageSize > 0
    BY ElfAssumption
<1>2. r \in 0 .. PageSize - 1 /\ q \in Int /\ a = PageSize * q + r
    BY <1>1
<1>3. q >= 0
    BY <1>1, <1>2
<1> QED
    BY <1>1, <1>2, <1>3 DEF PageOf

\* A higher address is not on a lower page.
LEMMA PageMonotone ==
    ASSUME NEW a \in Nat, NEW b \in Nat, a <= b
    PROVE  PageOf(a) <= PageOf(b)
<1> DEFINE q == PageOf(a)
           s == PageOf(b)
<1>1. PageSize \in Nat /\ PageSize > 0
    BY ElfAssumption
<1>2. q \in Nat /\ PageSize * q <= a /\ s \in Nat /\ b < PageSize * s + PageSize
    BY PageBounds
<1> HIDE DEF q, s
<1>3. SUFFICES ASSUME s + 1 <= q
               PROVE  FALSE
    BY <1>2 DEF q, s
<1>4. PageSize * (s + 1) <= PageSize * q
    BY <1>1, <1>2, <1>3
<1>5. PageSize * (s + 1) = PageSize * s + PageSize
    BY <1>1, <1>2
<1> QED
    BY <1>1, <1>2, <1>4, <1>5

\* An address below a page boundary is on a page below it.
LEMMA PageBelow ==
    ASSUME NEW a \in Nat, NEW b \in Nat, b % PageSize = 0, a < b
    PROVE  PageOf(a) < PageOf(b)
<1> DEFINE q == PageOf(a)
           s == PageOf(b)
<1>1. PageSize \in Nat /\ PageSize > 0
    BY ElfAssumption
<1>2. q \in Nat /\ PageSize * q <= a /\ s \in Nat
    BY PageBounds
<1>3. b = PageSize * s
    BY <1>1 DEF PageOf
<1> HIDE DEF q, s
<1>4. SUFFICES ASSUME s <= q
               PROVE  FALSE
    BY <1>2 DEF q, s
<1>5. PageSize * s <= PageSize * q
    BY <1>1, <1>2, <1>4
<1> QED
    BY <1>1, <1>2, <1>3, <1>5

\* brk_init rounds up.
LEMMA RoundedUp ==
    ASSUME NEW e \in Nat
    PROVE  e <= ((e + PageSize - 1) \div PageSize) * PageSize
<1> DEFINE a == e + PageSize - 1
           q == a \div PageSize
<1>1. PageSize \in Nat /\ PageSize > 0 /\ a \in Nat
    BY ElfAssumption
<1>2. q \in Nat /\ a < PageSize * q + PageSize
    BY <1>1, PageBounds DEF PageOf
<1>3. PageSize * q = q * PageSize
    BY <1>1, <1>2
<1>4. a = e + PageSize - 1
    OBVIOUS
<1> HIDE DEF a, q
<1>5. e <= q * PageSize
    BY <1>1, <1>2, <1>3, <1>4
<1> QED
    BY <1>5 DEF a, q

\* The stack starts at a page boundary.
LEMMA StackAligned ==
    /\ StackTop \in Nat /\ StackTop % PageSize = 0
    /\ StackTop - StackSize \in Nat /\ (StackTop - StackSize) % PageSize = 0
    /\ StackTop - StackSize < StackTop /\ StackTop <= UserMax
<1> DEFINE s == StackTop \div PageSize
           t == StackSize \div PageSize
           x == StackTop - StackSize
           q == x \div PageSize
           r == x % PageSize
<1>1. /\ PageSize \in Nat /\ PageSize > 0
      /\ StackTop \in Nat /\ StackTop % PageSize = 0
      /\ StackSize \in Nat /\ StackSize % PageSize = 0 /\ StackSize > 0
      /\ StackTop <= UserMax /\ UserMin \in Nat /\ UserMin + StackSize < StackTop
    BY ElfAssumption
<1>2. s \in Int /\ t \in Int /\ StackTop = PageSize * s /\ StackSize = PageSize * t
    BY <1>1
<1>3. x \in Nat
    BY <1>1
<1>4. q \in Int /\ r \in 0 .. PageSize - 1 /\ x = PageSize * q + r
    BY <1>1, <1>3
<1>5. x = PageSize * s - PageSize * t
    BY <1>2
<1> HIDE DEF s, t, x, q, r
<1>6. x = PageSize * (s - t)
    BY <1>1, <1>2, <1>5
<1>7. PageSize * (s - t - q) = r
    BY <1>1, <1>2, <1>3, <1>4, <1>6
<1>8. r = 0
    <2> DEFINE d == s - t - q
    <2>1. d \in Int /\ PageSize * d = r
        BY <1>2, <1>4, <1>7
    <2> HIDE DEF d
    <2>2. d = 0 \/ d >= 1 \/ d <= -1
        BY <2>1
    <2>3. CASE d >= 1
        <3>1. PageSize * d >= PageSize
            BY <1>1, <2>1, <2>3
        <3> QED
            BY <1>1, <1>4, <2>1, <3>1
    <2>4. CASE d <= -1
        <3>1. PageSize * d <= -PageSize
            BY <1>1, <2>1, <2>4
        <3> QED
            BY <1>1, <1>4, <2>1, <3>1
    <2>5. CASE d = 0
        BY <1>1, <2>1, <2>5
    <2> QED
        BY <2>2, <2>3, <2>4, <2>5
<1> QED
    BY <1>1, <1>3, <1>8 DEF x, r

\* What validation establishes about one segment, whatever wraps.
LEMMA LoadFacts ==
    ASSUME NEW img, IsImage(img), elf_validate(img), NEW i \in Loads(img)
    PROVE  /\ i \in 1 .. Len(img.ph) /\ i \in 1 .. MaxPhnum /\ img.ph[i] \in Phdr
           /\ img.ph[i].memsz \in Nat /\ img.ph[i].memsz # 0 /\ img.ph[i].memsz < Wrap
           /\ img.ph[i].filesz \in Nat /\ img.ph[i].filesz <= img.ph[i].memsz
           /\ img.ph[i].vaddr \in Nat /\ Base(img) \in Nat
           /\ Vaddr(img, i) = img.ph[i].vaddr + Base(img)
           /\ Vaddr(img, i) \in Word /\ Vend(img, i) \in Word
           /\ Vaddr(img, i) >= UserMin
           /\ SegmentOK(img, i)
<1>1. /\ Wrap \in Nat /\ Wrap > 0 /\ DynBase \in Word /\ 0 \in Word /\ MaxPhnum \in Nat
    BY ElfAssumption DEF Word
<1>2. /\ img.ph \in Seq(Phdr) /\ Len(img.ph) \in 1 .. MaxPhnum
      /\ SegmentOK(img, i)
    BY DEF IsImage, elf_validate, HeaderOK
<1>3. i \in 1 .. Len(img.ph) /\ img.ph[i].memsz # 0
    BY <1>2 DEF Loads
<1>4. img.ph[i] \in Phdr
    BY <1>2, <1>3
<1>5. /\ img.ph[i].memsz \in Word /\ img.ph[i].filesz \in Word /\ img.ph[i].vaddr \in Word
    BY <1>4 DEF Phdr
<1>6. Base(img) \in Word
    BY <1>1 DEF Base
<1>7. FileRangeOK(img, img.ph[i]) /\ RangeOK(img, i)
    BY <1>2, Zenon DEF SegmentOK
<1>8. /\ img.ph[i].filesz <= img.ph[i].memsz
      /\ Vaddr(img, i) >= img.ph[i].vaddr
      /\ Vaddr(img, i) >= UserMin
    BY <1>7, Zenon DEF FileRangeOK, RangeOK
<1> DEFINE v == img.ph[i].vaddr
           b == Base(img)
<1>9. v \in Nat /\ b \in Nat /\ v < Wrap /\ b < Wrap
    BY <1>1, <1>5, <1>6 DEF Word
<1>10. (v + b) % Wrap = IF v + b < Wrap THEN v + b ELSE (v + b) - Wrap
    <2> HIDE DEF v, b
    <2> QED
        BY <1>1, <1>9, WordSum
<1>11. Vaddr(img, i) = (v + b) % Wrap
    BY DEF Vaddr
<1>12. Vaddr(img, i) = v + b /\ v + b < Wrap
    <2> HIDE DEF v, b
    <2>1. Vaddr(img, i) >= v
        BY <1>8 DEF v
    <2> QED
        BY <1>1, <1>9, <1>10, <1>11, <2>1
<1>13. Vaddr(img, i) \in Word
    BY <1>1, <1>9, <1>12 DEF Word
<1>14. Vend(img, i) \in Word
    BY <1>1, <1>5, <1>13 DEF Vend, Word
<1> QED
    BY <1>1, <1>2, <1>3, <1>4, <1>5, <1>8, <1>9, <1>12, <1>13, <1>14, SMTT(30) DEF Word

\* The same of a segment whose biased end does not wrap.
LEMMA LoadEnds ==
    ASSUME NEW img, IsImage(img), elf_validate(img), NEW i \in Loads(img), ~Wraps(img)
    PROVE  /\ Vend(img, i) = Vaddr(img, i) + img.ph[i].memsz
           /\ Vaddr(img, i) + img.ph[i].memsz < Wrap
           /\ Vaddr(img, i) + img.ph[i].memsz <= UserMax
           /\ (Vaddr(img, i) + img.ph[i].memsz - 1) % Wrap = Vaddr(img, i) + img.ph[i].memsz - 1
           /\ (img.ph[i].vaddr + img.ph[i].memsz) % Wrap = img.ph[i].vaddr + img.ph[i].memsz
<1> DEFINE v == Vaddr(img, i)
           m == img.ph[i].memsz
           w == img.ph[i].vaddr
<1>1. Wrap \in Nat /\ Wrap > 0
    BY ElfAssumption
<1>2. /\ m \in Nat /\ m # 0 /\ v \in Nat /\ w \in Nat /\ w <= v
    BY LoadFacts DEF Word
<1>3. ~(v + m >= Wrap)
    BY DEF Wraps
<1>4. Vend(img, i) <= UserMax
    BY LoadFacts, Zenon DEF SegmentOK, RangeOK
<1>5. Vend(img, i) = (v + m) % Wrap
    BY DEF Vend
<1>6. (v + m) % Wrap = v + m /\ (v + m - 1) % Wrap = v + m - 1 /\ (w + m) % Wrap = w + m
    <2> HIDE DEF v, m, w
    <2>1. v + m \in Nat /\ v + m < Wrap
        BY <1>1, <1>2, <1>3
    <2>2. v + m - 1 \in Nat /\ v + m - 1 < Wrap
        BY <1>1, <1>2, <1>3
    <2>3. w + m \in Nat /\ w + m < Wrap
        BY <1>1, <1>2, <1>3
    <2> QED
        BY <1>1, <2>1, <2>2, <2>3, WordSum
<1>7. v + m < Wrap
    BY <1>1, <1>2, <1>3
<1> QED
    BY <1>4, <1>5, <1>6, <1>7

\* No page that map_segment_pages maps for a segment is one of the stack's,
\* even where the segment's end wraps.
LEMMA SegPagesOffStack ==
    ASSUME NEW img, IsImage(img), elf_validate(img), NEW i \in Loads(img),
           SegPages(img, i) \subseteq PageNos, NEW p \in SegPages(img, i)
    PROVE  p \notin StackPages
<1> DEFINE v == Vaddr(img, i)
           m == img.ph[i].memsz
           e == Vend(img, i)
           last == (v + m - 1) % Wrap
<1>1. Wrap \in Nat /\ Wrap > 0 /\ UserMax \in Nat /\ UserMax <= Wrap - 1
      /\ PageSize \in Nat /\ PageSize > 0
    BY ElfAssumption
<1>2. /\ m \in Nat /\ m # 0 /\ m < Wrap /\ v \in Nat /\ v < Wrap
      /\ e \in Nat /\ ClearOfStack(img, i)
    <2>1. v \in Word /\ e \in Word /\ ClearOfStack(img, i)
        BY LoadFacts, Zenon DEF SegmentOK
    <2> QED
        BY <1>1, <2>1, LoadFacts DEF Word
<1>3. ~(v < StackTop /\ e > StackTop - StackSize)
    BY <1>2 DEF ClearOfStack
<1>4. e = (v + m) % Wrap
    BY DEF Vend
<1>5. SegPages(img, i) = PageOf(v) .. PageOf(last)
    BY DEF SegPages
<1> HIDE DEF v, m, e
<1>6. /\ e = IF v + m < Wrap THEN v + m ELSE (v + m) - Wrap
      /\ last = IF v + m - 1 < Wrap THEN v + m - 1 ELSE (v + m - 1) - Wrap
    <2>1. v + m \in Nat /\ v + m < 2 * Wrap /\ v + m - 1 \in Nat /\ v + m - 1 < 2 * Wrap
        BY <1>1, <1>2
    <2> QED
        BY <1>4, <2>1, WordSum
<1> HIDE DEF last
<1>7. /\ last \in Nat /\ last < Wrap
      /\ (e = 0 /\ last = Wrap - 1) \/ (e > 0 /\ last = e - 1)
    BY <1>1, <1>2, <1>6
<1>8. PageOf(v) \in Nat /\ PageOf(last) \in Nat
    BY <1>2, <1>7, PageBounds
<1>9. p \in Int /\ PageOf(v) <= p /\ p <= PageOf(last) /\ PageOf(last) \in SegPages(img, i)
    BY <1>5, <1>8
<1>10. last < UserMax
    <2>1. SUFFICES ASSUME UserMax <= last
                   PROVE  FALSE
        BY <1>1, <1>7
    <2>2. PageOf(UserMax) <= PageOf(last)
        BY <1>1, <1>7, <2>1, PageMonotone
    <2>3. PageOf(last) \in 0 .. UserMax \div PageSize - 1
        BY <1>9 DEF PageNos
    <2>4. PageOf(UserMax) = UserMax \div PageSize /\ PageOf(UserMax) \in Nat
        BY <1>1, PageBounds DEF PageOf
    <2> QED
        BY <1>8, <2>2, <2>3, <2>4
<1>11. e > 0 /\ last = e - 1
    BY <1>1, <1>7, <1>10
<1>12. SUFFICES ASSUME p \in StackPages
                PROVE  FALSE
    OBVIOUS
<1>13. /\ PageOf(StackTop - StackSize) \in Nat /\ PageOf(StackTop) \in Nat
    BY StackAligned, PageBounds
<1>14. /\ PageOf(StackTop - StackSize) <= p /\ p < PageOf(StackTop)
    BY <1>9, <1>12, <1>13 DEF StackPages
<1>15. v < StackTop
    <2>1. SUFFICES ASSUME StackTop <= v
                   PROVE  FALSE
        BY <1>2, StackAligned
    <2>2. PageOf(StackTop) <= PageOf(v)
        BY <1>2, <2>1, StackAligned, PageMonotone
    <2> QED
        BY <1>8, <1>9, <1>13, <1>14, <2>2
<1>16. last < StackTop - StackSize
    BY <1>2, <1>3, <1>11, <1>15, StackAligned
<1>17. PageOf(last) < PageOf(StackTop - StackSize)
    BY <1>7, <1>16, StackAligned, PageBelow
<1> QED
    BY <1>8, <1>9, <1>13, <1>14, <1>17

-----------------------------------------------------------------------------
\* The phases in which what is in the space has been validated.
Loading == {"map", "copy", "stack", "interp", "enter", "ready"}

Pte == [present : BOOLEAN, write : BOOLEAN, nx : BOOLEAN]

ElfTypes ==
    /\ nx \in BOOLEAN
    /\ pte \in [PageNos -> Pte]
    /\ byte = [a \in Addresses |-> byte[a]]
    /\ IsImage(main) /\ IsImage(image)

ElfControl ==
    /\ phase \in Loading \cup {"validate", "failed", "wild"}
    /\ phase \in Loading => elf_validate(main) /\ elf_validate(image)
    /\ phase \in {"validate", "stack", "interp"} => image = main
    /\ phase = "interp" => Interps(main) # {}
    /\ phase = "validate" => pte = Empty /\ byte = Blank
    /\ phase \in {"failed", "wild"} => pte = Empty
    /\ phase \in {"map", "copy"} => seg \in 1 .. Len(image.ph)

\* The load is refused, or has overwritten the kernel's half.
Over == Refuse \/ Trample

\* The steps that go on, each without the ways it may fail.
Accepted ==
    /\ phase = "validate" /\ elf_validate(image)
    /\ phase' = "map" /\ seg' = 1
    /\ UNCHANGED <<nx, main, image, pte, byte, start>>

Page(p) == PageAfter(p, seg_page_flags(image.ph[seg].flags))

Mapped ==
    /\ phase = "map" /\ seg \in Loads(image)
    /\ SegPages(image, seg) \subseteq PageNos
    /\ nx => \A p \in SegPages(image, seg) : pte[p].present /\ Page(p).write => Page(p).nx
    /\ pte' = [p \in PageNos |-> IF p \in SegPages(image, seg) THEN Page(p) ELSE pte[p]]
    /\ NextSeg("copy")
    /\ UNCHANGED <<nx, main, image, byte, start>>

Into(img, i) == {(Vaddr(img, i) + k) % Wrap : k \in 0 .. img.ph[i].filesz - 1}

Copied ==
    /\ phase = "copy" /\ seg \in Loads(image)
    /\ byte' = [a \in Addresses |->
          IF a \in Into(image, seg)
          THEN <<image.id, image.ph[seg].offset + (a - Vaddr(image, seg))>> ELSE byte[a]]
    /\ NextSeg(IF image = main THEN "stack" ELSE "enter")
    /\ UNCHANGED <<nx, main, image, pte, start>>

Found ==
    /\ phase = "interp"
    /\ IsImage(image') /\ elf_validate(image') /\ Interps(image') = {}
    /\ phase' = "map" /\ seg' = 1
    /\ UNCHANGED <<nx, main, pte, byte, start>>

\* Every step ends the load or is one of these.
LEMMA ElfSteps ==
    ASSUME ElfNext
    PROVE  \/ Over \/ Accepted \/ Skip \/ Mapped \/ Copied
           \/ setup_user_stack \/ Found \/ Enter
<1>1. CASE Validate
    BY <1>1, Zenon DEF Validate, Accepted, Over
<1>2. CASE map_segment_pages
    <2>1. CASE Over
        BY <2>1
    <2>2. CASE ~Over
        <3>1. /\ phase = "map" /\ seg \in Loads(image)
              /\ SegPages(image, seg) \subseteq PageNos
              /\ pte' = [p \in PageNos |-> IF p \in SegPages(image, seg) THEN Page(p) ELSE pte[p]]
              /\ NextSeg("copy")
              /\ UNCHANGED <<nx, main, image, byte, start>>
            BY <1>2, <2>2, Zenon DEF map_segment_pages, Page, Over
        <3>2. ~(nx /\ \E p \in {q \in SegPages(image, seg) \cap PageNos : pte[q].present} :
                        Page(p).write /\ ~Page(p).nx)
            BY <1>2, <2>2, Zenon DEF map_segment_pages, Page, Over
        <3>3. nx => \A p \in SegPages(image, seg) : pte[p].present /\ Page(p).write => Page(p).nx
            BY <3>1, <3>2, Zenon
        <3> QED
            BY <3>1, <3>3, Zenon DEF Mapped
    <2> QED
        BY <2>1, <2>2
<1>3. CASE copy_segment_data
    BY <1>3, Zenon DEF copy_segment_data, Copied, Into, Over
<1>4. CASE no_memory
    BY <1>4, Zenon DEF no_memory, Over
<1>5. CASE elf_load_interp
    <2> DEFINE found == {b \in elf_find_embedded(InterpName(main)) :
                            elf_validate(b) /\ Interps(b) = {}}
    <2>1. CASE found = {}
        BY <1>5, <2>1, Zenon DEF elf_load_interp, Over
    <2>2. CASE found # {}
        <3>1. /\ phase = "interp" /\ image' \in found
              /\ phase' = "map" /\ seg' = 1
              /\ UNCHANGED <<nx, main, pte, byte, start>>
            BY <1>5, <2>2, Zenon DEF elf_load_interp
        <3>2. /\ image' \in elf_find_embedded(InterpName(main))
              /\ elf_validate(image') /\ Interps(image') = {}
            BY <3>1, Zenon
        <3>3. PICK j \in DOMAIN Blobs : image' = Blobs[j][2]
            BY <3>2, Zenon DEF elf_find_embedded
        <3>4. IsImage(image')
            BY <3>3, ImagesAssumption, Zenon
        <3> QED
            BY <3>1, <3>2, <3>4, Zenon DEF Found
    <2> QED
        BY <2>1, <2>2
<1> QED
    BY <1>1, <1>2, <1>3, <1>4, <1>5, Zenon DEF ElfNext

\* A page entry that a segment asks for, or two share, is a page entry.
LEMMA PageTypes ==
    ASSUME ElfTypes, NEW p \in PageNos
    PROVE  /\ Page(p) \in Pte /\ Page(p).present
           /\ pte[p] \in Pte /\ Absent \in Pte
<1>1. nx \in BOOLEAN /\ pte[p] \in Pte
    BY DEF ElfTypes
<1>2. seg_page_flags(image.ph[seg].flags) \in Pte /\ seg_page_flags(image.ph[seg].flags).present
    BY <1>1 DEF seg_page_flags, Pte
<1>3. Merged(pte[p], seg_page_flags(image.ph[seg].flags)) \in Pte
      /\ Merged(pte[p], seg_page_flags(image.ph[seg].flags)).present
    BY <1>1, <1>2 DEF Merged, Pte
<1>4. Absent \in Pte
    BY DEF Absent, Pte
<1> QED
    BY <1>1, <1>2, <1>3, <1>4, Zenon DEF Page, PageAfter

\* The variables keep their types.
LEMMA ElfTypesKept ==
    ASSUME ElfTypes, [ElfNext]_vars
    PROVE  ElfTypes'
<1>1. /\ nx \in BOOLEAN /\ pte \in [PageNos -> Pte] /\ byte = [a \in Addresses |-> byte[a]]
      /\ IsImage(main) /\ IsImage(image)
    BY DEF ElfTypes
<1>2. CASE UNCHANGED vars
    BY <1>1, <1>2, Zenon DEF vars, ElfTypes
<1>3. CASE Over
    <2>3. pte' = Empty
        BY <1>3, Zenon DEF Over, Refuse, Trample, Ends
    <2>1. pte' \in [PageNos -> Pte]
        BY <2>3 DEF Empty, Absent, Pte
    <2>2. byte' = [a \in Addresses |-> byte'[a]]
        BY <1>3 DEF Over, Refuse, Trample, Ends, Blank
    <2> QED
        BY <1>1, <1>3, <2>1, <2>2, Zenon DEF Over, Refuse, Trample, Ends, ElfTypes
<1>4. CASE Accepted \/ Skip \/ Enter
    <2>1. UNCHANGED <<nx, main, image, pte, byte>>
        BY <1>4, Zenon DEF Accepted, Skip, Enter
    <2> QED
        BY <1>1, <2>1, Zenon DEF ElfTypes
<1>5. CASE Mapped
    <2>1. \A p \in PageNos : Page(p) \in Pte
        BY PageTypes
    <2>2. pte' = [p \in PageNos |-> IF p \in SegPages(image, seg) THEN Page(p) ELSE pte[p]]
        BY <1>5, Zenon DEF Mapped
    <2>3. pte' \in [PageNos -> Pte]
        BY <1>1, <2>1, <2>2
    <2> QED
        BY <1>1, <1>5, <2>3, Zenon DEF Mapped, ElfTypes
<1>6. CASE Copied
    <2>1. byte' = [a \in Addresses |-> byte'[a]]
        BY <1>6 DEF Copied
    <2> QED
        BY <1>1, <1>6, <2>1, Zenon DEF Copied, ElfTypes
<1>7. CASE setup_user_stack
    <2>1. byte' = [a \in Addresses |-> byte'[a]]
        BY <1>7 DEF setup_user_stack
    <2>2. pte' \in [PageNos -> Pte]
        <3>1. [present |-> TRUE, write |-> TRUE, nx |-> nx] \in Pte
            BY <1>1 DEF Pte
        <3>2. pte' = [p \in PageNos |->
                 IF p \in StackPages THEN [present |-> TRUE, write |-> TRUE, nx |-> nx] ELSE pte[p]]
            BY <1>7, Zenon DEF setup_user_stack
        <3> QED
            BY <1>1, <3>1, <3>2
    <2> QED
        BY <1>1, <1>7, <2>1, <2>2, Zenon DEF setup_user_stack, ElfTypes
<1>8. CASE Found
    BY <1>1, <1>8, Zenon DEF Found, ElfTypes
<1> QED
    BY <1>2, <1>3, <1>4, <1>5, <1>6, <1>7, <1>8, ElfSteps, Zenon

\* Going on to the next program header, or out of the loop.
LEMMA NextSegFacts ==
    ASSUME ElfTypes, ElfControl, phase \in {"map", "copy"}, NEW then, NextSeg(then)
    PROVE  /\ \/ phase' = phase /\ seg' = seg + 1 /\ seg + 1 \in 1 .. Len(image.ph)
              \/ phase' = then /\ seg' = 1 /\ seg = Len(image.ph)
           /\ 1 \in 1 .. Len(image.ph)
<1>1. seg \in 1 .. Len(image.ph) /\ Len(image.ph) \in Nat
    BY DEF ElfControl, ElfTypes, IsImage
<1> QED
    BY <1>1 DEF NextSeg

\* The loader's control: what has been validated, and where the loops are.
LEMMA ElfControlKept ==
    ASSUME ElfTypes, ElfControl, [ElfNext]_vars
    PROVE  ElfControl'
<1>1. /\ phase \in Loading \cup {"validate", "failed", "wild"}
      /\ phase \in Loading => elf_validate(main) /\ elf_validate(image)
      /\ phase \in {"validate", "stack", "interp"} => image = main
      /\ phase = "interp" => Interps(main) # {}
      /\ phase \in {"map", "copy"} => seg \in 1 .. Len(image.ph)
    BY Zenon DEF ElfControl
<1> DEFINE Named(f) == f \in Loading \cup {"validate", "failed"}
           First(img) == 1 \in 1 .. Len(img.ph)
<1>2. ASSUME NEW img, elf_validate(img)
      PROVE  First(img)
    <2>1. MaxPhnum \in Nat /\ Len(img.ph) \in 1 .. MaxPhnum
        BY <1>2, ElfAssumption, Zenon DEF elf_validate, HeaderOK
    <2> QED
        BY <2>1
<1>3. CASE UNCHANGED vars
    BY <1>3, Zenon DEF vars, ElfControl
<1>4. CASE Over
    <2>1. phase' \in {"failed", "wild"} /\ pte' = Empty
        BY <1>4, Zenon DEF Over, Refuse, Trample, Ends
    <2> QED
        BY <2>1 DEF ElfControl, Loading
<1>5. CASE Accepted
    <2>1. phase = "validate" /\ phase' = "map" /\ seg' = 1 /\ image' = image /\ main' = main
          /\ elf_validate(image)
        BY <1>5, Zenon DEF Accepted
    <2>2. main = image
        BY <1>1, <2>1
    <2>3. First(image)
        BY <1>2, <2>1
    <2>4. elf_validate(main)' /\ elf_validate(image)' /\ seg' \in 1 .. Len(image'.ph)
        BY <2>1, <2>2, <2>3, Zenon
    <2> QED
        BY <2>1, <2>4 DEF ElfControl, Loading
<1>6. CASE Found
    <2>1. phase = "interp" /\ phase' = "map" /\ seg' = 1 /\ main' = main /\ elf_validate(image')
        BY <1>6, Zenon DEF Found
    <2>2. elf_validate(main)
        BY <1>1, <2>1 DEF Loading
    <2>3. First(image')
        BY <1>2, <2>1
    <2>4. elf_validate(main)' /\ elf_validate(image)' /\ seg' \in 1 .. Len(image'.ph)
        BY <2>1, <2>2, <2>3, Zenon
    <2> QED
        BY <2>1, <2>4 DEF ElfControl, Loading
<1>7. ASSUME NEW then, phase \in {"map", "copy"}, NextSeg(then), main' = main, image' = image,
             then \in {"copy", "enter"} \/ (then = "stack" /\ image = main)
      PROVE  ElfControl'
    <2>1. /\ \/ phase' = phase /\ seg' = seg + 1 /\ seg + 1 \in 1 .. Len(image.ph)
             \/ phase' = then /\ seg' = 1 /\ seg = Len(image.ph)
          /\ 1 \in 1 .. Len(image.ph)
        BY <1>7, NextSegFacts, Zenon
    <2>2. elf_validate(main)' /\ elf_validate(image)'
        <3>1. elf_validate(main) /\ elf_validate(image)
            BY <1>1, <1>7 DEF Loading
        <3> QED
            BY <1>7, <3>1, Zenon
    <2>3. seg' \in 1 .. Len(image'.ph)
        BY <1>7, <2>1
    <2>4. phase' \in {"map", "copy", "enter"} \/ (phase' = "stack" /\ image' = main')
        BY <1>7, <2>1
    <2> QED
        BY <2>2, <2>3, <2>4 DEF ElfControl, Loading
<1>8. CASE Mapped
    BY <1>7, <1>8, Zenon DEF Mapped
<1>9. CASE Copied
    <2> DEFINE then == IF image = main THEN "stack" ELSE "enter"
    <2>1. phase \in {"map", "copy"} /\ NextSeg(then) /\ main' = main /\ image' = image
        BY <1>9, Zenon DEF Copied
    <2>2. then \in {"copy", "enter"} \/ (then = "stack" /\ image = main)
        OBVIOUS
    <2> QED
        BY <1>7, <2>1, <2>2
<1>10. CASE Skip
    <2> DEFINE then == IF phase = "map" THEN "copy" ELSE IF image = main THEN "stack" ELSE "enter"
    <2>1. phase \in {"map", "copy"} /\ NextSeg(then) /\ main' = main /\ image' = image
        BY <1>10, Zenon DEF Skip
    <2>2. then \in {"copy", "enter"} \/ (then = "stack" /\ image = main)
        OBVIOUS
    <2> QED
        BY <1>7, <2>1, <2>2
<1>11. CASE setup_user_stack
    <2>1. /\ phase = "stack" /\ UNCHANGED <<nx, main, image, seg>>
          /\ phase' = IF Interps(main) = {} THEN "enter" ELSE "interp"
        BY <1>11, Zenon DEF setup_user_stack
    <2>2. image = main /\ elf_validate(main) /\ elf_validate(image)
        BY <1>1, <2>1 DEF Loading
    <2>3. elf_validate(main)' /\ elf_validate(image)' /\ image' = main'
          /\ (Interps(main) = Interps(main'))
        BY <2>1, <2>2, Zenon
    <2> QED
        BY <2>1, <2>3 DEF ElfControl, Loading
<1>12. CASE Enter
    <2>1. phase = "enter" /\ phase' = "ready" /\ UNCHANGED <<nx, main, image, seg, pte, byte>>
        BY <1>12, Zenon DEF Enter
    <2>2. elf_validate(main) /\ elf_validate(image)
        BY <1>1, <2>1 DEF Loading
    <2>3. elf_validate(main)' /\ elf_validate(image)'
        BY <2>1, <2>2, Zenon
    <2> QED
        BY <2>1, <2>3 DEF ElfControl, Loading
<1> QED
    BY <1>3, <1>4, <1>5, <1>6, <1>8, <1>9, <1>10, <1>11, <1>12, ElfSteps, Zenon

-----------------------------------------------------------------------------
\* What a page's entry says after a segment has been mapped over it.
LEMMA PageGives ==
    ASSUME NEW p \in PageNos, NEW fl, fl = image.ph[seg].flags
    PROVE  /\ Page(p).present
           /\ "w" \in fl => Page(p).write
           /\ "x" \in fl => ~Page(p).nx
           /\ Page(p).write => "w" \in fl \/ (pte[p].present /\ pte[p].write)
           /\ nx /\ ~Page(p).nx => "x" \in fl \/ (pte[p].present /\ ~pte[p].nx)
           /\ pte[p].present /\ pte[p].write => Page(p).write
           /\ pte[p].present /\ ~pte[p].nx => ~Page(p).nx
<1>1. CASE pte[p].present
    <2>1. Page(p) = [present |-> TRUE, write |-> pte[p].write \/ "w" \in fl,
                     nx |-> pte[p].nx /\ (nx /\ "x" \notin fl)]
        BY <1>1, Zenon DEF Page, PageAfter, Merged, seg_page_flags
    <2>2. /\ Page(p).present = TRUE
          /\ Page(p).write = (pte[p].write \/ "w" \in fl)
          /\ Page(p).nx = (pte[p].nx /\ (nx /\ "x" \notin fl))
        BY <2>1
    <2> QED
        BY <1>1, <2>2, Zenon
<1>2. CASE ~pte[p].present
    <2>1. Page(p) = [present |-> TRUE, write |-> "w" \in fl, nx |-> nx /\ "x" \notin fl]
        BY <1>2 DEF Page, PageAfter, seg_page_flags
    <2>2. /\ Page(p).present = TRUE
          /\ Page(p).write = ("w" \in fl)
          /\ Page(p).nx = (nx /\ "x" \notin fl)
        BY <2>1
    <2> QED
        BY <1>2, <2>2, Zenon
<1> QED
    BY <1>1, <1>2

\* What setup_user_stack maps.
StackPte == [present |-> TRUE, write |-> TRUE, nx |-> nx]

\* The stack's pages are pages of the space.
LEMMA StackPagesMapped == StackPages \subseteq PageNos
<1>1. /\ PageOf(StackTop - StackSize) \in Nat /\ PageOf(StackTop) \in Nat
      /\ PageOf(UserMax) \in Nat /\ PageOf(StackTop) <= PageOf(UserMax)
    <2>1. UserMax \in Nat
        BY ElfAssumption
    <2> QED
        BY <2>1, StackAligned, PageBounds, PageMonotone
<1>2. PageOf(UserMax) = UserMax \div PageSize
    BY DEF PageOf
<1> QED
    BY <1>1, <1>2 DEF StackPages, PageNos

\* No step makes a page writable and executable.
LEMMA NoWriteExecKept ==
    ASSUME ElfTypes, ElfControl, NoWriteExec, [ElfNext]_vars
    PROVE  NoWriteExec'
<1>0. nx => \A p \in PageNos : pte[p].write => pte[p].nx
    BY DEF NoWriteExec
<1>1. CASE UNCHANGED <<nx, pte>>
    BY <1>0, <1>1, Zenon DEF NoWriteExec
<1>2. CASE Over
    <2>1. \A p \in PageNos : ~pte'[p].write
        BY <1>2 DEF Over, Refuse, Trample, Ends, Empty, Absent
    <2> QED
        BY <2>1, Zenon DEF NoWriteExec
<1>3. CASE Mapped
    <2>1. /\ phase = "map" /\ seg \in Loads(image)
          /\ nx => \A p \in SegPages(image, seg) : pte[p].present /\ Page(p).write => Page(p).nx
          /\ pte' = [p \in PageNos |-> IF p \in SegPages(image, seg) THEN Page(p) ELSE pte[p]]
          /\ nx' = nx
        BY <1>3, Zenon DEF Mapped
    <2>2. elf_validate(image)
        BY <2>1 DEF ElfControl, Loading
    <2>3. FlagsOK(image.ph[seg])
        BY <2>1, <2>2, Zenon DEF elf_validate, SegmentOK
    <2> DEFINE fl == image.ph[seg].flags
    <2>4. ~("w" \in fl /\ "x" \in fl)
        BY <2>3, Zenon DEF FlagsOK
    <2>5. SUFFICES ASSUME nx, NEW p \in PageNos, pte'[p].write
                   PROVE  pte'[p].nx
        BY <2>1 DEF NoWriteExec
    <2>6. CASE p \in SegPages(image, seg)
        <3>1. pte'[p] = Page(p)
            BY <2>1, <2>6, Zenon
        <3>2. CASE pte[p].present
            BY <2>1, <2>5, <2>6, <3>1, <3>2, Zenon
        <3>3. CASE ~pte[p].present
            BY <2>4, <2>5, <3>1, <3>3, PageGives, Zenon
        <3> QED
            BY <3>2, <3>3
    <2>7. CASE p \notin SegPages(image, seg)
        <3>1. pte'[p] = pte[p]
            BY <2>1, <2>7, Zenon
        <3> QED
            BY <1>0, <2>5, <3>1, Zenon
    <2> QED
        BY <2>6, <2>7
<1>4. CASE setup_user_stack
    <2>1. /\ pte' = [p \in PageNos |-> IF p \in StackPages THEN StackPte ELSE pte[p]]
          /\ nx' = nx
        BY <1>4, Zenon DEF setup_user_stack, StackPte
    <2>2. StackPte.nx = nx
        BY DEF StackPte
    <2>3. SUFFICES ASSUME nx, NEW p \in PageNos, pte'[p].write
                   PROVE  pte'[p].nx
        BY <2>1 DEF NoWriteExec
    <2>4. pte'[p] = StackPte \/ pte'[p] = pte[p]
        BY <2>1, Zenon
    <2> QED
        BY <1>0, <2>2, <2>3, <2>4, Zenon
<1> QED
    <2>1. Accepted \/ Skip \/ Copied \/ Found \/ Enter \/ UNCHANGED vars => UNCHANGED <<nx, pte>>
        BY Zenon DEF Accepted, Skip, Copied, Found, Enter, vars
    <2> QED
        BY <1>1, <1>2, <1>3, <1>4, <2>1, ElfSteps, Zenon

-----------------------------------------------------------------------------
\* A segment of something in the space that lies in a page and has a flag.
Here(p) == \E x \in Segments : p \in SegPages(x[1], x[2])
Asks(p, f) == \E x \in Segments : p \in SegPages(x[1], x[2]) /\ f \in x[1].ph[x[2]].flags

Earned(p) ==
    pte[p].present =>
        /\ Here(p)
        /\ pte[p].write => Asks(p, "w")
        /\ nx /\ ~pte[p].nx => Asks(p, "x")

\* LeastPrivilege, one page at a time.
LEMMA PrivilegeByPage == LeastPrivilege <=> \A p \in PageNos \ StackPages : Earned(p)
<1> DEFINE At(p) == {x \in Segments : p \in SegPages(x[1], x[2])}
           F(p) == pte[p].present =>
                      /\ At(p) # {}
                      /\ pte[p].write => \E x \in At(p) : "w" \in x[1].ph[x[2]].flags
                      /\ nx /\ ~pte[p].nx => \E x \in At(p) : "x" \in x[1].ph[x[2]].flags
<1>1. LeastPrivilege <=> \A p \in PageNos \ StackPages : F(p)
    BY Zenon DEF LeastPrivilege
<1>2. ASSUME NEW p
      PROVE  F(p) <=> Earned(p)
    <2>1. At(p) # {} <=> Here(p)
        BY Zenon DEF Here
    <2>2. (\E x \in At(p) : "w" \in x[1].ph[x[2]].flags) <=> Asks(p, "w")
        BY Zenon DEF Asks
    <2>3. (\E x \in At(p) : "x" \in x[1].ph[x[2]].flags) <=> Asks(p, "x")
        BY Zenon DEF Asks
    <2> QED
        BY <2>1, <2>2, <2>3, Zenon DEF Earned
<1> QED
    BY <1>1, <1>2, Zenon

\* No step but a refusal takes an image out of the space.
LEMMA PresentStays ==
    ASSUME ElfControl, ElfNext, ~Over
    PROVE  Present \subseteq Present'
<1>1. CASE Found
    <2>1. image = main /\ main' = main
        BY <1>1 DEF Found, ElfControl
    <2> QED
        BY <2>1, Zenon DEF Present
<1>2. CASE ~Found
    <2>1. main' = main /\ image' = image
        BY <1>2, ElfSteps, Zenon DEF Accepted, Skip, Mapped, Copied, setup_user_stack, Enter
    <2> QED
        BY <2>1, Zenon DEF Present
<1> QED
    BY <1>1, <1>2

\* Nor a segment.
LEMMA SegmentsStay ==
    ASSUME ElfControl, ElfNext, ~Over
    PROVE  Segments \subseteq Segments'
<1>1. Present \subseteq Present'
    BY PresentStays
<1>2. SUFFICES ASSUME NEW x \in Segments
               PROVE  x \in Segments'
    BY Zenon
<1>3. x \in Present \X (1 .. MaxPhnum) /\ x[2] \in Loads(x[1])
    BY Zenon DEF Segments
<1>4. x \in Present' \X (1 .. MaxPhnum)
    BY <1>1, <1>3
<1> QED
    BY <1>3, <1>4, Zenon DEF Segments

\* A segment that has just been mapped is one of the space's.
LEMMA SegIsPresent ==
    ASSUME ElfTypes, ElfControl, phase \in {"map", "copy"}, seg \in Loads(image)
    PROVE  <<image, seg>> \in Segments /\ elf_validate(image) /\ IsImage(image)
<1>1. elf_validate(image) /\ IsImage(image)
    BY DEF ElfControl, ElfTypes, Loading
<1>2. seg \in 1 .. MaxPhnum
    BY <1>1, LoadFacts, Zenon
<1>3. <<image, seg>> \in Present \X (1 .. MaxPhnum)
    BY <1>2 DEF Present
<1> QED
    BY <1>1, <1>3 DEF Segments

\* No step gives a page a permission that no segment in it asks for.
LEMMA LeastPrivilegeKept ==
    ASSUME ElfTypes, ElfControl, LeastPrivilege, [ElfNext]_vars
    PROVE  LeastPrivilege'
<1>0. \A p \in PageNos \ StackPages : Earned(p)
    BY PrivilegeByPage, Zenon
<1>1. SUFFICES \A p \in PageNos \ StackPages : Earned(p)'
    <2>1. (LeastPrivilege <=> \A p \in PageNos \ StackPages : Earned(p))'
        BY PrivilegeByPage, PTL
    <2> QED
        BY <2>1, Zenon DEF PageNos, StackPages
<1>2. CASE UNCHANGED vars
    <2>1. UNCHANGED <<nx, main, image, pte>>
        BY <1>2, Zenon DEF vars
    <2>2. Segments' = Segments
        BY <2>1, Zenon DEF Segments, Present
    <2> QED
        BY <1>0, <2>1, <2>2, Zenon DEF Earned, Here, Asks
<1>3. CASE Over
    <2>1. \A p \in PageNos : ~pte'[p].present
        BY <1>3 DEF Over, Refuse, Trample, Ends, Empty, Absent
    <2> QED
        BY <2>1, Zenon DEF Earned
<1>4. ASSUME ElfNext, ~Over, NEW p, pte'[p] = pte[p], nx' = nx, Earned(p)
      PROVE  Earned(p)'
    <2>1. Segments \subseteq Segments'
        BY <1>4, SegmentsStay, Zenon
    <2>2. Here(p) => Here(p)'
        BY <2>1, Zenon DEF Here
    <2>3. Asks(p, "w") => Asks(p, "w")'
        BY <2>1, Zenon DEF Asks
    <2>4. Asks(p, "x") => Asks(p, "x")'
        BY <2>1, Zenon DEF Asks
    <2> QED
        BY <1>4, <2>2, <2>3, <2>4, Zenon DEF Earned
<1>5. CASE ElfNext /\ ~Over /\ Mapped
    <2>1. /\ phase = "map" /\ seg \in Loads(image)
          /\ pte' = [p \in PageNos |-> IF p \in SegPages(image, seg) THEN Page(p) ELSE pte[p]]
          /\ UNCHANGED <<nx, main, image>>
        BY <1>5, Zenon DEF Mapped
    <2>2. Segments' = Segments
        BY <2>1, Zenon DEF Segments, Present
    <2>3. <<image, seg>> \in Segments
        BY <2>1, SegIsPresent
    <2> TAKE p \in PageNos \ StackPages
    <2>4. p \in PageNos /\ Earned(p)
        BY <1>0
    <2>5. CASE p \notin SegPages(image, seg)
        <3>1. pte'[p] = pte[p]
            BY <2>1, <2>4, <2>5, Zenon
        <3> QED
            BY <1>4, <1>5, <2>1, <2>4, <3>1, Zenon
    <2>6. CASE p \in SegPages(image, seg)
        <3> DEFINE x == <<image, seg>>
        <3>1. pte'[p] = Page(p)
            BY <2>1, <2>4, <2>6, Zenon
        <3>2. x \in Segments /\ x[1] = image /\ x[2] = seg
            BY <2>3
        <3> HIDE DEF x
        <3>3. Here(p)
            BY <2>6, <3>2, Zenon DEF Here
        <3>4. Page(p).write => Asks(p, "w")
            <4>1. "w" \in image.ph[seg].flags => Asks(p, "w")
                BY <2>6, <3>2, Zenon DEF Asks
            <4> QED
                BY <2>4, <4>1, PageGives, Zenon DEF Earned
        <3>5. nx /\ ~Page(p).nx => Asks(p, "x")
            <4>1. "x" \in image.ph[seg].flags => Asks(p, "x")
                BY <2>6, <3>2, Zenon DEF Asks
            <4> QED
                BY <2>4, <4>1, PageGives, Zenon DEF Earned
        <3>6. Here(p)' /\ (Asks(p, "w") => Asks(p, "w")') /\ (Asks(p, "x") => Asks(p, "x")')
            BY <2>2, <3>3, Zenon DEF Here, Asks
        <3> QED
            BY <2>1, <3>1, <3>4, <3>5, <3>6, Zenon DEF Earned
    <2> QED
        BY <2>5, <2>6
<1>6. CASE ElfNext /\ ~Over /\ setup_user_stack
    <2>1. /\ pte' = [p \in PageNos |-> IF p \in StackPages THEN StackPte ELSE pte[p]]
          /\ nx' = nx
        BY <1>6, Zenon DEF setup_user_stack, StackPte
    <2> TAKE p \in PageNos \ StackPages
    <2>2. pte'[p] = pte[p]
        BY <2>1, Zenon
    <2> QED
        BY <1>0, <1>4, <1>6, <2>1, <2>2, Zenon
<1>7. CASE ElfNext /\ ~Over /\ UNCHANGED <<nx, pte>>
    BY <1>0, <1>4, <1>7, Zenon
<1> QED
    <2>1. Accepted \/ Skip \/ Copied \/ Found \/ Enter => UNCHANGED <<nx, pte>>
        BY Zenon DEF Accepted, Skip, Copied, Found, Enter
    <2> QED
        BY <1>2, <1>3, <1>5, <1>6, <1>7, <2>1, ElfSteps, Zenon

-----------------------------------------------------------------------------
\* The segments that map_segment_pages has been through.
MapDone(img, i) ==
    \/ img # image
    \/ phase \in Loading \ {"map"}
    \/ phase = "map" /\ i < seg

Grants(p, flags) ==
    /\ p \in PageNos /\ pte[p].present
    /\ "w" \in flags => pte[p].write
    /\ "x" \in flags => ~pte[p].nx

SegmentMapped(img, i) ==
    /\ SegPages(img, i) \subseteq PageNos
    /\ \A p \in SegPages(img, i) : Grants(p, img.ph[i].flags)

SegmentsMapped ==
    phase \in Loading =>
        \A img \in Present : \A i \in Loads(img) : MapDone(img, i) => SegmentMapped(img, i)

StackBuilt == phase \in {"interp", "enter", "ready"} \/ (phase \in {"map", "copy"} /\ image # main)

StackMapped == StackBuilt => \A p \in StackPages : pte[p] = StackPte

\* A step that leaves the entries alone, or adds to them, keeps segments mapped.
LEMMA GrantsStay ==
    ASSUME NEW img, NEW i, SegmentMapped(img, i),
           \A p \in SegPages(img, i) :
               p \in PageNos /\ Grants(p, img.ph[i].flags) => Grants(p, img.ph[i].flags)'
    PROVE  SegmentMapped(img, i)'
BY Zenon DEF SegmentMapped

\* The loop over the headers is through with one more.
LEMMA AdvanceMapped ==
    ASSUME ElfTypes, ElfControl, phase \in {"map", "copy"}, NEW then, then \in Loading \ {"map"},
           NextSeg(then), main' = main, image' = image,
           NEW img \in Present, NEW i \in Loads(img), MapDone(img, i)'
    PROVE  MapDone(img, i) \/ (phase = "map" /\ img = image /\ i = seg)
<1>1. CASE img # image \/ phase = "copy"
    BY <1>1 DEF MapDone, Loading
<1>2. CASE img = image /\ phase = "map"
    <2>1. /\ \/ phase' = phase /\ seg' = seg + 1 /\ seg + 1 \in 1 .. Len(image.ph)
             \/ phase' = then /\ seg' = 1 /\ seg = Len(image.ph)
          /\ 1 \in 1 .. Len(image.ph)
        BY NextSegFacts, Zenon
    <2>2. i \in 1 .. Len(image.ph) /\ seg \in 1 .. Len(image.ph) /\ Len(image.ph) \in Nat
        BY <1>2 DEF Loads, ElfTypes, ElfControl, IsImage
    <2>3. i < seg \/ i = seg
        <3>1. CASE phase' = phase /\ seg' = seg + 1
            <4>1. i < seg'
                BY <1>2, <3>1 DEF MapDone, Loading
            <4> QED
                BY <2>2, <3>1, <4>1
        <3>2. CASE seg = Len(image.ph)
            BY <2>2, <3>2
        <3> QED
            BY <2>1, <3>1, <3>2
    <2> QED
        BY <1>2, <2>3 DEF MapDone
<1> QED
    BY <1>1, <1>2

\* Every segment that has been through map_segment_pages stays mapped with
\* the permissions it asks for: neither another segment nor the stack takes
\* them away.
LEMMA SegmentsMappedKept ==
    ASSUME ElfTypes, ElfControl, SegmentsMapped, [ElfNext]_vars
    PROVE  SegmentsMapped'
<1> DEFINE Done(img, i) == MapDone(img, i) => SegmentMapped(img, i)
<1>0. phase \in Loading => \A img \in Present : \A i \in Loads(img) : Done(img, i)
    BY Zenon DEF SegmentsMapped
<1>1. ASSUME NEW img, NEW i, pte' = pte, SegmentMapped(img, i)
      PROVE  SegmentMapped(img, i)'
    BY <1>1, Zenon DEF SegmentMapped, Grants
<1>2. CASE UNCHANGED vars
    <2>1. UNCHANGED <<main, image, phase, seg, pte>>
        BY <1>2, Zenon DEF vars
    <2>2. Present' = Present /\ \A img, i : MapDone(img, i)' <=> MapDone(img, i)
        BY <2>1, Zenon DEF Present, MapDone
    <2> QED
        BY <1>0, <1>1, <2>1, <2>2, Zenon DEF SegmentsMapped
<1>3. CASE Over
    <2>1. phase' \notin Loading
        BY <1>3 DEF Over, Refuse, Trample, Ends, Loading
    <2> QED
        BY <2>1, Zenon DEF SegmentsMapped
<1>4. CASE Accepted
    <2>1. phase = "validate" /\ phase' = "map" /\ seg' = 1 /\ UNCHANGED <<main, image>>
        BY <1>4, Zenon DEF Accepted
    <2>2. main = image
        BY <2>1 DEF ElfControl
    <2>3. SUFFICES ASSUME NEW img \in Present', NEW i \in Loads(img), MapDone(img, i)'
                   PROVE  FALSE
        BY Zenon DEF SegmentsMapped
    <2>4. img = image'
        BY <2>1, <2>2 DEF Present
    <2>5. i < 1
        BY <2>1, <2>3, <2>4 DEF MapDone, Loading
    <2>6. i \in 1 .. Len(img.ph)
        BY <2>1, <2>4 DEF Loads, ElfTypes, IsImage
    <2> QED
        BY <2>5, <2>6
<1>5. ASSUME phase \in {"map", "copy"}, NEW then \in Loading \ {"map"}, NextSeg(then),
             main' = main, image' = image, pte' = pte, phase = "copy" \/ seg \notin Loads(image)
      PROVE  SegmentsMapped'
    <2>1. SUFFICES ASSUME NEW img \in Present', NEW i \in Loads(img), MapDone(img, i)'
                   PROVE  SegmentMapped(img, i)'
        BY Zenon DEF SegmentsMapped
    <2>2. img \in Present
        BY <1>5, Zenon DEF Present
    <2>3. MapDone(img, i)
        BY <1>5, <2>1, <2>2, AdvanceMapped
    <2>4. phase \in Loading
        BY <1>5 DEF Loading
    <2> QED
        BY <1>0, <1>1, <1>5, <2>2, <2>3, <2>4, Zenon
<1>6. CASE Skip
    <2> DEFINE then == IF phase = "map" THEN "copy" ELSE IF image = main THEN "stack" ELSE "enter"
    <2>1. phase \in {"map", "copy"} /\ NextSeg(then) /\ main' = main /\ image' = image
          /\ pte' = pte /\ seg \notin Loads(image)
        BY <1>6, Zenon DEF Skip
    <2>2. then \in Loading \ {"map"}
        BY DEF Loading
    <2> QED
        BY <1>5, <2>1, <2>2
<1>7. CASE Copied
    <2> DEFINE then == IF image = main THEN "stack" ELSE "enter"
    <2>1. phase \in {"map", "copy"} /\ NextSeg(then) /\ main' = main /\ image' = image
          /\ pte' = pte /\ phase = "copy"
        BY <1>7, Zenon DEF Copied
    <2>2. then \in Loading \ {"map"}
        BY DEF Loading
    <2> QED
        BY <1>5, <2>1, <2>2
<1>8. CASE Mapped
    <2>1. /\ phase = "map" /\ seg \in Loads(image)
          /\ SegPages(image, seg) \subseteq PageNos
          /\ pte' = [p \in PageNos |-> IF p \in SegPages(image, seg) THEN Page(p) ELSE pte[p]]
          /\ NextSeg("copy") /\ main' = main /\ image' = image
        BY <1>8, Zenon DEF Mapped
    <2>2. SUFFICES ASSUME NEW img \in Present', NEW i \in Loads(img), MapDone(img, i)'
                   PROVE  SegmentMapped(img, i)'
        BY Zenon DEF SegmentsMapped
    <2>3. img \in Present /\ "copy" \in Loading \ {"map"} /\ phase \in Loading
        BY <2>1 DEF Present, Loading
    <2>4. MapDone(img, i) \/ (img = image /\ i = seg)
        BY <2>1, <2>2, <2>3, AdvanceMapped
    <2>5. ASSUME NEW p \in PageNos, NEW fl, Grants(p, fl)
          PROVE  Grants(p, fl)'
        <3>1. pte[p].present /\ ("w" \in fl => pte[p].write) /\ ("x" \in fl => ~pte[p].nx)
            BY <2>5, Zenon DEF Grants
        <3>2. CASE p \in SegPages(image, seg)
            <4>1. pte'[p] = Page(p)
                BY <2>1, <3>2, Zenon
            <4>2. Page(p).present /\ ("w" \in fl => Page(p).write) /\ ("x" \in fl => ~Page(p).nx)
                BY <3>1, PageGives, Zenon
            <4> QED
                BY <4>1, <4>2, Zenon DEF Grants, PageNos
        <3>3. CASE p \notin SegPages(image, seg)
            <4>1. pte'[p] = pte[p]
                BY <2>1, <3>3, Zenon
            <4> QED
                BY <3>1, <4>1, Zenon DEF Grants, PageNos
        <3> QED
            BY <3>2, <3>3
    <2>6. CASE MapDone(img, i)
        <3>1. SegmentMapped(img, i)
            BY <1>0, <2>3, <2>6, Zenon
        <3> QED
            BY <2>5, <3>1, GrantsStay, Zenon
    <2>7. CASE img = image /\ i = seg
        <3> DEFINE fl == img.ph[i].flags
        <3>1. \A p \in SegPages(img, i) : Grants(p, fl)'
            <4> TAKE p \in SegPages(img, i)
            <4>1. p \in PageNos /\ pte'[p] = Page(p)
                BY <2>1, <2>7, Zenon
            <4>2. Page(p).present /\ ("w" \in fl => Page(p).write) /\ ("x" \in fl => ~Page(p).nx)
                BY <2>7, <4>1, PageGives, Zenon
            <4> QED
                BY <4>1, <4>2, Zenon DEF Grants, PageNos
        <3> QED
            BY <2>1, <2>7, <3>1, Zenon DEF SegmentMapped, PageNos
    <2> QED
        BY <2>4, <2>6, <2>7
<1>9. CASE setup_user_stack
    <2>1. /\ pte' = [p \in PageNos |-> IF p \in StackPages THEN StackPte ELSE pte[p]]
          /\ main' = main /\ image' = image /\ phase = "stack"
        BY <1>9, Zenon DEF setup_user_stack, StackPte
    <2>2. SUFFICES ASSUME NEW img \in Present', NEW i \in Loads(img)
                   PROVE  SegmentMapped(img, i)'
        BY Zenon DEF SegmentsMapped
    <2>3. img \in Present /\ phase \in Loading
        BY <2>1 DEF Present, Loading
    <2>4. MapDone(img, i)
        BY <2>1 DEF MapDone, Loading
    <2>5. SegmentMapped(img, i)
        BY <1>0, <2>3, <2>4, Zenon
    <2>6. IsImage(img) /\ elf_validate(img)
        BY <2>3 DEF Present, ElfTypes, ElfControl
    <2>7. ASSUME NEW p \in SegPages(img, i), p \in PageNos, Grants(p, img.ph[i].flags)
          PROVE  Grants(p, img.ph[i].flags)'
        <3>1. p \notin StackPages
            BY <2>5, <2>6, SegPagesOffStack, Zenon DEF SegmentMapped
        <3>2. pte'[p] = pte[p]
            BY <2>1, <2>7, <3>1, Zenon
        <3> QED
            BY <2>7, <3>2, Zenon DEF Grants, PageNos
    <2> QED
        BY <2>5, <2>7, GrantsStay, Zenon
<1>10. CASE Found
    <2>1. /\ phase = "interp" /\ phase' = "map" /\ seg' = 1 /\ main' = main /\ pte' = pte
          /\ IsImage(image')
        BY <1>10, Zenon DEF Found
    <2>2. image = main /\ phase \in Loading
        BY <2>1 DEF ElfControl, Loading
    <2>3. SUFFICES ASSUME NEW img \in Present', NEW i \in Loads(img), MapDone(img, i)'
                   PROVE  SegmentMapped(img, i)'
        BY Zenon DEF SegmentsMapped
    <2>4. CASE img = image'
        <3>1. i < 1
            BY <2>1, <2>3, <2>4 DEF MapDone, Loading
        <3>2. i \in 1 .. Len(img.ph)
            BY <2>1, <2>4 DEF Loads, IsImage
        <3> QED
            BY <3>1, <3>2
    <2>5. CASE img = main
        <3>1. img \in Present /\ MapDone(img, i)
            BY <2>1, <2>5 DEF Present, MapDone, Loading
        <3> QED
            BY <1>0, <1>1, <2>1, <2>2, <3>1, Zenon
    <2> QED
        BY <2>1, <2>3, <2>4, <2>5 DEF Present
<1>11. CASE Enter
    <2>1. phase = "enter" /\ main' = main /\ image' = image /\ pte' = pte
        BY <1>11, Zenon DEF Enter
    <2>2. SUFFICES ASSUME NEW img \in Present', NEW i \in Loads(img)
                   PROVE  SegmentMapped(img, i)'
        BY Zenon DEF SegmentsMapped
    <2>3. img \in Present /\ phase \in Loading /\ MapDone(img, i)
        BY <2>1 DEF Present, Loading, MapDone
    <2> QED
        BY <1>0, <1>1, <2>1, <2>3, Zenon
<1> QED
    BY <1>2, <1>3, <1>4, <1>6, <1>7, <1>8, <1>9, <1>10, <1>11, ElfSteps, Zenon

\* Once built the stack keeps its pages; an interpreter's segments stay off it.
LEMMA StackMappedKept ==
    ASSUME ElfTypes, ElfControl, StackMapped, [ElfNext]_vars
    PROVE  StackMapped'
<1>0. StackBuilt => \A p \in StackPages : pte[p] = StackPte
    BY Zenon DEF StackMapped
<1>1. ASSUME nx' = nx, StackBuilt' => StackBuilt, \A p \in StackPages : pte'[p] = pte[p]
      PROVE  StackMapped'
    <2>1. StackPte' = StackPte /\ StackPages' = StackPages
        BY <1>1, Zenon DEF StackPte, StackPages
    <2> QED
        BY <1>0, <1>1, <2>1, Zenon DEF StackMapped
<1>2. CASE UNCHANGED vars
    <2>1. UNCHANGED <<nx, main, image, phase, pte>>
        BY <1>2, Zenon DEF vars
    <2>2. StackBuilt' => StackBuilt
        BY <2>1, Zenon DEF StackBuilt
    <2> QED
        BY <1>1, <2>1, <2>2, Zenon
<1>3. CASE Over \/ Accepted
    <2>1. ~StackBuilt'
        <3>1. CASE Over
            BY <3>1 DEF Over, Refuse, Trample, Ends, StackBuilt
        <3>2. CASE Accepted
            BY <3>2 DEF Accepted, StackBuilt, ElfControl
        <3> QED
            BY <1>3, <3>1, <3>2
    <2> QED
        BY <2>1, Zenon DEF StackMapped
<1>4. ASSUME phase \in {"map", "copy"}, NEW then, NextSeg(then), main' = main, image' = image,
             then \in {"copy", "stack"} \/ (then = "enter" /\ image # main)
      PROVE  StackBuilt' => StackBuilt
    <2>1. phase' = phase \/ phase' = then
        BY <1>4, Zenon DEF NextSeg
    <2> QED
        BY <1>4, <2>1 DEF StackBuilt
<1>5. CASE Skip
    <2> DEFINE then == IF phase = "map" THEN "copy" ELSE IF image = main THEN "stack" ELSE "enter"
    <2>1. phase \in {"map", "copy"} /\ NextSeg(then) /\ main' = main /\ image' = image
          /\ pte' = pte
        BY <1>5, Zenon DEF Skip
    <2>2. then \in {"copy", "stack"} \/ (then = "enter" /\ image # main)
        OBVIOUS
    <2>3. StackBuilt' => StackBuilt
        BY <1>4, <2>1, <2>2
    <2>4. nx' = nx
        BY <1>5, Zenon DEF Skip
    <2> QED
        BY <1>1, <2>1, <2>3, <2>4, Zenon
<1>6. CASE Copied
    <2> DEFINE then == IF image = main THEN "stack" ELSE "enter"
    <2>1. phase \in {"map", "copy"} /\ NextSeg(then) /\ main' = main /\ image' = image
          /\ pte' = pte
        BY <1>6, Zenon DEF Copied
    <2>2. then \in {"copy", "stack"} \/ (then = "enter" /\ image # main)
        OBVIOUS
    <2>3. StackBuilt' => StackBuilt
        BY <1>4, <2>1, <2>2
    <2>4. nx' = nx
        BY <1>6, Zenon DEF Copied
    <2> QED
        BY <1>1, <2>1, <2>3, <2>4, Zenon
<1>7. CASE Mapped
    <2>1. /\ phase = "map" /\ seg \in Loads(image)
          /\ SegPages(image, seg) \subseteq PageNos
          /\ pte' = [p \in PageNos |-> IF p \in SegPages(image, seg) THEN Page(p) ELSE pte[p]]
          /\ NextSeg("copy") /\ main' = main /\ image' = image
        BY <1>7, Zenon DEF Mapped
    <2>2. IsImage(image) /\ elf_validate(image)
        BY <2>1, SegIsPresent
    <2>3. \A p \in StackPages : pte'[p] = pte[p]
        BY <2>1, <2>2, SegPagesOffStack, StackPagesMapped, Zenon
    <2>4. StackBuilt' => StackBuilt
        BY <1>4, <2>1
    <2>5. nx' = nx
        BY <1>7, Zenon DEF Mapped
    <2> QED
        BY <1>1, <2>3, <2>4, <2>5, Zenon
<1>8. CASE setup_user_stack
    <2>1. /\ pte' = [p \in PageNos |-> IF p \in StackPages THEN StackPte ELSE pte[p]]
          /\ nx' = nx
        BY <1>8, Zenon DEF setup_user_stack, StackPte
    <2>2. StackPte' = StackPte /\ StackPages' = StackPages
        BY <2>1, Zenon DEF StackPte, StackPages
    <2> QED
        BY <2>1, <2>2, StackPagesMapped, Zenon DEF StackMapped
<1>9. CASE Found \/ Enter
    <2>1. nx' = nx /\ pte' = pte
        BY <1>9 DEF Found, Enter
    <2>2. StackBuilt
        BY <1>9, SMTT(30) DEF Found, Enter, StackBuilt
    <2> QED
        BY <1>1, <2>1, <2>2, Zenon
<1> QED
    BY <1>2, <1>3, <1>5, <1>6, <1>7, <1>8, <1>9, ElfSteps, Zenon

-----------------------------------------------------------------------------
EntryOf(img) == (img.entry + Base(img)) % Wrap

HeapOf(img) == ((elf_load_end(img) + PageSize - 1) \div PageSize) * PageSize

\* The registers and the heap, once they are set.
StartSet ==
    /\ start = [rip |-> start.rip, heap |-> start.heap,
                auxEntry |-> start.auxEntry, auxPhdr |-> start.auxPhdr]
    /\ StackBuilt => start.auxEntry = EntryOf(main)
    /\ phase = "ready" => start.rip = EntryOf(image) /\ start.heap = HeapOf(main)

\* What the process starts with is computed from the images in the space.
LEMMA StartSetKept ==
    ASSUME ElfTypes, ElfControl, StartSet, [ElfNext]_vars
    PROVE  StartSet'
<1>1. CASE UNCHANGED vars
    BY <1>1, Zenon DEF vars, StartSet, StackBuilt
<1>2. CASE Over
    BY <1>2 DEF Over, Refuse, Trample, Ends, Unset, StartSet, StackBuilt
<1>3. ASSUME start' = start, main' = main, StackBuilt' => StackBuilt, phase' # "ready"
      PROVE  StartSet'
    BY <1>3, Zenon DEF StartSet
<1>4. CASE Accepted
    BY <1>3, <1>4 DEF Accepted, ElfControl, StackBuilt
<1>5. CASE Found
    BY <1>3, <1>5 DEF Found, StackBuilt
<1>6. ASSUME phase \in {"map", "copy"}, NEW then, NextSeg(then), main' = main, image' = image,
             then \in {"copy", "stack"} \/ (then = "enter" /\ image # main), start' = start
      PROVE  StartSet'
    <2>1. phase' = phase \/ phase' = then
        BY <1>6, Zenon DEF NextSeg
    <2> QED
        BY <1>3, <1>6, <2>1 DEF StackBuilt
<1>7. CASE Skip
    <2> DEFINE then == IF phase = "map" THEN "copy" ELSE IF image = main THEN "stack" ELSE "enter"
    <2>1. phase \in {"map", "copy"} /\ NextSeg(then) /\ main' = main /\ image' = image
          /\ start' = start
        BY <1>7, Zenon DEF Skip
    <2>2. then \in {"copy", "stack"} \/ (then = "enter" /\ image # main)
        OBVIOUS
    <2> QED
        BY <1>6, <2>1, <2>2
<1>8. CASE Copied
    <2> DEFINE then == IF image = main THEN "stack" ELSE "enter"
    <2>1. phase \in {"map", "copy"} /\ NextSeg(then) /\ main' = main /\ image' = image
          /\ start' = start
        BY <1>8, Zenon DEF Copied
    <2>2. then \in {"copy", "stack"} \/ (then = "enter" /\ image # main)
        OBVIOUS
    <2> QED
        BY <1>6, <2>1, <2>2
<1>9. CASE Mapped
    BY <1>6, <1>9 DEF Mapped
<1>10. CASE setup_user_stack
    <2>1. start' = [rip |-> EntryOf(main), heap |-> 0, auxEntry |-> EntryOf(main),
                    auxPhdr |-> (main.phoff + Base(main)) % Wrap]
        BY <1>10, Zenon DEF setup_user_stack, Unset, EntryOf
    <2>2. phase' # "ready" /\ main' = main
        BY <1>10 DEF setup_user_stack
    <2> QED
        BY <2>1, <2>2 DEF StartSet
<1>11. CASE Enter
    <2>1. /\ start' = [start EXCEPT !.rip = EntryOf(image), !.heap = HeapOf(main)]
          /\ main' = main /\ image' = image /\ phase = "enter"
        BY <1>11, Zenon DEF Enter, EntryOf, HeapOf
    <2>2. start.auxEntry = EntryOf(main)
        BY <2>1 DEF StartSet, StackBuilt
    <2>3. start' = [rip |-> EntryOf(image), heap |-> HeapOf(main),
                    auxEntry |-> start.auxEntry, auxPhdr |-> start.auxPhdr]
        BY <2>1, Zenon DEF StartSet
    <2>4. EntryOf(main)' = EntryOf(main) /\ EntryOf(image)' = EntryOf(image)
          /\ HeapOf(main)' = HeapOf(main)
        BY <2>1, Zenon
    <2> QED
        BY <2>2, <2>3, <2>4 DEF StartSet
<1> QED
    BY <1>1, <1>2, <1>4, <1>5, <1>7, <1>8, <1>9, <1>10, <1>11, ElfSteps, Zenon

\* A byte of a segment lies below the user limit, in one of the segment's pages.
LEMMA SpanPaged ==
    ASSUME NEW img, IsImage(img), elf_validate(img), NEW i \in Loads(img), ~Wraps(img),
           NEW a \in Span(img, i)
    PROVE  /\ a \in Addresses /\ a \in Nat
           /\ Vaddr(img, i) <= a /\ a < Vaddr(img, i) + img.ph[i].memsz
           /\ PageOf(a) \in SegPages(img, i)
<1> DEFINE v == Vaddr(img, i)
           m == img.ph[i].memsz
           last == v + m - 1
<1>1. /\ v \in Nat /\ m \in Nat /\ m # 0 /\ UserMax \in Nat
    <2>1. v \in Word /\ m \in Nat /\ m # 0
        BY LoadFacts, Zenon
    <2>2. Wrap \in Nat /\ UserMax \in Nat
        BY ElfAssumption
    <2> QED
        BY <2>1, <2>2 DEF Word
<1>2. /\ v + m <= UserMax /\ (v + m - 1) % Wrap = v + m - 1
    BY LoadEnds, Zenon
<1>3. SegPages(img, i) = PageOf(v) .. PageOf(last)
    BY <1>2, Zenon DEF SegPages
<1>4. a \in v .. v + m - 1
    BY DEF Span
<1> HIDE DEF v, m
<1>5. a \in Nat /\ last \in Nat /\ v <= a /\ a <= last /\ a < v + m /\ a < UserMax
    BY <1>1, <1>2, <1>4
<1> HIDE DEF last
<1>6. /\ PageOf(v) \in Nat /\ PageOf(a) \in Nat /\ PageOf(last) \in Nat
      /\ PageOf(v) <= PageOf(a) /\ PageOf(a) <= PageOf(last)
    BY <1>1, <1>5, PageBounds, PageMonotone
<1>7. PageOf(a) \in SegPages(img, i)
    BY <1>3, <1>6
<1>8. a \in Addresses
    BY <1>1, <1>5 DEF Addresses
<1> QED
    BY <1>5, <1>7, <1>8 DEF v, m

\* The entry point of a validated image is a byte of executable code.
LEMMA EntryInCode ==
    ASSUME NEW img, IsImage(img), elf_validate(img), ~Wraps(img)
    PROVE  \E i \in Loads(img) : EntryOf(img) \in Span(img, i) /\ "x" \in img.ph[i].flags
<1>1. PICK i \in Loads(img) : EntryIn(img, i)
    BY Zenon DEF elf_validate
<1> DEFINE w == img.ph[i].vaddr
           m == img.ph[i].memsz
           b == Base(img)
           e == img.entry
<1>2. /\ w \in Nat /\ m \in Nat /\ b \in Nat /\ Vaddr(img, i) = w + b
    BY LoadFacts, Zenon
<1>3. (w + m) % Wrap = w + m /\ Vaddr(img, i) + m < Wrap
    BY LoadEnds, Zenon
<1>4. "x" \in img.ph[i].flags /\ w <= e /\ e < w + m
    BY <1>1, <1>3, Zenon DEF EntryIn
<1>5. e \in Nat /\ Wrap \in Nat
    BY ElfAssumption DEF IsImage, Word
<1>6. EntryOf(img) = (e + b) % Wrap /\ Span(img, i) = Vaddr(img, i) .. Vaddr(img, i) + m - 1
    BY Zenon DEF EntryOf, Span
<1> HIDE DEF w, m, b, e
<1>7. e + b \in Nat /\ e + b < Wrap /\ e + b < 2 * Wrap
    BY <1>2, <1>3, <1>4, <1>5
<1>8. (e + b) % Wrap = e + b
    <2>1. (e + b) % Wrap = IF e + b < Wrap THEN e + b ELSE (e + b) - Wrap
        BY <1>7, WordSum
    <2> QED
        BY <1>7, <2>1
<1>9. e + b \in (w + b) .. (w + b) + m - 1
    BY <1>2, <1>4, <1>5
<1> QED
    BY <1>2, <1>4, <1>6, <1>8, <1>9

\* The heap starts above every segment.
LEMMA HeapAbove ==
    ASSUME NEW img, IsImage(img), elf_validate(img), ~Wraps(img), NEW i \in Loads(img)
    PROVE  Vaddr(img, i) + img.ph[i].memsz <= HeapOf(img)
<1> DEFINE ends == {Vend(img, j) : j \in Loads(img)}
           T == {UserMax - e : e \in ends}
           top == elf_load_end(img)
<1>1. UserMax \in Nat
    BY ElfAssumption, SMTT(30)
<1>2. \A j \in Loads(img) : Vend(img, j) \in Nat /\ Vend(img, j) <= UserMax
                            /\ Vend(img, j) = Vaddr(img, j) + img.ph[j].memsz
    BY LoadFacts, LoadEnds DEF Word
<1>3. \A e \in ends : e \in Nat /\ e <= UserMax
    BY <1>2, Zenon
<1>4. Vend(img, i) \in ends
    BY Zenon
<1>5. top = CHOOSE e \in ends : \A d \in ends : d <= e
    BY Zenon DEF elf_load_end
<1> HIDE DEF ends, top
<1>6. T \in SUBSET Nat /\ T # {}
    BY <1>1, <1>3, <1>4
<1>7. PICK t \in T : \A u \in T : t <= u
    BY <1>6, LeastNat, Zenon
<1>8. PICK e \in ends : t = UserMax - e
    BY <1>7, Zenon
<1>9. \A d \in ends : d <= e
    <2> TAKE d \in ends
    <2>1. UserMax - e <= UserMax - d
        BY <1>7, <1>8, Zenon
    <2> QED
        BY <1>1, <1>3, <2>1
<1>10. top \in ends /\ \A d \in ends : d <= top
    BY <1>5, <1>8, <1>9, Zenon
<1>11. top \in Nat /\ Vend(img, i) <= top
    BY <1>3, <1>4, <1>10
<1>12. top <= HeapOf(img)
    BY <1>11, RoundedUp DEF HeapOf, top
<1>13. HeapOf(img) \in Int
    <2>1. HeapOf(img) = ((top + PageSize - 1) \div PageSize) * PageSize
        BY DEF HeapOf, top
    <2> QED
        BY <1>11, <2>1, ElfAssumption
<1> QED
    BY <1>2, <1>11, <1>12, <1>13

\* The mapped entries and what the registers hold put the start in code.
LEMMA StartIsInCode ==
    ASSUME ElfTypes, ElfControl, SegmentsMapped, StartSet
    PROVE  StartsInCode
<1>1. SUFFICES ASSUME phase = "ready", NoneWraps
               PROVE  /\ \A target \in {<<image, start.rip>>, <<main, start.auxEntry>>} :
                            /\ \E i \in Loads(target[1]) :
                                  target[2] \in Span(target[1], i) /\ "x" \in target[1].ph[i].flags
                            /\ pte[PageOf(target[2])].present /\ ~pte[PageOf(target[2])].nx
                      /\ \A i \in Loads(main) : Vaddr(main, i) + main.ph[i].memsz <= start.heap
    BY Zenon DEF StartsInCode
<1>2. /\ IsImage(main) /\ elf_validate(main) /\ ~Wraps(main)
      /\ IsImage(image) /\ elf_validate(image) /\ ~Wraps(image)
      /\ phase \in Loading
    BY <1>1 DEF ElfTypes, ElfControl, Loading, NoneWraps, Present
<1>3. /\ start.rip = EntryOf(image) /\ start.auxEntry = EntryOf(main)
      /\ start.heap = HeapOf(main)
    BY <1>1 DEF StartSet, StackBuilt
<1>4. ASSUME NEW img \in Present
      PROVE  /\ \E i \in Loads(img) : EntryOf(img) \in Span(img, i) /\ "x" \in img.ph[i].flags
             /\ pte[PageOf(EntryOf(img))].present /\ ~pte[PageOf(EntryOf(img))].nx
    <2>1. IsImage(img) /\ elf_validate(img) /\ ~Wraps(img)
        BY <1>2, <1>4 DEF Present
    <2>2. PICK i \in Loads(img) : EntryOf(img) \in Span(img, i) /\ "x" \in img.ph[i].flags
        BY <2>1, EntryInCode, Zenon
    <2>3. PageOf(EntryOf(img)) \in SegPages(img, i)
        BY <2>1, <2>2, SpanPaged, Zenon
    <2>4. MapDone(img, i)
        BY <1>1 DEF MapDone, Loading
    <2>5. Grants(PageOf(EntryOf(img)), img.ph[i].flags)
        BY <1>2, <2>3, <2>4, Zenon DEF SegmentsMapped, SegmentMapped
    <2> QED
        BY <2>2, <2>5, Zenon DEF Grants
<1>5. \A i \in Loads(main) : Vaddr(main, i) + main.ph[i].memsz <= start.heap
    BY <1>2, <1>3, HeapAbove, Zenon
<1>6. ASSUME NEW target \in {<<image, start.rip>>, <<main, start.auxEntry>>}
      PROVE  target[1] \in Present /\ target[2] = EntryOf(target[1])
    BY <1>3, <1>6 DEF Present
<1> QED
    BY <1>4, <1>5, <1>6, Zenon

-----------------------------------------------------------------------------
\* The stack's pages are those of its addresses.
LEMMA StackPageOf ==
    ASSUME NEW a \in Nat
    PROVE  PageOf(a) \in StackPages <=> (StackTop - StackSize <= a /\ a < StackTop)
<1> DEFINE lo == StackTop - StackSize
<1>1. /\ lo \in Nat /\ StackTop \in Nat /\ lo % PageSize = 0 /\ StackTop % PageSize = 0
    BY StackAligned
<1>2. PageOf(lo) \in Nat /\ PageOf(StackTop) \in Nat /\ PageOf(a) \in Nat
    BY <1>1, PageBounds
<1>3. PageOf(a) \in StackPages <=> (PageOf(lo) <= PageOf(a) /\ PageOf(a) < PageOf(StackTop))
    BY <1>2 DEF StackPages
<1> HIDE DEF lo
<1>4. CASE a < lo
    <2>1. PageOf(a) < PageOf(lo)
        BY <1>1, <1>4, PageBelow
    <2> QED
        BY <1>1, <1>2, <1>3, <1>4, <2>1 DEF lo
<1>5. CASE StackTop <= a
    <2>1. PageOf(StackTop) <= PageOf(a)
        BY <1>1, <1>5, PageMonotone
    <2> QED
        BY <1>1, <1>2, <1>3, <1>5, <2>1 DEF lo
<1>6. CASE lo <= a /\ a < StackTop
    <2>1. PageOf(lo) <= PageOf(a) /\ PageOf(a) < PageOf(StackTop)
        BY <1>1, <1>6, PageMonotone, PageBelow
    <2> QED
        BY <1>3, <1>6, <2>1 DEF lo
<1> QED
    BY <1>1, <1>4, <1>5, <1>6

\* The frame that setup_user_stack writes.
InFrame(a) == a >= StackTop - FrameSize /\ a < StackTop

\* No byte of a segment is one of the stack's.
LEMMA SpanOffStack ==
    ASSUME NEW img, IsImage(img), elf_validate(img), NEW i \in Loads(img), ~Wraps(img),
           NEW a \in Span(img, i)
    PROVE  PageOf(a) \notin StackPages /\ ~InFrame(a)
<1> DEFINE v == Vaddr(img, i)
           m == img.ph[i].memsz
<1>1. /\ a \in Nat /\ v <= a /\ a < v + m
    BY SpanPaged, Zenon
<1>2. v \in Nat /\ m \in Nat
    <2>1. v \in Word /\ m \in Nat /\ Wrap \in Nat
        BY LoadFacts, ElfAssumption, Zenon
    <2> QED
        BY <2>1 DEF Word
<1>3. ~(v < StackTop /\ v + m > StackTop - StackSize)
    <2>1. ClearOfStack(img, i)
        BY LoadFacts, Zenon DEF SegmentOK
    <2>2. Vend(img, i) = v + m
        BY LoadEnds, Zenon
    <2> QED
        BY <2>1, <2>2, Zenon DEF ClearOfStack
<1> HIDE DEF v, m
<1>4. /\ StackTop \in Nat /\ StackSize \in Nat /\ FrameSize \in Nat /\ PageSize \in Nat
      /\ FrameSize <= PageSize /\ PageSize <= StackSize
    BY ElfAssumption
<1>5. ~(StackTop - StackSize <= a /\ a < StackTop)
    BY <1>1, <1>2, <1>3, <1>4
<1>6. ~InFrame(a)
    BY <1>1, <1>4, <1>5 DEF InFrame
<1> QED
    BY <1>1, <1>5, <1>6, StackPageOf

\* Two segments of one image share no byte.
LEMMA OneImageApart ==
    ASSUME NEW img, IsImage(img), elf_validate(img), ~Wraps(img),
           NEW i \in Loads(img), NEW j \in Loads(img), i # j,
           NEW a \in Span(img, i), a \in Span(img, j)
    PROVE  FALSE
<1>1. i \in Int /\ j \in Int
    BY LoadFacts
<1>2. Disjoint(img, i, j) \/ Disjoint(img, j, i)
    <2>1. SegmentOK(img, i) /\ SegmentOK(img, j)
        BY LoadFacts, Zenon
    <2>2. CASE j < i
        BY <2>1, <2>2, Zenon DEF SegmentOK
    <2>3. CASE i < j
        BY <2>1, <2>3, Zenon DEF SegmentOK
    <2> QED
        BY <1>1, <2>2, <2>3
<1> DEFINE v == Vaddr(img, i)
           m == img.ph[i].memsz
           w == Vaddr(img, j)
           n == img.ph[j].memsz
<1>3. /\ a \in Nat /\ v <= a /\ a < v + m /\ w <= a /\ a < w + n
    BY SpanPaged, Zenon
<1>4. Vend(img, i) = v + m /\ Vend(img, j) = w + n
    BY LoadEnds, Zenon
<1>5. ~(v < w + n /\ v + m > w)
    BY <1>2, <1>4 DEF Disjoint
<1>6. v \in Nat /\ m \in Nat /\ w \in Nat /\ n \in Nat
    <2>1. v \in Word /\ m \in Nat /\ w \in Word /\ n \in Nat /\ Wrap \in Nat
        BY LoadFacts, ElfAssumption, Zenon
    <2> QED
        BY <2>1 DEF Word
<1> HIDE DEF v, m, w, n
<1> QED
    BY <1>3, <1>5, <1>6

\* Two segments of images that are linked apart share no byte.
LEMMA SpansApart ==
    ASSUME ElfTypes, ElfControl, phase \in Loading, Apart,
           NEW img \in Present, NEW i \in Loads(img), NEW jmg \in Present, NEW j \in Loads(jmg),
           img # jmg \/ i # j, NEW a \in Span(img, i)
    PROVE  a \notin Span(jmg, j)
<1>1. /\ IsImage(img) /\ elf_validate(img) /\ ~Wraps(img)
      /\ IsImage(jmg) /\ elf_validate(jmg) /\ ~Wraps(jmg)
    BY DEF ElfTypes, ElfControl, Apart, NoneWraps, Present
<1>2. CASE img = jmg
    BY <1>1, <1>2, OneImageApart, Zenon
<1>3. CASE img # jmg
    <2> DEFINE x == <<img, i>>
               y == <<jmg, j>>
    <2>1. i \in 1 .. MaxPhnum /\ j \in 1 .. MaxPhnum
        BY <1>1, LoadFacts, Zenon
    <2>2. x \in Segments /\ y \in Segments
        BY <2>1 DEF Segments
    <2>3. x[1] = img /\ x[2] = i /\ y[1] = jmg /\ y[2] = j
        OBVIOUS
    <2> HIDE DEF x, y
    <2>4. Span(img, i) \cap Span(jmg, j) = {}
        BY <1>3, <2>2, <2>3, Zenon DEF Apart
    <2> QED
        BY <2>4, Zenon
<1> QED
    BY <1>2, <1>3

\* The bytes that copy_segment_data writes are the segment's first ones.
LEMMA IntoSpan ==
    ASSUME NEW img, IsImage(img), elf_validate(img), NEW i \in Loads(img), ~Wraps(img), NEW a
    PROVE  a \in Into(img, i) <=> (a \in Span(img, i) /\ a - Vaddr(img, i) < img.ph[i].filesz)
<1> DEFINE v == Vaddr(img, i)
           m == img.ph[i].memsz
           f == img.ph[i].filesz
<1>1. v \in Nat /\ m \in Nat /\ f \in Nat /\ f <= m /\ Wrap \in Nat
    <2>1. v \in Word /\ m \in Nat /\ f \in Nat /\ f <= m /\ Wrap \in Nat
        BY LoadFacts, ElfAssumption, Zenon
    <2> QED
        BY <2>1 DEF Word
<1>2. v + m < Wrap
    BY LoadEnds, Zenon
<1>3. /\ a \in Into(img, i) <=> \E k \in 0 .. f - 1 : a = (v + k) % Wrap
      /\ Span(img, i) = v .. v + m - 1
    BY Zenon DEF Into, Span
<1> HIDE DEF v, m, f
<1>4. ASSUME NEW k \in 0 .. f - 1
      PROVE  (v + k) % Wrap = v + k
    <2>1. v + k \in Nat /\ v + k < Wrap /\ v + k < 2 * Wrap
        BY <1>1, <1>2
    <2>2. (v + k) % Wrap = IF v + k < Wrap THEN v + k ELSE (v + k) - Wrap
        BY <2>1, WordSum
    <2> QED
        BY <2>1, <2>2
<1>5. a \in Into(img, i) <=> \E k \in 0 .. f - 1 : a = v + k
    BY <1>3, <1>4
<1>6. (\E k \in 0 .. f - 1 : a = v + k) <=> (a \in v .. v + m - 1 /\ a - v < f)
    <2>1. ASSUME NEW k \in 0 .. f - 1, a = v + k
          PROVE  a \in v .. v + m - 1 /\ a - v < f
        BY <1>1, <2>1
    <2>2. ASSUME a \in v .. v + m - 1, a - v < f
          PROVE  \E k \in 0 .. f - 1 : a = v + k
        <3>1. a - v \in 0 .. f - 1 /\ a = v + (a - v)
            BY <1>1, <2>2
        <3> QED
            BY <3>1
    <2> QED
        BY <2>1, <2>2
<1> QED
    BY <1>3, <1>5, <1>6 DEF v, m, f

-----------------------------------------------------------------------------
\* The segments that copy_segment_data has been through.
CopyDone(img, i) ==
    \/ img # image
    \/ phase \in {"stack", "interp", "enter", "ready"}
    \/ phase = "copy" /\ i < seg

\* The byte of the file that belongs at an address of a segment.
FileByte(img, i, a) ==
    IF a - Vaddr(img, i) < img.ph[i].filesz
    THEN <<img.id, img.ph[i].offset + (a - Vaddr(img, i))>> ELSE Zero

Expected(img, i, a) == IF CopyDone(img, i) THEN FileByte(img, i, a) ELSE Zero

StackByte(a) == IF a >= StackTop - FrameSize THEN <<"frame", a>> ELSE Zero

\* Where a byte that is not zero can lie.
Accounted(a) ==
    \/ byte[a] = Zero
    \/ InFrame(a)
    \/ \E img \in Present : \E i \in Loads(img) : a \in Span(img, i)

SegmentsHold ==
    \A img \in Present : \A i \in Loads(img) : \A a \in Span(img, i) :
        byte[a] = Expected(img, i, a)

StackHolds == \A a \in StackTop - StackSize .. StackTop - 1 : byte[a] = StackByte(a)

BytesLoaded ==
    phase \in Loading /\ Apart =>
        /\ SegmentsHold
        /\ \A a \in Addresses : Accounted(a)
        /\ StackBuilt => StackHolds

\* The loop over the headers is through with one more.
LEMMA AdvanceCopied ==
    ASSUME ElfTypes, ElfControl, phase \in {"map", "copy"}, NEW then,
           IF phase = "map" THEN then = "copy" ELSE then \in {"stack", "enter"},
           NextSeg(then), main' = main, image' = image,
           NEW img \in Present, NEW i \in Loads(img)
    PROVE  CopyDone(img, i)' <=> CopyDone(img, i) \/ (phase = "copy" /\ img = image /\ i = seg)
<1>1. CASE img # image
    BY <1>1 DEF CopyDone
<1>2. CASE img = image
    <2>1. /\ \/ phase' = phase /\ seg' = seg + 1 /\ seg + 1 \in 1 .. Len(image.ph)
             \/ phase' = then /\ seg' = 1 /\ seg = Len(image.ph)
          /\ 1 \in 1 .. Len(image.ph)
        BY NextSegFacts, Zenon
    <2>2. i \in 1 .. Len(image.ph) /\ seg \in 1 .. Len(image.ph) /\ Len(image.ph) \in Nat
        BY <1>2 DEF Loads, ElfTypes, ElfControl, IsImage
    <2>3. /\ CopyDone(img, i) <=> phase = "copy" /\ i < seg
          /\ CopyDone(img, i)' <=> phase' \in {"stack", "interp", "enter", "ready"}
                                     \/ (phase' = "copy" /\ i < seg')
        BY <1>2 DEF CopyDone
    <2>4. CASE phase = "map"
        <3>1. ~CopyDone(img, i)
            BY <2>3, <2>4
        <3>2. phase' = "map" \/ (phase' = "copy" /\ seg' = 1)
            BY <2>1, <2>4
        <3>3. ~(i < 1)
            BY <2>2
        <3>4. ~CopyDone(img, i)'
            BY <2>3, <3>2, <3>3
        <3> QED
            BY <2>4, <3>1, <3>4
    <2>5. CASE phase = "copy"
        <3>1. CASE phase' = phase /\ seg' = seg + 1
            <4>1. i < seg + 1 <=> i < seg \/ i = seg
                BY <2>2
            <4> QED
                BY <1>2, <2>3, <2>5, <3>1, <4>1
        <3>2. CASE phase' = then /\ seg = Len(image.ph)
            <4>1. i < seg \/ i = seg
                BY <2>2, <3>2
            <4>2. CopyDone(img, i)'
                BY <2>3, <2>5, <3>2
            <4> QED
                BY <1>2, <2>3, <2>5, <4>1, <4>2
        <3> QED
            BY <2>1, <3>1, <3>2
    <2> QED
        BY <2>4, <2>5
<1> QED
    BY <1>1, <1>2

\* Images that are linked apart were so before the interpreter came.
LEMMA ApartBefore ==
    ASSUME ElfControl, ElfNext, ~Over, Apart'
    PROVE  Apart
<1>1. Present \subseteq Present'
    BY PresentStays
<1>2. Segments \subseteq Segments'
    BY SegmentsStay, Zenon
<1>3. NoneWraps
    BY <1>1, Zenon DEF Apart, NoneWraps
<1>4. \A x \in Segments', y \in Segments' :
          x[1] # y[1] => Span(x[1], x[2]) \cap Span(y[1], y[2]) = {}
    BY Zenon DEF Apart
<1> QED
    BY <1>2, <1>3, <1>4, Zenon DEF Apart

\* Where neither bytes nor what is expected of them change, what is loaded stays.
LEMMA BytesStay ==
    ASSUME SegmentsHold, \A a \in Addresses : Accounted(a), byte' = byte, Present' = Present,
           \A img \in Present : \A i \in Loads(img) : CopyDone(img, i)' <=> CopyDone(img, i)
    PROVE  SegmentsHold' /\ \A a \in Addresses : Accounted(a)'
<1>1. \A img \in Present : \A i \in Loads(img) : \A a \in Span(img, i) :
          Expected(img, i, a)' = Expected(img, i, a)
    BY Zenon DEF Expected
<1>2. SegmentsHold'
    BY <1>1, Zenon DEF SegmentsHold
<1> QED
    BY <1>2, Zenon DEF Accounted

\* copy_segment_data fills its segment and touches no other, nor the stack.
LEMMA CopyLoads ==
    ASSUME ElfTypes, ElfControl, Copied, Apart, BytesLoaded
    PROVE  /\ SegmentsHold' /\ \A a \in Addresses : Accounted(a)'
           /\ StackBuilt' => StackHolds'
<1>1. /\ phase = "copy" /\ seg \in Loads(image)
      /\ byte' = [a \in Addresses |->
            IF a \in Into(image, seg)
            THEN <<image.id, image.ph[seg].offset + (a - Vaddr(image, seg))>> ELSE byte[a]]
      /\ NextSeg(IF image = main THEN "stack" ELSE "enter")
      /\ main' = main /\ image' = image
    BY Zenon DEF Copied
<1>2. /\ SegmentsHold /\ (\A a \in Addresses : Accounted(a)) /\ (StackBuilt => StackHolds)
      /\ phase \in Loading
    BY <1>1 DEF BytesLoaded, Loading
<1>3. image \in Present /\ Present' = Present
    BY <1>1, Zenon DEF Present
<1>4. /\ IsImage(main) /\ elf_validate(main) /\ ~Wraps(main)
      /\ IsImage(image) /\ elf_validate(image) /\ ~Wraps(image)
    BY <1>2 DEF ElfTypes, ElfControl, Apart, NoneWraps, Present
<1>5. \A a : a \in Into(image, seg) =>
                a \in Span(image, seg) /\ a - Vaddr(image, seg) < image.ph[seg].filesz
    BY <1>1, <1>4, IntoSpan, Zenon
<1>6. \A a : a \in Span(image, seg) /\ a - Vaddr(image, seg) < image.ph[seg].filesz =>
                a \in Into(image, seg)
    BY <1>1, <1>4, IntoSpan, Zenon
<1>7. ASSUME NEW img \in Present, NEW i \in Loads(img)
      PROVE  CopyDone(img, i)' <=> CopyDone(img, i) \/ (img = image /\ i = seg)
    <2> DEFINE then == IF image = main THEN "stack" ELSE "enter"
    <2>1. then \in {"stack", "enter"} /\ NextSeg(then)
        BY <1>1
    <2> HIDE DEF then
    <2> QED
        BY <1>1, <1>7, <2>1, AdvanceCopied
<1>8. ASSUME NEW img \in Present, NEW i \in Loads(img), NEW a \in Span(img, i)
      PROVE  byte'[a] = Expected(img, i, a)'
    <2>1. IsImage(img) /\ elf_validate(img) /\ ~Wraps(img)
        BY <1>4 DEF Present
    <2>2. a \in Addresses /\ byte[a] = Expected(img, i, a)
        BY <1>2, <1>8, <2>1, SpanPaged, Zenon DEF SegmentsHold
    <2>3. CASE img = image /\ i = seg
        <3>1. CopyDone(img, i)' /\ ~CopyDone(img, i)
            <4>1. CopyDone(img, i)'
                BY <1>7, <1>8, <2>3, ZenonT(30)
            <4>2. seg \in 1 .. MaxPhnum
                BY <1>1, <1>4, LoadFacts, ZenonT(30)
            <4>3. ~(seg < seg)
                BY ONLY <4>2, SMTT(30)
            <4> QED
                BY <1>1, <2>3, <4>1, <4>3 DEF CopyDone
        <3>2. Expected(img, i, a)' = FileByte(img, i, a) /\ byte[a] = Zero
            BY <2>2, <3>1, Zenon DEF Expected
        <3>3. CASE a - Vaddr(img, i) < img.ph[i].filesz
            <4>1. a \in Into(image, seg)
                BY <1>6, <1>8, <2>3, <3>3, Zenon
            <4>2. byte'[a] = <<img.id, img.ph[i].offset + (a - Vaddr(img, i))>>
                BY <1>1, <2>2, <2>3, <4>1, Zenon
            <4> QED
                BY <3>2, <3>3, <4>2, Zenon DEF FileByte
        <3>4. CASE ~(a - Vaddr(img, i) < img.ph[i].filesz)
            <4>1. a \notin Into(image, seg)
                BY <1>5, <2>3, <3>4, Zenon
            <4>2. byte'[a] = byte[a]
                BY <1>1, <2>2, <4>1, Zenon
            <4> QED
                BY <3>2, <3>4, <4>2, Zenon DEF FileByte
        <3> QED
            BY <3>3, <3>4
    <2>4. CASE ~(img = image /\ i = seg)
        <3>1. a \notin Span(image, seg)
            BY <1>1, <1>2, <1>3, <1>8, <2>4, SpansApart, Zenon
        <3>2. byte'[a] = byte[a]
            BY <1>1, <1>5, <2>2, <3>1, Zenon
        <3>3. Expected(img, i, a)' = Expected(img, i, a)
            BY <1>7, <1>8, <2>4, Zenon DEF Expected
        <3> QED
            BY <2>2, <3>2, <3>3, Zenon
    <2> QED
        BY <2>3, <2>4
<1>9. SegmentsHold'
    BY <1>3, <1>8, Zenon DEF SegmentsHold
<1>10. ASSUME NEW a \in Addresses
       PROVE  Accounted(a)'
    <2>1. CASE a \in Into(image, seg)
        BY <1>1, <1>3, <1>5, <2>1, Zenon DEF Accounted
    <2>2. CASE a \notin Into(image, seg)
        <3>1. byte'[a] = byte[a] /\ Accounted(a)
            BY <1>1, <1>2, <1>10, <2>2, Zenon
        <3> QED
            BY <1>3, <3>1, Zenon DEF Accounted
    <2> QED
        BY <2>1, <2>2
<1>11. ASSUME StackBuilt'
       PROVE  StackHolds'
    <2>1. phase' = phase \/ phase' = (IF image = main THEN "stack" ELSE "enter")
        BY <1>1, Zenon DEF NextSeg
    <2>2. StackBuilt
        BY <1>1, <1>11, <2>1 DEF StackBuilt
    <2>3. ASSUME NEW a \in StackTop - StackSize .. StackTop - 1
          PROVE  byte'[a] = byte[a]
        <3>1. a \in Nat /\ a \in Addresses /\ StackTop - StackSize <= a /\ a < StackTop
            BY StackAligned, ElfAssumption DEF Addresses
        <3>2. PageOf(a) \in StackPages
            BY <3>1, StackPageOf
        <3>3. a \notin Into(image, seg)
            BY <1>1, <1>4, <1>5, <3>2, SpanOffStack, Zenon
        <3> QED
            BY <1>1, <3>1, <3>3, Zenon
    <2> QED
        BY <1>2, <2>2, <2>3, Zenon DEF StackHolds, StackByte
<1> QED
    BY <1>9, <1>10, <1>11, Zenon

\* setup_user_stack writes the stack and touches no segment.
LEMMA StackLoads ==
    ASSUME ElfTypes, ElfControl, setup_user_stack, Apart, BytesLoaded
    PROVE  SegmentsHold' /\ (\A a \in Addresses : Accounted(a)') /\ StackHolds'
<1>1. /\ phase = "stack" /\ main' = main /\ image' = image
      /\ byte' = [a \in Addresses |->
            IF InFrame(a) THEN <<"frame", a>>
            ELSE IF PageOf(a) \in StackPages THEN Zero ELSE byte[a]]
      /\ phase' = IF Interps(main) = {} THEN "enter" ELSE "interp"
    BY Zenon DEF setup_user_stack, InFrame
<1>2. /\ SegmentsHold /\ (\A a \in Addresses : Accounted(a)) /\ phase \in Loading
    BY <1>1 DEF BytesLoaded, Loading
<1>3. Present' = Present
    BY <1>1, Zenon DEF Present
<1>4. ASSUME NEW img \in Present, NEW i \in Loads(img), NEW a \in Span(img, i)
      PROVE  byte'[a] = Expected(img, i, a)'
    <2>1. IsImage(img) /\ elf_validate(img) /\ ~Wraps(img)
        BY <1>2, <1>4 DEF ElfTypes, ElfControl, Apart, NoneWraps, Present
    <2>2. a \in Addresses /\ byte[a] = Expected(img, i, a)
        BY <1>2, <1>4, <2>1, SpanPaged, Zenon DEF SegmentsHold
    <2>3. PageOf(a) \notin StackPages /\ ~InFrame(a)
        BY <1>4, <2>1, SpanOffStack, Zenon
    <2>4. byte'[a] = byte[a]
        BY <1>1, <2>2, <2>3, Zenon
    <2>5. CopyDone(img, i) /\ CopyDone(img, i)'
        BY <1>1 DEF CopyDone
    <2> QED
        BY <2>2, <2>4, <2>5, Zenon DEF Expected
<1>5. SegmentsHold'
    BY <1>3, <1>4, Zenon DEF SegmentsHold
<1>6. ASSUME NEW a \in Addresses
      PROVE  Accounted(a)'
    <2>1. InFrame(a) \/ byte'[a] = Zero \/ byte'[a] = byte[a]
        BY <1>1, <1>6, Zenon
    <2>2. Accounted(a)
        BY <1>2, <1>6, Zenon
    <2> QED
        BY <1>3, <2>1, <2>2, Zenon DEF Accounted
<1>7. ASSUME NEW a \in StackTop - StackSize .. StackTop - 1
      PROVE  byte'[a] = StackByte(a)
    <2>1. a \in Nat /\ a \in Addresses /\ StackTop - StackSize <= a /\ a < StackTop
        BY StackAligned, ElfAssumption DEF Addresses
    <2>2. PageOf(a) \in StackPages
        BY <2>1, StackPageOf
    <2> QED
        BY <1>1, <2>1, <2>2, Zenon DEF StackByte, InFrame
<1>8. StackHolds'
    BY <1>7, Zenon DEF StackHolds, StackByte
<1> QED
    BY <1>5, <1>6, <1>8, Zenon

\* The interpreter finds its addresses zero, and what is loaded stays.
LEMMA FoundLoads ==
    ASSUME ElfTypes, ElfControl, Found, ElfTypes', ElfControl', Apart, Apart', BytesLoaded
    PROVE  SegmentsHold' /\ (\A a \in Addresses : Accounted(a)') /\ StackHolds'
<1>1. /\ phase = "interp" /\ phase' = "map" /\ seg' = 1 /\ main' = main /\ byte' = byte
      /\ Interps(image') = {}
    BY Zenon DEF Found
<1>2. /\ image = main /\ Interps(main) # {} /\ phase \in Loading /\ phase' \in Loading
    BY <1>1 DEF ElfControl, Loading
<1>3. /\ SegmentsHold /\ (\A a \in Addresses : Accounted(a)) /\ StackHolds
    BY <1>1, <1>2 DEF BytesLoaded, StackBuilt
<1>4. /\ image' # main' /\ Present = {main} /\ Present' = {main, image'}
    BY <1>1, <1>2 DEF Present
<1>5. ASSUME NEW img, img = main, NEW i \in Loads(img), NEW a \in Span(img, i)
      PROVE  byte'[a] = Expected(img, i, a)'
    <2>1. byte[a] = Expected(img, i, a)
        BY <1>3, <1>4, <1>5 DEF SegmentsHold
    <2>2. CopyDone(img, i) /\ CopyDone(img, i)'
        BY <1>1, <1>4, <1>5 DEF CopyDone
    <2> QED
        BY <1>1, <2>1, <2>2, Zenon DEF Expected
<1>6. ASSUME NEW img, img = image', NEW i \in Loads(img), NEW a \in Span(img, i)
      PROVE  byte'[a] = Expected(img, i, a)'
    <2>1. IsImage(img) /\ elf_validate(img) /\ ~Wraps(img)
        BY <1>2, <1>6 DEF ElfTypes, ElfControl, Apart, NoneWraps, Present
    <2>2. a \in Addresses /\ ~InFrame(a)
        BY <1>6, <2>1, SpanPaged, SpanOffStack, Zenon
    <2>3. ASSUME NEW j \in Loads(main), a \in Span(main, j)
          PROVE  FALSE
        <3>1. i \in 1 .. MaxPhnum /\ j \in 1 .. MaxPhnum
            <4>1. IsImage(main) /\ elf_validate(main)
                BY <1>2 DEF ElfTypes, ElfControl
            <4> QED
                BY <1>6, <2>1, <2>3, <4>1, LoadFacts, Zenon
        <3> DEFINE x == <<img, i>>
                   y == <<main, j>>
        <3>2. x \in Segments' /\ y \in Segments'
            BY <1>4, <1>6, <2>3, <3>1 DEF Segments
        <3>3. x[1] = img /\ x[2] = i /\ y[1] = main /\ y[2] = j
            OBVIOUS
        <3> HIDE DEF x, y
        <3>4. \A u \in Segments', w \in Segments' :
                  u[1] # w[1] => Span(u[1], u[2]) \cap Span(w[1], w[2]) = {}
            BY Zenon DEF Apart
        <3>5. Span(img, i) \cap Span(main, j) = {}
            BY <1>1, <1>4, <1>6, <3>2, <3>3, <3>4, Zenon
        <3> QED
            BY <1>6, <2>3, <3>5, Zenon
    <2>4. byte[a] = Zero
        BY <1>3, <1>4, <2>2, <2>3, ZenonT(30) DEF Accounted
    <2>5. ~(i < 1)
        BY <1>6, <2>1, LoadFacts
    <2>6. ~CopyDone(img, i)'
        BY <1>1, <1>6, <2>5 DEF CopyDone
    <2> QED
        BY <1>1, <2>4, <2>6, Zenon DEF Expected
<1>7. SegmentsHold'
    <2>1. SUFFICES ASSUME NEW img \in Present', NEW i \in Loads(img), NEW a \in Span(img, i)
                   PROVE  byte'[a] = Expected(img, i, a)'
        BY Zenon DEF SegmentsHold
    <2>2. CASE img = main
        BY <1>5, <2>1, <2>2
    <2>3. CASE img = image'
        BY <1>6, <2>1, <2>3
    <2> QED
        BY <1>1, <1>4, <2>2, <2>3
<1>8. \A a \in Addresses : Accounted(a)'
    BY <1>1, <1>3, <1>4, Zenon DEF Accounted
<1>9. StackHolds'
    BY <1>1, <1>3, Zenon DEF StackHolds, StackByte
<1> QED
    BY <1>7, <1>8, <1>9

\* Every step keeps what has been loaded.
LEMMA BytesLoadedKept ==
    ASSUME ElfTypes, ElfControl, BytesLoaded, ElfTypes', ElfControl', [ElfNext]_vars
    PROVE  BytesLoaded'
<1>1. CASE UNCHANGED vars
    <2>1. UNCHANGED <<main, image, phase, seg, byte>>
        BY <1>1, Zenon DEF vars
    <2>2. Present' = Present /\ (StackBuilt' <=> StackBuilt)
          /\ \A img, i : CopyDone(img, i)' <=> CopyDone(img, i)
        BY <2>1, Zenon DEF Present, StackBuilt, CopyDone
    <2>3. Apart' => Apart
        BY <2>2, Zenon DEF Apart, NoneWraps, Segments
    <2>4. StackHolds => StackHolds'
        BY <2>1, Zenon DEF StackHolds, StackByte
    <2> QED
        BY <2>1, <2>2, <2>3, <2>4, BytesStay, Zenon DEF BytesLoaded
<1>2. CASE Over
    <2>1. phase' \notin Loading
        BY <1>2 DEF Over, Refuse, Trample, Ends, Loading
    <2> QED
        BY <2>1, Zenon DEF BytesLoaded
<1>3. CASE ElfNext /\ ~Over
    <2>1. SUFFICES ASSUME Apart'
                   PROVE  /\ SegmentsHold' /\ \A a \in Addresses : Accounted(a)'
                          /\ StackBuilt' => StackHolds'
        BY Zenon DEF BytesLoaded, Addresses
    <2>2. Apart
        BY <1>3, <2>1, ApartBefore
    <2>3. CASE Accepted
        <3>1. /\ phase = "validate" /\ phase' = "map" /\ seg' = 1 /\ main' = main /\ image' = image
              /\ byte' = byte
            BY <2>3, Zenon DEF Accepted
        <3>2. image = main /\ byte = Blank
            BY <3>1 DEF ElfControl
        <3>3. \A a \in Addresses : byte'[a] = Zero
            BY <3>1, <3>2 DEF Blank
        <3>4. ~StackBuilt'
            BY <3>1, <3>2 DEF StackBuilt
        <3>5. ASSUME NEW img \in Present', NEW i \in Loads(img), NEW a \in Span(img, i)
              PROVE  byte'[a] = Expected(img, i, a)'
            <4>1. img = image' /\ img \in {main', image'}
                BY <3>1, <3>2, <3>5 DEF Present
            <4>2. IsImage(img) /\ elf_validate(img) /\ ~Wraps(img)
                BY <2>1, <3>1, <4>1 DEF ElfTypes, ElfControl, Loading, Apart, NoneWraps, Present
            <4>3. a \in Addresses /\ i \in 1 .. MaxPhnum
                BY <3>5, <4>2, SpanPaged, LoadFacts, Zenon
            <4>4. ~CopyDone(img, i)'
                BY <3>1, <4>1, <4>3 DEF CopyDone
            <4> QED
                BY <3>3, <4>3, <4>4, Zenon DEF Expected
        <3>6. SegmentsHold'
            BY <3>5, Zenon DEF SegmentsHold
        <3> QED
            BY <3>3, <3>4, <3>6, Zenon DEF Accounted
    <2>4. ASSUME phase \in {"map", "copy"}, NEW then, NextSeg(then),
                 IF phase = "map" THEN then = "copy" ELSE then \in {"stack", "enter"},
                 then = "enter" => image # main,
                 main' = main, image' = image, byte' = byte,
                 phase = "map" \/ seg \notin Loads(image)
          PROVE  /\ SegmentsHold' /\ \A a \in Addresses : Accounted(a)'
                 /\ StackBuilt' => StackHolds'
        <3>1. Present' = Present /\ phase \in Loading
            BY <2>4 DEF Present, Loading
        <3>2. ASSUME NEW img \in Present, NEW i \in Loads(img)
              PROVE  CopyDone(img, i)' <=> CopyDone(img, i)
            BY <2>4, <3>2, AdvanceCopied
        <3>3. SegmentsHold /\ (\A a \in Addresses : Accounted(a)) /\ (StackBuilt => StackHolds)
            BY <2>2, <3>1, Zenon DEF BytesLoaded
        <3>4. phase' = phase \/ phase' = then
            BY <2>4, Zenon DEF NextSeg
        <3>5. StackBuilt' => StackBuilt
            BY <2>4, <3>4 DEF StackBuilt
        <3>6. StackHolds => StackHolds'
            BY <2>4, Zenon DEF StackHolds, StackByte
        <3> QED
            BY <2>4, <3>1, <3>2, <3>3, <3>5, <3>6, BytesStay, Zenon
    <2>5. CASE Skip
        <3> DEFINE then ==
                IF phase = "map" THEN "copy" ELSE IF image = main THEN "stack" ELSE "enter"
        <3>1. /\ phase \in {"map", "copy"} /\ NextSeg(then) /\ main' = main /\ image' = image
              /\ byte' = byte /\ seg \notin Loads(image)
            BY <2>5, Zenon DEF Skip
        <3>2. /\ IF phase = "map" THEN then = "copy" ELSE then \in {"stack", "enter"}
              /\ then = "enter" => image # main
            BY <3>1, SMTT(30)
        <3> HIDE DEF then
        <3> QED
            BY <2>4, <3>1, <3>2
    <2>6. CASE Mapped
        BY <2>4, <2>6 DEF Mapped
    <2>7. CASE Copied
        BY <2>2, <2>7, CopyLoads, Zenon
    <2>8. CASE setup_user_stack
        BY <2>2, <2>8, StackLoads, Zenon
    <2>9. CASE Found
        BY <2>1, <2>2, <2>9, FoundLoads, Zenon
    <2>10. CASE Enter
        <3>1. /\ phase = "enter" /\ phase' = "ready" /\ main' = main /\ image' = image
              /\ byte' = byte
            BY <2>10, Zenon DEF Enter
        <3>2. /\ Present' = Present /\ StackBuilt /\ phase \in Loading
              /\ \A img, i : CopyDone(img, i)' <=> CopyDone(img, i)
            BY <3>1 DEF Present, StackBuilt, Loading, CopyDone
        <3>3. StackHolds => StackHolds'
            BY <3>1, Zenon DEF StackHolds, StackByte
        <3> QED
            BY <2>2, <3>1, <3>2, <3>3, BytesStay, Zenon DEF BytesLoaded
    <2> QED
        BY <1>3, <2>3, <2>5, <2>6, <2>7, <2>8, <2>9, <2>10, ElfSteps, Zenon
<1> QED
    BY <1>1, <1>2, <1>3

\* A space that is ready holds what was linked.
LEMMA ReadyAsLinked ==
    ASSUME ElfTypes, ElfControl, SegmentsMapped, StackMapped, BytesLoaded
    PROVE  LoadedAsLinked
<1>1. SUFFICES ASSUME phase = "ready", Apart
               PROVE  LoadedAsLinked
    BY Zenon DEF LoadedAsLinked
<1>2. phase \in Loading /\ StackBuilt
    BY <1>1 DEF Loading, StackBuilt
<1>3. SegmentsHold /\ StackHolds
    BY <1>1, <1>2, Zenon DEF BytesLoaded
<1>4. ASSUME NEW x \in Segments, NEW a \in Span(x[1], x[2])
      PROVE  /\ Grants(PageOf(a), x[1].ph[x[2]].flags)
             /\ byte[a] = FileByte(x[1], x[2], a)
    <2> DEFINE img == x[1]
               i == x[2]
    <2>1. img \in Present /\ i \in Loads(img)
        BY <1>4 DEF Segments
    <2>2. IsImage(img) /\ elf_validate(img) /\ ~Wraps(img)
        BY <1>1, <1>2, <2>1 DEF ElfTypes, ElfControl, Apart, NoneWraps, Present
    <2>3. MapDone(img, i) /\ CopyDone(img, i)
        BY <1>1 DEF MapDone, CopyDone, Loading
    <2>4. PageOf(a) \in SegPages(img, i)
        BY <1>4, <2>1, <2>2, SpanPaged, Zenon
    <2>5. Grants(PageOf(a), img.ph[i].flags)
        BY <1>2, <2>1, <2>3, <2>4, Zenon DEF SegmentsMapped, SegmentMapped
    <2>6. byte[a] = Expected(img, i, a)
        BY <1>3, <1>4, <2>1, Zenon DEF SegmentsHold
    <2> QED
        BY <2>3, <2>5, <2>6, Zenon DEF Expected
<1>5. ASSUME NEW a \in StackTop - StackSize .. StackTop - 1
      PROVE  pte[PageOf(a)] = StackPte /\ byte[a] = StackByte(a)
    <2>1. a \in Nat /\ StackTop - StackSize <= a /\ a < StackTop
        BY StackAligned
    <2>2. PageOf(a) \in StackPages
        BY <2>1, StackPageOf
    <2> QED
        BY <1>2, <1>3, <2>2, Zenon DEF StackMapped, StackHolds
<1> QED
    BY <1>4, <1>5, Zenon DEF LoadedAsLinked, Grants, FileByte, StackPte, StackByte

-----------------------------------------------------------------------------
\* The inductive invariant.
ElfInv ==
    /\ ElfTypes /\ ElfControl
    /\ NoWriteExec /\ LeastPrivilege
    /\ SegmentsMapped /\ StackMapped /\ StartSet
    /\ BytesLoaded

\* It holds when process_spawn_elf is given an image.
LEMMA ElfInitInv ==
    ASSUME ElfInit
    PROVE  ElfInv
<1>1. /\ nx \in BOOLEAN /\ main \in Images /\ phase = "validate" /\ image = main /\ seg = 0
      /\ pte = Empty /\ byte = Blank /\ start = Unset
    BY Zenon DEF ElfInit
<1>2. \A p \in PageNos : pte[p] = Absent
    BY <1>1 DEF Empty
<1>3. ~Absent.present /\ ~Absent.write /\ Absent \in Pte
    BY DEF Absent, Pte
<1>4. IsImage(main)
    BY <1>1, ImagesAssumption, Zenon
<1>5. ElfTypes
    <2>1. pte \in [PageNos -> Pte]
        BY <1>1, <1>3 DEF Empty
    <2>2. byte = [a \in Addresses |-> byte[a]]
        BY <1>1 DEF Blank
    <2> QED
        BY <1>1, <1>4, <2>1, <2>2 DEF ElfTypes
<1>6. ElfControl
    BY <1>1 DEF ElfControl, Loading
<1>7. NoWriteExec
    BY <1>2, <1>3, Zenon DEF NoWriteExec
<1>8. LeastPrivilege
    <2>1. \A p \in PageNos \ StackPages : Earned(p)
        BY <1>2, <1>3, Zenon DEF Earned
    <2> QED
        BY <2>1, PrivilegeByPage
<1>9. phase \notin Loading /\ ~StackBuilt /\ phase # "ready"
    BY <1>1 DEF Loading, StackBuilt
<1>10. StartSet
    BY <1>1, <1>9 DEF StartSet, Unset
<1> QED
    BY <1>5, <1>6, <1>7, <1>8, <1>9, <1>10, Zenon
    DEF ElfInv, SegmentsMapped, StackMapped, BytesLoaded

\* Every step keeps it.
LEMMA ElfStepInv ==
    ASSUME ElfInv, [ElfNext]_vars
    PROVE  ElfInv'
<1>1. ElfTypes' /\ ElfControl'
    BY ElfTypesKept, ElfControlKept, Zenon DEF ElfInv
<1>2. NoWriteExec' /\ LeastPrivilege'
    BY NoWriteExecKept, LeastPrivilegeKept, Zenon DEF ElfInv
<1>3. SegmentsMapped' /\ StackMapped' /\ StartSet'
    BY SegmentsMappedKept, StackMappedKept, StartSetKept, Zenon DEF ElfInv
<1>4. BytesLoaded'
    BY <1>1, BytesLoadedKept, Zenon DEF ElfInv
<1> QED
    BY <1>1, <1>2, <1>3, <1>4, Zenon DEF ElfInv

(***************************************************************************)
(* The loader is safe for every image: with NX no page is ever writable    *)
(* and executable, no page has a permission that no segment in it asks     *)
(* for, what is ready to run is what was linked, and it starts in code.    *)
(***************************************************************************)
THEOREM LoaderIsSafe ==
    ElfSpec => [](NoWriteExec /\ LeastPrivilege /\ LoadedAsLinked /\ StartsInCode)
<1>1. ElfInit => ElfInv
    BY ElfInitInv
<1>2. ElfInv /\ [ElfNext]_vars => ElfInv'
    BY ElfStepInv
<1>3. ElfInv => NoWriteExec /\ LeastPrivilege /\ LoadedAsLinked /\ StartsInCode
    BY ReadyAsLinked, StartIsInCode, Zenon DEF ElfInv
<1> QED
    BY <1>1, <1>2, <1>3, PTL DEF ElfSpec
=============================================================================
