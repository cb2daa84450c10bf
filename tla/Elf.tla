---------------------------------- MODULE Elf ----------------------------------
(***************************************************************************)
(* The ELF loader (kernel/elf/elf.c) and the part of process_spawn_elf     *)
(* (proc/process.c) that drives it: an image is validated, its segments    *)
(* are mapped and then filled, the stack is built, and an interpreter, if  *)
(* the image names one, is loaded into the same space.                     *)
(*                                                                         *)
(* Addresses, offsets and sizes are bytes modulo Wrap.  The byte at offset *)
(* o of an image is <<image, o>>, so a byte in memory tells where it came  *)
(* from.  Header fields that are only compared with one legal value (the   *)
(* magic, class, machine, versions and entry sizes) are the one flag       *)
(* `ident'.  A file or interpreter name is a sequence of letters.          *)
(*                                                                         *)
(* A load that fails is torn down by its caller, so nothing of it is seen: *)
(* running out of frames, page tables or umap entries is one failure that  *)
(* may happen wherever a page is taken.  A segment that wraps may lie      *)
(* outside the user half, where the loader maps and copies as anywhere     *)
(* else; what the kernel has there is not modelled, and nothing is said of *)
(* a load that has reached it.                                             *)
(*                                                                         *)
(* A definition marked Mutant is no part of the model (see Scheduler).     *)
(***************************************************************************)
EXTENDS Integers, Sequences, FiniteSets

CONSTANTS
    Wrap,                   \* 2^64
    PageSize,
    UserMin, UserMax,       \* USER_MIN_VADDR, USER_MAX_VADDR
    StackTop, StackSize,    \* USER_STACK_TOP, USER_STACK_SIZE
    DynBase,                \* ELF_DYN_BASE
    EhdrSize, PhdrSize,
    FrameSize,              \* the initial frame and argv[0], at the stack's top
    MaxPhnum, MaxLoads,     \* ELF_MAX_PHNUM, ELF_MAX_LOADS
    MaxInterp,              \* sizeof(interp_path)
    Images,                 \* the images that are loaded
    Blobs                   \* the embedded images: a sequence of <<name, image>>

ASSUME ElfAssumption ==
    /\ PageSize \in Nat \ {0} /\ Wrap \in Nat /\ Wrap % PageSize = 0
    /\ {FrameSize, MaxPhnum} \subseteq Nat
    /\ {UserMin, UserMax, StackTop, StackSize, DynBase} \subseteq
          {a \in 0 .. Wrap - 1 : a % PageSize = 0}
    /\ UserMin + StackSize < StackTop /\ StackTop <= UserMax
    /\ FrameSize <= PageSize /\ StackSize >= PageSize

\* Whatever the file says, its header fields are 64-bit words.
Word == 0 .. Wrap - 1

Phdr == [type : STRING, vaddr : Word, offset : Word, filesz : Word, memsz : Word,
         flags : SUBSET {"r", "w", "x"}, align : Word, path : Seq(STRING)]

IsImage(img) == img.ph \in Seq(Phdr) /\ {img.entry, img.phoff, img.size} \subseteq Word

ASSUME ImagesAssumption ==
    /\ \A img \in Images : IsImage(img)
    /\ \A i \in DOMAIN Blobs : IsImage(Blobs[i][2])

VARIABLES
    nx,         \* nx_ok
    main,       \* the image given to process_spawn_elf
    phase,      \* what the loader does next
    image,      \* the image it does it to: main, or the interpreter
    seg,        \* the program header it has come to
    pte,        \* the pages of the new space
    byte,       \* what they hold
    start       \* the registers and the heap the process starts with

vars == <<nx, main, phase, image, seg, pte, byte, start>>

PageNos == 0 .. UserMax \div PageSize - 1
Addresses == 0 .. UserMax - 1
PageOf(a) == a \div PageSize
Absent == [present |-> FALSE, write |-> FALSE, nx |-> FALSE]
Zero == <<"zero", 0>>
Unset == [rip |-> 0, heap |-> 0, auxEntry |-> 0, auxPhdr |-> 0]
Empty == [p \in PageNos |-> Absent]
Blank == [a \in Addresses |-> Zero]

-----------------------------------------------------------------------------
\* elf_find_embedded compares until either name ends.
SameName(a, b) == a # <<>> /\ \A i \in DOMAIN a \cap DOMAIN b : a[i] = b[i]

elf_find_embedded(name) ==
    {Blobs[i][2] : i \in {j \in DOMAIN Blobs :
        SameName(name, Blobs[j][1]) /\ \A k \in 1 .. j - 1 : ~SameName(name, Blobs[k][1])}}

-----------------------------------------------------------------------------
Base(img) == IF img.type = "dyn" THEN DynBase ELSE 0

\* The PT_LOADs that are not empty.
Loads(img) == {i \in DOMAIN img.ph : img.ph[i].type = "load" /\ img.ph[i].memsz # 0}
Interps(img) == {i \in DOMAIN img.ph : img.ph[i].type = "interp"}

Vaddr(img, i) == (img.ph[i].vaddr + Base(img)) % Wrap
Vend(img, i) == (Vaddr(img, i) + img.ph[i].memsz) % Wrap

HeaderOK(img) ==
    /\ img.size >= EhdrSize
    /\ img.ident /\ img.type \in {"exec", "dyn"}
    /\ Len(img.ph) \in 1 .. MaxPhnum
    /\ img.phoff <= img.size
    /\ Len(img.ph) * PhdrSize <= img.size - img.phoff

InterpOK(img, ph) ==
    /\ ph.filesz # 0 /\ ph.offset < img.size
    /\ ph.filesz < MaxInterp
    /\ (ph.offset + ph.filesz) % Wrap <= img.size

FileRangeOK(img, ph) ==
    /\ ph.filesz <= ph.memsz
    /\ ph.offset <= img.size
    /\ ph.filesz <= img.size - ph.offset

\* Wrap first, then bounds; the biased end itself is not tested for wrap.
RangeOK(img, i) ==
    LET ph == img.ph[i] IN
    /\ Vaddr(img, i) >= ph.vaddr
    /\ (ph.vaddr + ph.memsz) % Wrap >= ph.vaddr
    /\ Vaddr(img, i) >= UserMin
    /\ Vend(img, i) <= UserMax

\* Mutant: a segment may be writable and executable.
FlagsReadable(ph) == "r" \in ph.flags

FlagsOK(ph) == "r" \in ph.flags /\ ~({"w", "x"} \subseteq ph.flags)

PowerOfTwo(a) == \E n \in 0 .. a : a = 2 ^ n

AlignOK(ph) ==
    ph.align > 1 =>
        /\ PowerOfTwo(ph.align)
        /\ ph.vaddr % ph.align = ph.offset % ph.align

\* Mutant: the stack is not in the way.
StackIgnored(img, i) == TRUE

ClearOfStack(img, i) ==
    ~(Vaddr(img, i) < StackTop /\ Vend(img, i) > StackTop - StackSize)

Disjoint(img, i, j) ==
    ~(Vaddr(img, i) < Vend(img, j) /\ Vend(img, i) > Vaddr(img, j))

SegmentOK(img, i) ==
    LET before == {j \in Loads(img) : j < i} IN
    /\ Cardinality(before) < MaxLoads
    /\ FileRangeOK(img, img.ph[i])
    /\ RangeOK(img, i)
    /\ FlagsOK(img.ph[i])
    /\ AlignOK(img.ph[i])
    /\ ClearOfStack(img, i)
    /\ \A j \in before : Disjoint(img, i, j)

\* Mutant: the entry may lie in any segment.
EntryAnywhere(img, i) ==
    img.ph[i].vaddr <= img.entry /\ img.entry < (img.ph[i].vaddr + img.ph[i].memsz) % Wrap

EntryIn(img, i) ==
    /\ "x" \in img.ph[i].flags
    /\ img.ph[i].vaddr <= img.entry
    /\ img.entry < (img.ph[i].vaddr + img.ph[i].memsz) % Wrap

\* Every refusal is the same error, so their order does not matter.
elf_validate(img) ==
    /\ HeaderOK(img)
    /\ \A i \in Interps(img) : InterpOK(img, img.ph[i])
    /\ \A i \in Loads(img) : SegmentOK(img, i)
    /\ \E i \in Loads(img) : EntryIn(img, i)

\* The last PT_INTERP counts.
InterpName(img) ==
    LET last == CHOOSE i \in Interps(img) : \A j \in Interps(img) : j <= i
    IN  img.ph[last].path

elf_load_end(img) ==
    LET ends == {Vend(img, i) : i \in Loads(img)}
    IN  CHOOSE e \in ends : \A d \in ends : d <= e

-----------------------------------------------------------------------------
ElfInit ==
    /\ nx \in BOOLEAN
    /\ main \in Images
    /\ phase = "validate" /\ image = main /\ seg = 0
    /\ pte = Empty /\ byte = Blank /\ start = Unset

Ends(outcome) ==
    /\ phase' = outcome
    /\ pte' = Empty /\ byte' = Blank /\ start' = Unset /\ seg' = 0
    /\ UNCHANGED <<nx, main, image>>

\* The caller destroys what was built.
Refuse == Ends("failed")

\* A mapping or a byte of the kernel half was overwritten.
Trample == Ends("wild")

Validate ==
    /\ phase = "validate"
    /\ IF elf_validate(image)
       THEN phase' = "map" /\ seg' = 1 /\ UNCHANGED <<nx, main, image, pte, byte, start>>
       ELSE Refuse

\* The loops over the program headers skip the ones that load nothing.
NextSeg(then) ==
    IF seg < Len(image.ph) THEN seg' = seg + 1 /\ UNCHANGED phase
    ELSE seg' = 1 /\ phase' = then

Skip ==
    /\ phase \in {"map", "copy"} /\ seg \notin Loads(image)
    /\ NextSeg(IF phase = "map" THEN "copy" ELSE IF image = main THEN "stack" ELSE "enter")
    /\ UNCHANGED <<nx, main, image, pte, byte, start>>

\* Mutant: what is not code is writable.
FlagsDataWritable(flags) ==
    [present |-> TRUE, write |-> "x" \notin flags, nx |-> nx /\ "x" \notin flags]

seg_page_flags(flags) ==
    [present |-> TRUE, write |-> "w" \in flags, nx |-> nx /\ "x" \notin flags]

\* The pages from the first byte's to the last byte's, none if that wrapped; all
\* up to the top of the address space, and on, if the end is 2^64 itself.
SegPages(img, i) ==
    PageOf(Vaddr(img, i)) .. PageOf((Vaddr(img, i) + img.ph[i].memsz - 1) % Wrap)

\* Permissions of a page two segments share.
Merged(old, flags) ==
    [present |-> TRUE, write |-> old.write \/ flags.write, nx |-> old.nx /\ flags.nx]

PageAfter(p, flags) == IF pte[p].present THEN Merged(pte[p], flags) ELSE flags

map_segment_pages ==
    LET flags == seg_page_flags(image.ph[seg].flags)
        pages == SegPages(image, seg)
        both  == {p \in pages \cap PageNos : pte[p].present}
    IN
    /\ phase = "map" /\ seg \in Loads(image)
    /\ IF ~(pages \subseteq PageNos) THEN Refuse \/ Trample
       ELSE IF nx /\ \E p \in both : PageAfter(p, flags).write /\ ~PageAfter(p, flags).nx
       THEN Refuse
       ELSE /\ pte' = [p \in PageNos |-> IF p \in pages THEN PageAfter(p, flags) ELSE pte[p]]
            /\ NextSeg("copy")
            /\ UNCHANGED <<nx, main, image, byte, start>>

\* vmm_virt_to_phys looks any address up; whether the kernel has a page at one
\* outside the user half is left open.
copy_segment_data ==
    LET ph == image.ph[seg]
        va == Vaddr(image, seg)
        into == {(va + k) % Wrap : k \in 0 .. ph.filesz - 1}
        absent(k) == (va + k) % Wrap \in Addresses /\ ~pte[PageOf((va + k) % Wrap)].present
    IN
    /\ phase = "copy" /\ seg \in Loads(image)
    /\ IF \E a \in into : a \notin Addresses \/ ~pte[PageOf(a)].present
       THEN \/ Refuse
            \/ /\ \E k \in 0 .. ph.filesz - 1 :
                     (va + k) % Wrap \notin Addresses /\ \A j \in 0 .. k : ~absent(j)
               /\ Trample
       ELSE /\ byte' = [a \in Addresses |->
                 IF a \in into THEN <<image.id, ph.offset + (a - va)>> ELSE byte[a]]
            /\ NextSeg(IF image = main THEN "stack" ELSE "enter")
            /\ UNCHANGED <<nx, main, image, pte, start>>

StackPages == PageOf(StackTop - StackSize) .. PageOf(StackTop) - 1

\* New zeroed frames under the stack, the initial frame at its top; then the
\* entry point of elf_load_into_process.
setup_user_stack ==
    /\ phase = "stack"
    /\ pte' = [p \in PageNos |->
          IF p \in StackPages THEN [present |-> TRUE, write |-> TRUE, nx |-> nx] ELSE pte[p]]
    /\ byte' = [a \in Addresses |->
          IF a >= StackTop - FrameSize /\ a < StackTop THEN <<"frame", a>>
          ELSE IF PageOf(a) \in StackPages THEN Zero ELSE byte[a]]
    /\ start' = [Unset EXCEPT !.rip = (main.entry + Base(main)) % Wrap,
                              !.auxEntry = (main.entry + Base(main)) % Wrap,
                              !.auxPhdr = (main.phoff + Base(main)) % Wrap]
    /\ phase' = IF Interps(main) = {} THEN "enter" ELSE "interp"
    /\ UNCHANGED <<nx, main, image, seg>>

\* A page was needed, for a segment or the stack, and there was none.
no_memory ==
    /\ \/ phase = "stack"
       \/ /\ phase = "map" /\ seg \in Loads(image)
          /\ \E p \in SegPages(image, seg) \cap PageNos : ~pte[p].present
    /\ Refuse

\* elf_load_interp up to its segments, which are then loaded as main's were.
elf_load_interp ==
    /\ phase = "interp"
    /\ LET found == {b \in elf_find_embedded(InterpName(main)) :
                        elf_validate(b) /\ Interps(b) = {}}
       IN  IF found = {} THEN Refuse
           ELSE /\ image' \in found
                /\ phase' = "map" /\ seg' = 1
                /\ UNCHANGED <<nx, main, pte, byte, start>>

\* The interpreter's entry if there is one, and brk_init.
Enter ==
    /\ phase = "enter"
    /\ start' = [start EXCEPT
          !.rip = (image.entry + Base(image)) % Wrap,
          !.heap = ((elf_load_end(main) + PageSize - 1) \div PageSize) * PageSize]
    /\ phase' = "ready"
    /\ UNCHANGED <<nx, main, image, seg, pte, byte>>

ElfNext ==
    \/ Validate \/ Skip
    \/ map_segment_pages \/ copy_segment_data \/ setup_user_stack \/ no_memory
    \/ elf_load_interp \/ Enter

ElfSpec == ElfInit /\ [][ElfNext]_vars

-----------------------------------------------------------------------------
\* A biased segment end past 2^64 goes unnoticed by RangeOK.
Wraps(img) == \E i \in Loads(img) : Vaddr(img, i) + img.ph[i].memsz >= Wrap

\* The bytes a segment stands for.
Span(img, i) == Vaddr(img, i) .. Vaddr(img, i) + img.ph[i].memsz - 1

\* The images in the space, and their segments; no byte is in two of them.
Present == {main, image}
Segments == {x \in Present \X (1 .. MaxPhnum) : x[2] \in Loads(x[1])}
NoneWraps == \A img \in Present : ~Wraps(img)
Apart ==
    /\ NoneWraps
    /\ \A x \in Segments, y \in Segments :
          x[1] # y[1] => Span(x[1], x[2]) \cap Span(y[1], y[2]) = {}

(***************************************************************************)
(* With NX, no page is writable and executable at any moment, whatever     *)
(* segments of whatever images meet in it (map_segment_pages).             *)
(***************************************************************************)
NoWriteExec == nx => \A p \in PageNos : pte[p].write => pte[p].nx

(***************************************************************************)
(* A loaded space is what the linker laid out: every byte of every segment *)
(* is mapped with at least that segment's permissions and holds its byte   *)
(* of the file, or zero past the file's end; the frame at the top of the   *)
(* stack is whole and the rest of the stack is zero.  Segments may share   *)
(* pages.  That main and interpreter lie apart is not tested by the code;  *)
(* it is a matter of their link addresses.                                 *)
(***************************************************************************)
LoadedAsLinked ==
    phase = "ready" /\ Apart =>
        /\ \A x \in Segments : \A a \in Span(x[1], x[2]) :
              LET ph == x[1].ph[x[2]]
                  k  == a - Vaddr(x[1], x[2])
                  p  == pte[PageOf(a)]
              IN  /\ p.present /\ ("w" \in ph.flags => p.write) /\ ("x" \in ph.flags => ~p.nx)
                  /\ byte[a] = IF k < ph.filesz THEN <<x[1].id, ph.offset + k>> ELSE Zero
        /\ \A a \in StackTop - StackSize .. StackTop - 1 :
              /\ pte[PageOf(a)] = [present |-> TRUE, write |-> TRUE, nx |-> nx]
              /\ byte[a] = IF a >= StackTop - FrameSize THEN <<"frame", a>> ELSE Zero

(***************************************************************************)
(* No page has a permission that no segment with a byte in it asks for,    *)
(* and no page is mapped that neither a segment nor the stack lies in.     *)
(***************************************************************************)
LeastPrivilege ==
    \A p \in PageNos \ StackPages : pte[p].present =>
        LET here == {x \in Segments : p \in SegPages(x[1], x[2])}
            asks(f) == \E x \in here : f \in x[1].ph[x[2]].flags
        IN  /\ here # {}
            /\ pte[p].write => asks("w")
            /\ nx /\ ~pte[p].nx => asks("x")

(***************************************************************************)
(* "never jump outside code" (elf.c): a process starts at a mapped byte of *)
(* an executable segment, and so does what the interpreter later jumps to. *)
(* The heap starts above every byte of the image.  An image whose biased   *)
(* segment end wraps is left out.                                          *)
(***************************************************************************)
StartsInCode ==
    phase = "ready" /\ NoneWraps =>
        /\ \A target \in {<<image, start.rip>>, <<main, start.auxEntry>>} :
              /\ \E i \in Loads(target[1]) :
                    target[2] \in Span(target[1], i) /\ "x" \in target[1].ph[i].flags
              /\ pte[PageOf(target[2])].present /\ ~pte[PageOf(target[2])].nx
        /\ \A i \in Loads(main) : Vaddr(main, i) + main.ph[i].memsz <= start.heap
=============================================================================
