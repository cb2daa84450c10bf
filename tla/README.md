# Void, specified in TLA+

Void is a small x86_64 kernel in C with a few userland programs.  This directory
models its stateful parts in TLA+, checks the models with TLC on small instances,
and proves the properties that matter most with TLAPS for every table size.
`PROJECT.json` ties every definition to the source lines it models and lists the
runs, the hazards and the theorems.

## The system and where it is hard

| Part | State | Operations | Module |
|---|---|---|---|
| scheduler (`kernel/sched/sched.c`) | thread table, ready ring, current thread, CR3 | tick/yield, adopt, create kthread, block, exit, start | `Scheduler` |
| process layer (`kernel/proc/process.c`) | process table, pids, parents, page-table roots | spawn, fork, execve, exit, wait4, reap | `Process`, `Lifecycle` (abstract) |
| kernel threads (`kernel/main.c`) | program counters of the boot thread and of `init_thread` | spawn, reap, exit | `Process` (atomic), `KPreempt` (preemptible) |
| message queue (`kernel/ipc/ipc.c`) | ring buffer, head, tail, count | enqueue, dequeue, close | `MsgQueue`, `Fifo` (abstract) |
| IPC (`kernel/ipc/ipc.c`) | endpoint registry, per-process handle tables | endpoint_create, send, recv, connect, close | `Ipc` |
| service registry (`kernel/svc/svc.c`) | table of names | register, unregister, lookup, close hook, exit cleanup | `Svc`, `Directory` (abstract) |
| user memory (`kernel/mm/user_mem.c`, `pmm.c`, `vmm.c`, umap in `process.c`) | frame bitmap, page tables, leaf entries, owned pages, breaks | spawn, fork, execve, brk, mmap, munmap, exit, destroy, one frame at a time | `UserMem` |
| kernel heap (`kernel/mm/kheap.c`) | free list, blocks handed out, heap top | kmalloc, kfree, growth | `KHeap` |
| file system (`kernel/vfs/voidfs.c`) | open files, descriptors, working directories, the embedded tree | open, close, read, seek, readdir, chdir, and fork, exit, reap | `Tree`, `Vfs`, `Descriptions` (abstract) |
| devices (`kernel/dev/device.c`, `serial_drv.c`) | registry slots, open instances | register, unregister, open, close | `Device` |
| terminal (`kernel/dev/tty.c`, read and write in `syscall.c`) | line buffer, UART receive FIFO | feed, read, write, ioctl | `Tty`, `Terminal` (abstract) |
| ELF loader (`kernel/elf/elf.c`) | the space being built | validate, map, copy, stack, interpreter, enter | `Elf` |
| userland allocator (`userland/libc/malloc.c`) | arena with tags and links, free list | malloc, free, realloc | `Malloc` |
| panic, ACPI, boot protocol, dynamic linker, descriptor tables | | | not modelled, see below |

What interacts with what: every entry into the kernel ends in `sched_tick` or
returns to the thread it came from; the process layer drives the scheduler's
threads; exit and reap reach into IPC and the service registry; closing an
endpoint reaches into the service registry; fork, exit and reap also share and drop
open files; read and write on descriptors 0 to 2 go through the terminal to the serial
device; spawn and execve load an image into a space of `UserMem`.

**What is atomic.**  The machine has one CPU.  System calls clear IF through FMASK
(`syscall.c:178`), exceptions and the timer use interrupt gates, and everything
`kernel_main` does before `sched_start` runs with interrupts off.  Each of those is
one action, up to and including the `sched_tick` that ends it.  The exceptions are
the kernel threads: `kernel_main`'s reaping loop and `init_thread` call
`process_try_reap` and `process_spawn_elf` with interrupts *enabled*.  `Process`
takes such a call as one step; `KPreempt` cuts it at every write another thread can
see.

## The modules

* **`Scheduler`** (`sched.c`).  `tstate`, `tnext`, `tcr3` are fields of `threads[]`;
  `cpu_cr3` is the register.  `SwitchFrom(st)` is `sched_tick` entered with thread
  states `st`, so that a system call that first blocks, exits or wakes threads and then
  calls `sched_tick` is one step.  `FirstReady` states what `pick_next`'s loop returns
  as a property of the ring (no recursion, so TLAPS can reason about it).  `SchedNext` is
  everything the kernel may ask; `Process` is shown to ask nothing else.
* **`Process`** (`process.c`, `main.c`).  One variable per field of `proc_table[]` that a
  decision depends on; `pml4s` is the part of the frame allocator's bitmap that holds
  page-table roots; `waitpid` remembers the argument of the wait4 a process is
  blocked in (the code has it on the blocked thread's stack).  Failure paths are
  there: a spawn that fails after `process_alloc` (`SpawnAbort`), a kernel thread whose
  stack cannot be mapped (`CreateWithoutStack`), an execve that fails (no change).
* **`Lifecycle`** is the promise of the process layer: a tree of pids, no tables and no
  threads.  `ProcessLifecycle` maps the process table onto it (`ImplementsLifecycle`).
* **`KPreempt`** is `Process` with the two preemptible calls opened up, one action per
  visible statement, and program counters and locals for the two kernel threads.  Filling
  in a process slot, tearing down a space and loading an image stay single steps.  The model stops (`torn`)
  where two insertions have taken one thread slot, because from there on the ring is no
  cycle and `pick_next` may not return.
* **`MsgQueue`** is the endpoint's ring buffer; **`Fifo`** the bounded queue it implements.
* **`Ipc`** holds the registry and the handle tables.  An endpoint is named by its
  owner's pid and the handle number it was created as, as in the code, and
  `ipc_endpoint_lookup` returns the *first* entry of a name, closed or not.
* **`Svc`** adds the service registry and composes whole system calls: `sys_ipc_close`
  with its call to `svc_on_endpoint_close`, exit and destroy with both cleanups.
  Processes are reduced to unborn, living, zombie and reaped pids.
* **`Directory`** is the promise of the service registry.
* **`UserMem`** takes memory the way the code does, a frame at a time: what a call has
  in progress is in `call` (pages still to map, pages mapped, the frame in hand), and
  every frame, table or umap entry it asks for may be the one that is refused.  `call.copy`
  remembers of which frame fork made the copy of a page; fork goes through umap in any
  order here, since removals permute it.  `Fail`
  is the undoing each caller does, which differs: a new space is torn down, mmap
  clears leaf entries, brk leaves what it got.  Addresses are in half pages, so that a
  break can lie inside a page.  The fields are those of the code: `used` is the bitmap,
  `cr3`, `table` and `pte` the paging structures, `umap` the pages a process owns.
* **`KHeap`** keeps the free list as the sequence of its blocks and does the size
  arithmetic modulo 2^64, as `uint64_t` does.
* **`Malloc`** is at the level of memory: headers, footers, links and the program's data
  are granules of one array, so a tag written in the wrong place is seen in what it
  overwrites.  calloc is malloc (its clearing is overwritten by the program's data), and
  realloc of NULL or to zero is malloc or free.
* **`Tree`** is the embedded tree and path resolution; **`Vfs`** the open files with their
  reference counts, descriptors and working directories; **`Descriptions`** what a
  descriptor layer without counts would promise.
* **`Device`** has the registry's slots and the instances opened on them, each with the
  slot's seed that `dev_inst_valid` re-checks; **`Tty`** puts the line discipline and the
  console system calls over it; **`Terminal`** is the edited line it implements.
* **`Elf`** loads images a program header at a time into a space of bytes that remember
  where in which file they came from, so that what was loaded can be compared with what
  was linked.  A load ends ready, failed, or "wild" when it has written to the kernel half.

`MC*` modules instantiate these for TLC.  A definition marked *Mutant* in a module is
not part of the model: it is the next definition with a plausible mistake, kept to show
that a property can fail.

## What is checked

| Run | Question | Bounds |
|---|---|---|
| `process` | does the process layer keep its tables, parents, wakeups and spaces consistent in every interleaving; does it use the scheduler as specified; does it implement `Lifecycle`; does every ready thread get to run? | 6 threads, 4 slots, 3 pids, 3 user spaces |
| `preemption` | does the ready queue stay one cycle when kernel threads are preempted mid-call? | as `process` |
| `racing_reapers` | may a reaper free the space of a process that has not exited? Yes, see below | as `process`, 3 slots |
| `orphan_zombie` | is every zombie of pid 0 reaped? No, see below | 5 threads, 3 slots, 2 pids, 2 user spaces |
| `msg_queue` | is the ring a bounded FIFO? | depth 3, 3 messages |
| `services` | do endpoints and names die with their owners, does only the owner end them; do the slots implement `Directory`? | 2 processes, 2 handles, 2 endpoints, 2 names |
| `user_memory` | is every frame held by one thing, is a process confined to its own memory, does the stack stay, does a failed mmap leave nothing mapped, does a fork copy what its parent has mapped? | 2 processes, 12 frames, 6 pages, 2 page tables, 6 umap entries, 6 calls |
| `kheap` | are blocks handed out apart from each other and from the free list, and mapped? | 3 pages of 8 units, 5 sizes |
| `malloc` | do blocks tile the arena, are used blocks the program's objects, is what it wrote kept? | 2 pages of 2 minimal blocks, 3 objects, 5 sizes |
| `vfs` | are references counted exactly, does chdir compose with relative paths, are open files shared descriptions? | 2 processes, 2 descriptors, 2 open files, 23 paths, offsets to 3 |
| `console` | is the line buffer the edited line, do writes report what was sent, does an open device stay the one that was opened? | line of 3, FIFO of 2, 3 drivers, 2 slots, 2 instances |
| `elf` | is what is loaded what was linked, is no page writable and executable, does a process start in code? | pages of 4 bytes, an address space of 32, wrap at 64, some 11,000 images |

Why the bounds are enough.  Six threads are boot, idle, init and one for each of three
processes; a process reaped before the next is born has its slot reused, and a full table
is one of the failures every spawn and fork may meet.  Spaces are interchangeable, hence
the symmetry of `preemption`.  Two handles and two endpoints suffice for a process to hold
two handles on one endpoint, to reuse a handle number after a close, and to fill the
registry.  Twelve frames are short of two full processes, six umap entries of an image, a
stack and a heap that is mapped over, so both run out; six calls build a process, map a
page twice, fork, grow over the stack and tear down.  The file tree is the embedded one,
which has one level of directories.  Three kernel heap pages allow an exact fit, a growth
over the tail and a growth refused half way.  Two arena pages and three objects give a free
block on both sides of a freed one.  A line of three with chunks of two fills, overflows
and is read in pieces.  The images are below, in, across and above every limit the loader tests.

`MaxPid` and `MaxCalls` bound processes and calls; the code has no such bound.
Deadlock is not checked where a bounded model really stops: when every process has been
reaped (`services`, `vfs`), at `torn` (`preemption`), after the last call (`user_memory`),
when the image is loaded or refused (`elf`), and when the kernel heap has been used up (`kheap`).

**Fairness.**  `ReadyRuns` assumes that the timer keeps ticking, which `lapic.c` programs
it to do, and nothing else.  `orphan_zombie` adds strong fairness of the boot thread's
reaping: a quantum is long enough for an iteration of its loop.  One quantum alone may miss
a zombie, because the scan it resumes may be past the slot, and the counterexample needs no
more than that.  No fairness is assumed of user processes.

### Where code and comments differ

Two runs end in counterexamples.  In `racing_reapers` the reaping loop and `init_thread`
find the same zombie, and the slower one destroys the slot's next owner
(`process.c:730`).  In `orphan_zombie` a process that `init_thread` spawns exits before the
spawn has stored `PROC_READY`: the store turns the zombie READY and nobody reaps it
(`process.c:394`, against `main.c:312`).  If the boot thread has reaped it already, the
store marks a free slot READY with pid -1, and the slot is lost.  Both runs preempt only
the one call, so that the two effects stay apart.  The models show more differences
between what the code does and what its comments say, by steps that anybody can follow in
them.

*Preemptible kernel threads* (`KPreempt`).  A reaper clears the pid of a slot that has been
reused (`process.c:225`); `process_alloc` in `init_thread` can fill a slot that a fork has
taken since it was found free (`:88`); `sched_adopt_thread` reads `next_tid` twice, so that
a fork in between gets the thread slot that `init_thread` then overwrites and links a second
time (`sched.c:231`).  `Process`, in which such a call is one step, has none of these: its
properties hold of the kernel while no kernel thread is cut inside a call.

*IPC and services* (`Ipc`, `Svc`).  Closing an endpoint frees its handle number but not
its registry entry, so a second endpoint gets the same supposedly unique name
(`ipc.c:366`, `ipc_internal.h:39`); closing drops only the first of an endpoint's service
names (`svc.c:110`, `ipc.c:370`); `sr_register` accepts a handle on a closed endpoint
(`svc.c:97`); a handle stays allocated after its endpoint is gone (`ipc.c:328`, `ipc.h:81`).

*User memory* (`UserMem`).  munmap ignores its length and releases up to the stack
(`syscall.c:128`); shrinking the break does the same to mappings, which the comment at
`user_mem.c:60` excludes.  Growing from an unaligned break maps the partial page again
and misses the last one; growth has no upper limit, although the comment at
`user_mem.c:47` has it capped, so it can map over mappings and over the stack (breaks
beyond the user half are outside the model); in all those cases the frame that loses its leaf entry stays in umap and is released with the
process, which is why `FramesHaveOneHolder` holds.  A failed mmap leaves its pages in
umap, so a later fork gives the child pages the parent has not mapped
(`ForkCoversParent` is one direction only).  A page mapped over has two
entries in umap; fork goes by umap, so the child's copy of it may be of the frame that lies
under the one the parent sees (`process.c:427`, against `:399`).  Where no
window is free, `um_mmap_reserve` may subtract past zero and mmap returns an address near
2^64 as a success, with no page mapped (`user_mem.c:133`).  The first heap page is never
mapped.  A fork's child starts in "/", whatever its parent's directory (`process.c:115`,
against `process.h:75`; in `Vfs`).  `process_exit_current` keeps the page tables until the reap.

*Kernel heap* (`KHeap`).  A growth that fails after mapping some pages leaves pages that
belong to no block, so the next one makes a second block on the list, and `kfree`'s
coalescing then merges the list's blocks across what lies between them: memory is handed
out twice (against `kheap.c:88`).  `BlocksAreApart` is stated up to that (`torn`).  When a
block fits with less than a header to spare, the subtraction of `kheap.c:94` wraps, the
block is split all the same, and the header of the rest is written past the heap's last
page, a fault (`state` is then "down").  New pages that are
handed out whole, with nothing to join and nothing left over, keep a header that nobody
has written: the count is then off by whatever it says until the block is freed,
and the list's head is wild unless it says NULL.  Freed blocks are flagged and never reused.

*Userland allocator* (`Malloc`).  A realloc that shrinks writes a footer over the last
16 bytes of what it keeps (`malloc.c:351`, against "safe" at `:342`); `PayloadsAreKept`
leaves out those granules and no other.

*ELF loader* (`Elf`).  The end of a biased segment can pass 2^64 unnoticed (`elf.c:221`): a
segment that starts in the user half then passes validation, against "rejects kernel-half and
non-canonical targets in one comparison" (`elf.c:216`).  Loading it maps pages and copies
bytes beyond the user half, or fails (`Trample` and `Refuse` in `map_segment_pages` and
`copy_segment_data`), against "none can fault the kernel" (`elf.h:134`).  The properties are
about the user half; that the loader stays in it is not one of them, because it does not.
`LoadedAsLinked` and `StartsInCode` leave such images out.  Image and interpreter are not
tested for overlap; `elf_find_embedded` takes a prefix or an extension of a name for the
name; the heap starts above the image whatever the interpreter occupies.

*Terminal* (`Tty`).  A read whose buffer faults has taken its bytes out of the line:
they are lost to the next read.  `ImplementsTerminal` counts them as handed out.

## What is proved

Constants are arbitrary: any table size (at least 2 threads, 1 slot), any number of
pids, any set of spaces, any queue depth of at least 1, any number of frames, pages and
calls and any shape of page tables, any number of descriptors, files, device slots and
drivers, any line length, chunk size, page size and heap limit.

* **`ProcessTable_proofs`**: of the scheduler, `SchedulerIsSafe` and `ExitIsFinal`.  The
  inductive invariant `SchedInv` adds to the checked properties that the idle thread never
  stops (`pick_next` may fall back on it) and that slots not yet handed out are EXITED and
  unlinked (so that an insertion extends the cycle).  Then the lemmas on the helpers of the
  process table, under the invariant `ProcInv`.  Last, `QueueSurvivesPreemption` of
  `KPreempt`: until `torn`, the invariant `QueueInv` follows the one insertion that can be cut.
  Between its links the new thread points into the cycle and nothing points to it, so every
  walk stays among the threads that have entered and finds the idle thread READY at the
  latest.
* **`Process_proofs`**: one lemma per system call, then
  `ProcessUsesScheduler` (a refinement: every step of the process
  layer is a scheduler step or leaves it alone, so the scheduler's invariant carries
  over), `ProcessTypeCorrect`, `ParentsStayAlive`, `WakeupsAreNotLost`, `TablesAgree`
  and `FreedSpacesNeverRun`.  The invariant `ProcInv` adds uniqueness
  of pids, that the kernel's process is never touched, that no slot rests in EMBRYO or
  RUNNING, and that a live thread's recorded CR3 is its process's.  Parents being
  *older* than their children is what makes reparenting terminate at pid 0.
  `LifecycleImplemented` is a refinement: the table read as a tree (who is alive, who a
  zombie, whose child, who waits for whom) takes a step of `Lifecycle` or none at all with
  every step of the table, one lemma for each kind of step.
* **`Svc_proofs`**: `SvcTypeCorrect`, `OwnersLive`, `LookupsLeadSomewhere`,
  `OwnersReachTheirs`, `OwnersEndTheirs` and `DirectoryImplemented`, the refinement of the
  registry's slots to a directory of names.  The invariant `SvcInv` states the
  properties over the set of registered names (what a lookup finds) and adds that a
  handle never names an endpoint of a pid not yet handed out, so that a new process
  starts with no handle that would count as its own.
* **`UserMem_proofs`**: `FramesAccounted`, `SpacesIsolated`,
  `StackKept`, `MmapAtomic` and `ForkCovers`.  `FramesHaveOneHolder`
  counts; the invariant `MemInv` says the same without counting: a frame is used exactly
  when something holds it, and PML4s, page tables, pages and the frame in hand share
  none, within a kind or across two.  It adds `MappedIsOwned`, whatever a leaf entry maps
  umap knows, from which isolation follows, and the types.  There is one lemma for each way holders
  change (a frame becomes a PML4, a table, a page; pages, a space or the frame in hand
  are given back; execve's swap), and each action is one of them.  A second invariant,
  `CallInv`, follows the call in progress: each page it was asked for is still to do, in
  hand or mapped with the permission asked for and copied from the frame fork found in
  umap, so that the pages of a finished call are what the call promises.  `StackKept` rests
  on the pages a call may touch: those of mmap were clear, and a stack page never is.
* **`Vfs_proofs`**: `VfsTypeCorrect`, `ReferencesCounted`, `DescriptionsImplemented` (a
  refinement, one lemma per call), `ChdirJoined` and `ChdirComposed`.  The counts are
  cardinalities of the sets of descriptors on a file; `VfsInv` adds that a process not yet
  born holds nothing.  Path resolution is a recursive function of the path; what it does to
  a joined path is proved by taking the least length at which the claim would fail.
* **`Tty_proofs`**: `HandlesReach` (with `DevInv`: a slot's count is the number of instances
  open on it, so a busy slot is never given away), `WriteReports` and
  `TerminalImplemented`.  The last is a refinement whose mapping is the prefix of the array
  that `tty_line_len` marks; its main lemmas say that feeding bytes one by one is editing
  the line, and that the shift of a read keeps the rest in order.
* **`KernelData_proofs`**: `IndicesAlwaysAgree` and `RingImplementsFifo`, from a few lemmas
  on `%` for positions that wrap at most once; `HeapBlocksApart` of the kernel heap.
  `HeapInv` says why that heap works at all: until a growth fails half way, the free list
  has at most one block, it is the last of the heap, and live blocks lie below it.
* **`Elf_proofs`**: `LoaderIsSafe`, the four properties of the loader.  The lemmas on one
  segment rest on three facts of arithmetic: a sum of two words wraps at most once, pages
  are monotone in addresses, and an address below a page boundary is on a page below it.
  From them, no page mapped for a segment is one of the stack's, even where the segment's
  end wraps.  The invariant `ElfInv` says what has been done so far: each segment the first
  loop has been through is mapped with its permissions, each one the second has been through
  holds its bytes and the others are zero, a byte that is not zero lies in a segment or in
  the stack's frame (so an interpreter linked apart finds its addresses clear).

Induction over data is done with the library's theorem that a nonempty set of naturals has
a least element (`LeastNat`, `NatSet`), because the provers cannot instantiate the
induction schemes.  The assumptions on constants that the proofs use are named in the
modules that declare them: `ElfAssumption` and `ImagesAssumption` (limits are page-aligned
words, the frame fits a page, header fields are words), `VfsAssumption` (paths are records of a flag and components,
"none" is no file), `DeviceAssumption` (there is a slot, and drivers have names).

Only model-checked: liveness (`ReadyRuns`, and the refutation of `OrphansAreReaped`), which
needs fairness and ENABLED; and the properties of `Malloc`, whose inductive invariant would have to describe
boundary tags and links in raw memory through every step of a split and a merge.

## Not modelled

Saved registers, kernel stacks, the contents of pages outside `Elf` and `Malloc`, exit
statuses, message bodies, echo, wording and formatting.  The kernel's own half of the
address space, the boot-time memory map and the TLB.  The UART beyond its receive FIFO,
the framebuffer console, the panic handler and the descriptor tables hold no state a
property is about; ACPI and boot parsing run once before anything is concurrent; the
dynamic linker is a sequential pass over one image; the userland programs are clients
whose calls are the inputs of the models.  Two frame allocations cut by preemption
(`pmm.c:119`) can only meet at boot and are not followed; neither is an execve by a
process that `init_thread` has not yet published, which would dereference a null thread
pointer.  A program that moves the break itself beside malloc is outside `Malloc`.
