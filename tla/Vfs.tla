--------------------------------- MODULE Vfs ---------------------------------
(***************************************************************************)
(* Open files, descriptors and working directories (kernel/vfs/voidfs.c),  *)
(* with the parts of fork, exec, exit and reap that touch them.  Every     *)
(* operation is a system call and one action; a call that fails changes    *)
(* nothing and has no action (a read whose copy to the user faults does    *)
(* not move the position).  Descriptors 0 to 2 are the console and are     *)
(* never VFS descriptors; execve leaves this state alone.                  *)
(*                                                                         *)
(* A definition marked Mutant is no part of the model (see Scheduler).     *)
(***************************************************************************)
EXTENDS Tree, FiniteSets

CONSTANTS
    MaxPid,     \* bound: the number of processes ever created
    Fds,        \* descriptors VFS_ROOT_FDS .. MAX_FDS - 1
    Files,      \* heap addresses a vfs_file_t can have
    FileSize,   \* the size of each regular file
    MaxPath,    \* VFS_PATH_MAX, in components
    Paths,      \* bound: the paths programs pass
    Offsets,    \* bound: the offsets programs seek to
    MaxOff      \* the largest int64_t

NoFile == "none"    \* the null pointer, no object

ASSUME VfsAssumption ==
    /\ MaxPid \in Nat /\ Fds \subseteq Nat /\ IsFiniteSet(Fds)
    /\ FileSize \in [RegularFiles -> Nat]
    /\ MaxOff \in Nat /\ \A n \in RegularFiles : FileSize[n] <= MaxOff
    /\ \A d \in Directories : Len(Children[d]) <= MaxOff
    /\ Offsets \subseteq (-MaxOff - 1) .. MaxOff
    /\ Paths \subseteq [absolute : BOOLEAN, comps : Seq(STRING)]
    /\ NoFile \notin Files

VARIABLES
    life,   \* where each pid is in its life
    fds,    \* p->fds: the open file of each descriptor
    file,   \* the vfs_file_t objects
    cwd     \* p->cwd

vars == <<life, fds, file, cwd>>

Pids == 1 .. MaxPid
Freed == [node |-> "free", pos |-> 0, refcount |-> 0]
OpenFile == [node : Nodes, pos : 0 .. MaxOff, refcount : Nat \ {0}]

Living == {p \in Pids : life[p] = "living"}
Born(p) == life[p] = "unborn" /\ \A q \in Pids : q < p => life[q] # "unborn"

\* The descriptors of p that share the open file f.
Holding(p, f) == {fd \in Fds : fds[p][fd] = f}

\* Mutant: the object is freed when one reference is left.
DroppedEarly(f, n) ==
    IF file[f].refcount - n <= 1 THEN Freed ELSE [file[f] EXCEPT !.refcount = @ - n]

\* An open file with n references fewer: kfree at zero.
Dropped(f, n) ==
    IF file[f].refcount - n <= 0 THEN Freed ELSE [file[f] EXCEPT !.refcount = @ - n]

-----------------------------------------------------------------------------
VfsInit ==
    /\ life = [p \in Pids |-> "unborn"]
    /\ fds = [p \in Pids |-> [fd \in Fds |-> NoFile]]
    /\ file = [f \in Files |-> Freed]
    /\ cwd = [p \in Pids |-> << >>]

\* Where a path leads p, if the absolute path fits its buffer.
Resolved(p, path) ==
    LET abs == vfs_absolutize(cwd[p], path)
    IN  IF Len(abs) >= MaxPath THEN "FAULT" ELSE vfs_resolve_abs(abs)

FreeFds(p) == Holding(p, NoFile)

\* The tree is read-only, so only O_RDONLY gets this far.
sys_vfs_open(p, path) ==
    LET node == Resolved(p, path) IN
    /\ p \in Living
    /\ node \in Nodes
    /\ \E f \in Files, fd \in FreeFds(p) :
       /\ file[f] = Freed
       /\ \A e \in FreeFds(p) : fd <= e
       /\ file' = [file EXCEPT ![f] = [node |-> node, pos |-> 0, refcount |-> 1]]
       /\ fds' = [fds EXCEPT ![p][fd] = f]
    /\ UNCHANGED <<life, cwd>>

\* The open file behind a descriptor of p, and its kind.
Uses(p, fd, kind) == p \in Living /\ fds[p][fd] # NoFile /\ file[fds[p][fd]].node \in kind

MoveTo(f, pos) ==
    /\ file' = [file EXCEPT ![f].pos = pos]
    /\ UNCHANGED <<life, fds, cwd>>

\* A read of count bytes returns what is left, at most count; past the end
\* nothing.
sys_vfs_read(p, fd, count) ==
    LET f == fds[p][fd]
        avail == FileSize[file[f].node] - file[f].pos
    IN  /\ Uses(p, fd, RegularFiles)
        /\ avail > 0
        /\ MoveTo(f, file[f].pos + (IF count > avail THEN avail ELSE count))

\* Sums are of two int64_t.  Signed overflow is undefined in C; what the
\* compiler emits wraps around, to a negative number, which is refused.
Wrap64(n) == IF n > MaxOff THEN n - 2 * (MaxOff + 1) ELSE n

\* Mutant: a directory's cursor can be moved past its entries.
SeekAnything(p, fd, offset, whence) ==
    /\ Uses(p, fd, Nodes)
    /\ offset >= 0
    /\ MoveTo(fds[p][fd], offset)

sys_vfs_lseek(p, fd, offset, whence) ==
    LET f == fds[p][fd]
        npos == CASE whence = "SET" -> offset
                  [] whence = "CUR" -> Wrap64(file[f].pos + offset)
                  [] whence = "END" -> Wrap64(FileSize[file[f].node] + offset)
    IN  /\ Uses(p, fd, RegularFiles)
        /\ npos >= 0
        /\ MoveTo(f, npos)

\* The position of a directory counts the entries already returned.
sys_vfs_readdir(p, fd) ==
    LET f == fds[p][fd] IN
    /\ Uses(p, fd, Directories)
    /\ file[f].pos < Len(Children[file[f].node])
    /\ MoveTo(f, file[f].pos + 1)

sys_vfs_close(p, fd) ==
    /\ p \in Living
    /\ fds[p][fd] # NoFile
    /\ file' = [file EXCEPT ![fds[p][fd]] = Dropped(fds[p][fd], 1)]
    /\ fds' = [fds EXCEPT ![p][fd] = NoFile]
    /\ UNCHANGED <<life, cwd>>

\* Mutant: the path is stored as given, not rebuilt from the node.
ChdirVerbatim(p, path) ==
    /\ p \in Living
    /\ Resolved(p, path) \in Directories
    /\ cwd' = [cwd EXCEPT ![p] = path.comps]
    /\ UNCHANGED <<life, fds, file>>

\* The tree is too shallow for the two checks of the rebuilt path's length.
sys_vfs_chdir(p, path) ==
    LET node == Resolved(p, path) IN
    /\ p \in Living
    /\ node \in Directories
    /\ cwd' = [cwd EXCEPT ![p] = PathOf[node]]
    /\ UNCHANGED <<life, fds, file>>

-----------------------------------------------------------------------------
(***************************************************************************)
(* The life of a process as far as its descriptors are concerned.          *)
(***************************************************************************)
\* process_alloc: no open files, in the root directory.
Spawn(p) ==
    /\ Born(p)
    /\ life' = [life EXCEPT ![p] = "living"]
    /\ fds' = [fds EXCEPT ![p] = [fd \in Fds |-> NoFile]]
    /\ cwd' = [cwd EXCEPT ![p] = << >>]
    /\ UNCHANGED file

\* A spawn or fork that fails after process_alloc: process_destroy takes back
\* whatever references the new process had been given.
Abort(p) ==
    /\ Born(p)
    /\ life' = [life EXCEPT ![p] = "reaped"]
    /\ UNCHANGED <<fds, file, cwd>>

\* Mutant: the copied descriptors are not counted.
DupUncounted(p, c) ==
    /\ fds' = [fds EXCEPT ![c] = fds[p]]
    /\ UNCHANGED file

\* fork's copy of the table, with vfs_file_ref_inc for each open file.
DupTable(p, c) ==
    /\ fds' = [fds EXCEPT ![c] = fds[p]]
    /\ file' = [f \in Files |->
                   IF Holding(p, f) = {} THEN file[f]
                   ELSE [file[f] EXCEPT !.refcount = @ + Cardinality(Holding(p, f))]]

\* The child's working directory is process_alloc's, not the parent's.
Fork(p, c) ==
    /\ p \in Living /\ Born(c)
    /\ life' = [life EXCEPT ![c] = "living"]
    /\ DupTable(p, c)
    /\ cwd' = [cwd EXCEPT ![c] = << >>]

vfs_close_process_fds(p) ==
    /\ file' = [f \in Files |->
                   IF Holding(p, f) = {} THEN file[f]
                   ELSE Dropped(f, Cardinality(Holding(p, f)))]
    /\ fds' = [fds EXCEPT ![p] = [fd \in Fds |-> NoFile]]

Exit(p) ==
    /\ p \in Living
    /\ life' = [life EXCEPT ![p] = "zombie"]
    /\ vfs_close_process_fds(p)
    /\ UNCHANGED cwd

Destroy(p) ==
    /\ life[p] = "zombie"
    /\ life' = [life EXCEPT ![p] = "reaped"]
    /\ vfs_close_process_fds(p)
    /\ UNCHANGED cwd

FileCall(p) ==
    \/ \E path \in Paths : sys_vfs_open(p, path) \/ sys_vfs_chdir(p, path)
    \/ \E fd \in Fds, count \in 1 .. MaxOff : sys_vfs_read(p, fd, count)
    \/ \E fd \in Fds, offset \in Offsets, whence \in {"SET", "CUR", "END"} :
          sys_vfs_lseek(p, fd, offset, whence)
    \/ \E fd \in Fds : sys_vfs_readdir(p, fd) \/ sys_vfs_close(p, fd)

VfsNext ==
    \E p \in Pids :
        \/ FileCall(p)
        \/ Spawn(p)
        \/ Abort(p)
        \/ \E c \in Pids : Fork(p, c)
        \/ Exit(p)
        \/ Destroy(p)

VfsSpec == VfsInit /\ [][VfsNext]_vars

-----------------------------------------------------------------------------
(***************************************************************************)
(* Every table holds values of its type.  A file's position fits an        *)
(* int64_t whatever is sought, and a directory's stays within its entries. *)
(***************************************************************************)
VfsTypeOK ==
    /\ life \in [Pids -> {"unborn", "living", "zombie", "reaped"}]
    /\ fds \in [Pids -> [Fds -> Files \cup {NoFile}]]
    /\ file \in [Files -> OpenFile \cup {Freed}]
    /\ \A f \in Files : file[f].node \in Directories =>
          file[f].pos <= Len(Children[file[f].node])
    /\ cwd \in [Pids -> {PathOf[d] : d \in Directories}]

Descriptors(f) == {d \in Pids \X Fds : fds[d[1]][d[2]] = f}

(***************************************************************************)
(* "close in either process must not free the object while the other still *)
(* has it open" (process.c) and "no file object leaks" (voidfs.c): an open *)
(* file has as many references as there are descriptors on it, over all    *)
(* processes, and is freed exactly when the last of them goes.             *)
(***************************************************************************)
RefsAreCounted == \A f \in Files : file[f].refcount = Cardinality(Descriptors(f))

RelativeSteps == {r.comps : r \in {q \in Paths : ~q.absolute /\ Len(q.comps) = 1}}

(***************************************************************************)
(* A process that changes directory and then uses a relative path gets to  *)
(* where the two paths joined would have led it, dots, slashes and errors  *)
(* included (chdir stores a rebuilt path, open prefixes it).  Resolution   *)
(* goes a component at a time, so a relative path of one stands for all.   *)
(***************************************************************************)
ChdirComposes ==
    [][\A p \in Pids : cwd'[p] # cwd[p] => \A path \in Paths : sys_vfs_chdir(p, path) =>
          LET joined == vfs_absolutize(cwd[p], path) IN
          \A rel \in RelativeSteps :
              vfs_resolve_abs(cwd'[p] \o rel) = vfs_resolve_abs(joined \o rel)]_vars

Descriptions == INSTANCE Descriptions WITH
    Processes <- Pids,
    Slots <- Fds,
    Objects <- Files,
    Nothing <- NoFile,
    refers <- fds,
    target <- [f \in Files |-> file[f].node],
    position <- [f \in Files |-> file[f].pos]

(***************************************************************************)
(* The objects and counts implement shared open file descriptions.         *)
(***************************************************************************)
ImplementsDescriptions == Descriptions!DescSpec
=============================================================================
