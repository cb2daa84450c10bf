--------------------------------- MODULE Tree ---------------------------------
(***************************************************************************)
(* The embedded file tree and path resolution (kernel/vfs/voidfs.c).       *)
(*                                                                         *)
(* A path is what splitting the string at its slashes gives: "/etc/" is    *)
(* the absolute path <<"etc", "">>, "//x" the absolute path <<"", "x">>,   *)
(* the empty string the relative path <<"">>.  A working directory is its  *)
(* list of names, << >> for "/".  Lengths are counted in components.       *)
(***************************************************************************)
EXTENDS Integers, Sequences

\* The tree vfs_build_tree makes: who contains whom, under which name.
Root == "root"
Parent == [hello |-> Root, test |-> Root, etc |-> Root, version |-> "etc"]
Name == [hello |-> "hello.txt", test |-> "test.txt", etc |-> "etc", version |-> "version.txt"]
Children == [root |-> <<"hello", "test", "etc">>, etc |-> <<"version">>]

Directories == DOMAIN Children
Nodes == {Root} \cup DOMAIN Parent
RegularFiles == Nodes \ Directories
Errors == {"NOENT", "NOTDIR", "NAMETOOLONG"}

tree_find_child(dir, name) ==
    {n \in DOMAIN Parent : Parent[n] = dir /\ Name[n] = name}

\* A component of VFS_NAME_MAX characters or more.
Overlong == "overlong"

\* One turn of the loop of vfs_resolve_abs; an error is final.  "." and ".."
\* are not refused on a regular file.
ResolveStep(cur, comp) ==
    IF cur \in Errors \/ comp \in {"", "."} THEN cur
    ELSE IF comp = ".." THEN (IF cur = Root THEN Root ELSE Parent[cur])
    ELSE IF cur \notin Directories THEN "NOTDIR"
    ELSE IF comp = Overlong THEN "NAMETOOLONG"
    ELSE IF tree_find_child(cur, comp) = {} THEN "NOENT"
    ELSE CHOOSE n \in tree_find_child(cur, comp) : TRUE

\* The node an absolute path leads to, or the error; a trailing slash asks
\* for a directory.
vfs_resolve_abs(comps) ==
    LET walk[i \in 0 .. Len(comps)] ==
            IF i = 0 THEN Root ELSE ResolveStep(walk[i - 1], comps[i])
        end == walk[Len(comps)]
    IN  IF end \in RegularFiles /\ comps # << >> /\ comps[Len(comps)] = "" THEN "NOTDIR" ELSE end

\* A relative path is prefixed with the working directory.
vfs_absolutize(cwd, path) == IF path.absolute THEN path.comps ELSE cwd \o path.comps

\* The absolute path chdir rebuilds by climbing from a node to the root.
PathOf[n \in Nodes] == IF n = Root THEN << >> ELSE Append(PathOf[Parent[n]], Name[n])
=============================================================================
