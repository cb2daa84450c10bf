-------------------------------- MODULE MCVfs --------------------------------
(***************************************************************************)
(* Vfs for TLC.  The paths are those of one component of every kind that   *)
(* resolution tells apart, and of two where the order of kinds matters:    *)
(* below a directory and below a file, dots, doubled and trailing slashes. *)
(* The largest offset is 3, so that seeks overflow.                        *)
(***************************************************************************)
EXTENDS Vfs, TLC

Comps == {"hello.txt", "etc", "..", "", "nosuch"}
Pairs == {<<"etc", "version.txt">>, <<"etc", "">>, <<"hello.txt", "">>, <<"hello.txt", "..">>,
          <<".", "etc">>, <<"", "etc">>, <<"etc", Overlong>>}

\* A string that begins with a slash is absolute.
MCPaths ==
    LET comps == {<<c>> : c \in Comps} \cup Pairs
    IN  {[absolute |-> TRUE, comps |-> cs] : cs \in comps}
          \cup {[absolute |-> FALSE, comps |-> cs] :
                   cs \in {s \in comps : s[1] # "" \/ Len(s) = 1}}

MCFileSize == [n \in RegularFiles |-> IF n = "hello" THEN 2 ELSE 1]
MCOffsets == {-4, -1, 1, 3}
FileSymmetry == Permutations(Files)
=============================================================================
