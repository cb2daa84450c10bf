------------------------------- MODULE Terminal -------------------------------
(***************************************************************************)
(* What the line discipline promises the processes that share the console: *)
(* what is typed is edited into one sequence, of at most Capacity bytes,   *)
(* and reads take it away from the front, in order, each byte once.        *)
(***************************************************************************)
EXTENDS Sequences, Naturals

CONSTANTS Capacity, LongestRead

VARIABLES
    typed,      \* what the next read will let in; it changes freely
    staged,     \* the edited line
    handed      \* what the last read handed out

\* The staged bytes after one more was typed: an erase takes back the last, an
\* end of file takes back all, and a full line drops the byte.
Edit(s, c) ==
    IF c = "erase" THEN (IF s = <<>> THEN s ELSE SubSeq(s, 1, Len(s) - 1))
    ELSE IF c = "eof" THEN <<>>
    ELSE IF Len(s) = Capacity THEN s
    ELSE Append(s, c)

\* The staged bytes once all of t was typed.
Edited(s, t) ==
    LET edit[k \in 0 .. Len(t)] == IF k = 0 THEN s ELSE Edit(edit[k - 1], t[k])
    IN  edit[Len(t)]

Init == staged = <<>> /\ handed = <<>>

Read(n) ==
    LET s == Edited(staged, typed)
        got == IF n < Len(s) THEN n ELSE Len(s)
    IN  /\ handed' = SubSeq(s, 1, got)
        /\ staged' = SubSeq(s, got + 1, Len(s))

\* Nothing but a read touches the line.
Other ==
    /\ handed' = <<>>
    /\ UNCHANGED staged

Next == Other \/ \E n \in 1 .. LongestRead : Read(n)

Spec == Init /\ [][Next]_<<staged, handed>>
=============================================================================
