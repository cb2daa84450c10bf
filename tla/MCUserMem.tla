------------------------------ MODULE MCUserMem ------------------------------
\* UserMem for TLC: two processes, the image on page 0, the stack on the last
\* page.  Those two share a page table, so that few frames make a process.
EXTENDS UserMem, TLC

MCTablePath == [p \in Pages |-> IF p \in {3, 4} THEN <<"far">> ELSE <<"near">>]
ProcSymmetry == Permutations(Procs)
=============================================================================
