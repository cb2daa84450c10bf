------------------------------- MODULE MCMalloc -------------------------------
\* Malloc for TLC: pages of two minimal blocks.
EXTENDS Malloc, TLC

IdSymmetry == Permutations(Ids)
=============================================================================
