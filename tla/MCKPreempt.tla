----------------------------- MODULE MCKPreempt -----------------------------
(***************************************************************************)
(* KPreempt for model checking, with three threads for processes beside    *)
(* the kernel's three: init_thread's, one to fork, and the forked one.     *)
(* The user spaces are interchangeable.                                    *)
(***************************************************************************)
EXTENDS KPreempt, TLC

UserSpaces == Spaces \ {KernelSpace}
SpaceSymmetry == Permutations(UserSpaces)
=============================================================================
