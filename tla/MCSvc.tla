------------------------------- MODULE MCSvc -------------------------------
(***************************************************************************)
(* Svc for TLC.  Service names are interchangeable.                        *)
(***************************************************************************)
EXTENDS Svc, TLC

NameSymmetry == Permutations(ServiceNames)
=============================================================================
