---------------------------- MODULE MCRunObserver ---------------------------
(* Model values and symmetry for model checking RunObserver. *)
EXTENDS RunObserver, TLC

CONSTANTS c1, c2

CloidSymmetry == Permutations(Cloids)
=============================================================================
