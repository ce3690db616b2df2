------------------------------ MODULE MCTwapRun -----------------------------
(* Model values and symmetry for model checking TwapRun. *)
EXTENDS TwapRun, TLC

CONSTANTS c1, c2, c3

CloidSymmetry == Permutations(Cloids)
=============================================================================
