---------------------------- MODULE MCSignedCalls ---------------------------
(* Small instances of SignedCalls for TLC. *)
EXTENDS SignedCalls, TLC

CONSTANTS p1, p2

ProcSymmetry == Permutations(Procs)
=============================================================================
