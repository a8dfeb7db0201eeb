---------------------------- MODULE MCRegulation ----------------------------
(* Regulation for TLC. *)
EXTENDS Regulation, TLC

CONSTANTS r1, r2, u1, u2

RequestSymmetry == Permutations({r1, r2})
=============================================================================
