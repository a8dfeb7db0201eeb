----------------------- MODULE MCIdentityVerification -----------------------
(* IdentityVerification for TLC: u1 is logged in in s1 and s2, u2 in s3. *)
EXTENDS IdentityVerification, TLC

CONSTANTS r1, r2, u1, u2, s1, s2, s3

MCSessionUser ==
    [s \in Sessions |-> IF s = s3 THEN u2 ELSE u1]

Symmetry == Permutations(Requests)
=============================================================================
