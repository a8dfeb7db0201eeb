------------------------------ MODULE MCVerify ------------------------------
(* Verify for TLC: members may enter with one factor, others are denied. *)
EXTENDS Verify, TLC

CONSTANTS r1, r2, member, other

MCRequired ==
    [p \in Profiles \cup {NoProfile} |->
        IF p = member THEN "one_factor" ELSE "deny"]

Symmetry == Permutations(Requests)
=============================================================================
