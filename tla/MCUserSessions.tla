--------------------------- MODULE MCUserSessions ---------------------------
(* UserSessions for TLC. *)
EXTENDS UserSessions, TLC

CONSTANTS r1, r2, u1, u2, id1, id2, id3, id4

Symmetry ==
    Permutations({r1, r2}) \cup Permutations(SessionIds) \cup Permutations(Users)
=============================================================================
