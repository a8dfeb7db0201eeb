--------------------------- MODULE MCOIDCWorkflow ---------------------------
(***************************************************************************)
(* Small instances of OIDCWorkflow: a client for each policy, requests     *)
(* that differ in the client and in the audience.                          *)
(***************************************************************************)
EXTENDS OIDCWorkflow, TLC

CONSTANTS u1, u2, id1, id2, id3, t1, t2

MCClientPolicy == [c \in {"c1", "c2"} |-> IF c = "c1" THEN TwoFactor ELSE OneFactor]

MCAsks ==
    {[client |-> "c1", scopes |-> {"openid"}, audience |-> {}],
     [client |-> "c2", scopes |-> {"openid"}, audience |-> {"api"}]}

\* Users, ids and tabs are told apart by nothing.
Symmetry ==
    Permutations(Users) \cup Permutations(SessionIds) \cup Permutations(Tabs)
=============================================================================
