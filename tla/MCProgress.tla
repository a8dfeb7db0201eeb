----------------------------- MODULE MCProgress -----------------------------
(***************************************************************************)
(* What a user waits for, for TLC: the workflow of an OpenID Connect       *)
(* client in a browser tab, and the calls of the file user provider that   *)
(* log users in and change their passwords.  The two share no state; each  *)
(* is explored with the other at rest.                                     *)
(***************************************************************************)
EXTENDS MCOIDCWorkflow, FileUserProvider

CONSTANTS p1, p2

VARIABLE part       \* which of the two moves

\* A user whose hash is as configured, and one whose hash is an older one.
MCFiles ==
    {[u \in Usernames |->
        IF u = u1 THEN [crypt |-> FALSE, algorithm |-> "argon2id", password |-> p1]
                  ELSE [crypt |-> TRUE, algorithm |-> "sha512", password |-> p1]]}

ProgressInit == part \in {"workflow", "provider"} /\ Init /\ FileInit

ProgressNext ==
    \/ part = "workflow" /\ Next /\ UNCHANGED <<part, fileVars>>
    \/ part = "provider" /\ FileNext /\ UNCHANGED <<part, vars>>

\* The fairness of FollowSpec and of FileFairSpec.
ProgressSpec ==
    /\ ProgressInit /\ [][ProgressNext]_<<part, vars, fileVars>>
    /\ \A t \in Tabs : WF_vars(part = "workflow" /\ Follow(t))
    /\ \A c \in Calls :
          /\ WF_fileVars(part = "provider" /\ FileStep(c))
          /\ SF_fileVars(part = "provider" /\ Lock(c))

-----------------------------------------------------------------------------

\* The state of the workflow, and that of the calls of the file provider.
ProgressTypeOK == IF part = "workflow" THEN TypeOK ELSE FileTypeOK
=============================================================================
