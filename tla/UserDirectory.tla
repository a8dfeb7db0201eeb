--------------------------- MODULE UserDirectory ---------------------------
(***************************************************************************)
(* What the handlers may rely on in a user provider                        *)
(* (internal/authentication/user_provider.go): passwords that calls check  *)
(* and change, each at one instant between its begin and its return.       *)
(*                                                                         *)
(* A refusal needs no reason and an error may come at any time, also after *)
(* the change; but a password is accepted only while it is the user's, and *)
(* a change that is reported done outlives the process.                    *)
(***************************************************************************)
CONSTANTS
    Users,
    Passwords,
    NoPassword,     \* of a user who does not exist (any more)
    Calls,
    Idle            \* no call

VARIABLES
    password,       \* password[u]: what CheckUserPassword compares with
    durable,        \* durable[u]: what is left if the process ends now
    call            \* call[c]: the call and how far it is

dirVars == <<password, durable, call>>

Results == {"pending", "changed", "yes", "no", "ok", "error"}

DirCalls ==
    [op : {"check", "details", "update"}, user : Users, password : Passwords,
     result : Results]

DirInit ==
    /\ password \in [Users -> Passwords \cup {NoPassword}]
    /\ durable = password
    /\ call = [c \in Calls |-> Idle]

SetResult(c, r) == call' = [call EXCEPT ![c].result = r]

Begin(c) ==
    /\ call[c] = Idle
    /\ \E k \in DirCalls :
          k.result = "pending" /\ call' = [call EXCEPT ![c] = k]
    /\ UNCHANGED <<password, durable>>

\* CheckUserPassword: the instant of the comparison.
Accept(c) ==
    /\ call[c].op = "check" /\ call[c].result = "pending"
    /\ password[call[c].user] = call[c].password
    /\ SetResult(c, "yes")
    /\ UNCHANGED <<password, durable>>

Refuse(c) ==
    /\ call[c].op = "check" /\ call[c].result = "pending"
    /\ SetResult(c, "no")
    /\ UNCHANGED <<password, durable>>

\* GetDetails.
Describe(c) ==
    /\ call[c].op = "details" /\ call[c].result = "pending"
    /\ SetResult(c, "ok")
    /\ UNCHANGED <<password, durable>>

\* UpdatePassword: the change, which a backend may store at the same time ...
Change(c) ==
    /\ call[c].op = "update" /\ call[c].result = "pending"
    /\ password' = [password EXCEPT ![call[c].user] = call[c].password]
    /\ durable' \in {durable, password'}
    /\ SetResult(c, "changed")

\* ... or later, and a store that is not complete may have lost users ...
Stores ==
    {d \in [Users -> Passwords \cup {NoPassword}] :
        \A u \in Users : d[u] \in {password[u], NoPassword}}

Changed(c) == call[c].op = "update" /\ call[c].result = "changed"

Store(c) ==
    /\ Changed(c)
    /\ durable' \in Stores
    /\ UNCHANGED <<password, call>>

\* ... but it is complete when the call says so.
Acknowledge(c) ==
    /\ Changed(c)
    /\ durable' = password
    /\ SetResult(c, "ok")
    /\ UNCHANGED password

Fail(c) ==
    /\ call[c].result \in {"pending", "changed"}
    /\ SetResult(c, "error")
    /\ durable' = durable \/ (Changed(c) /\ durable' \in Stores)
    /\ UNCHANGED password

Return(c) ==
    /\ call[c].result \in {"yes", "no", "ok", "error"}
    /\ call' = [call EXCEPT ![c] = Idle]
    /\ UNCHANGED <<password, durable>>

\* Somebody else changes the directory.
Administer ==
    /\ \E u \in Users, p \in Passwords \cup {NoPassword} :
          password' = [password EXCEPT ![u] = p]
    /\ durable' = password'
    /\ UNCHANGED call

\* The process ends, and what it knew with it.
Stop ==
    /\ call' = [c \in Calls |-> Idle]
    /\ \/ durable' = durable
       \/ durable' \in Stores /\ \E c \in Calls : call[c] # Idle /\ Changed(c)
    /\ password' = durable'

DirNext ==
    \/ \E c \in Calls :
          \/ Begin(c)
          \/ /\ call[c] # Idle
             /\ \/ Accept(c) \/ Refuse(c) \/ Describe(c)
                \/ Change(c) \/ Store(c) \/ Acknowledge(c)
                \/ Fail(c) \/ Return(c)
    \/ Administer
    \/ Stop

DirSpec == DirInit /\ [][DirNext]_dirVars
=============================================================================
