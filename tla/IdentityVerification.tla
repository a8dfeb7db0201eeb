------------------------ MODULE IdentityVerification ------------------------
(***************************************************************************)
(* The verification of an identity by a link in a mail                     *)
(* (internal/middlewares/identity_verification.go) and the two flows it    *)
(* opens whose effect is outside the session: the registration of a TOTP   *)
(* device (handler_register_totp.go) and the reset of a password           *)
(* (handler_reset_password_step1.go, handler_reset_password_step2.go).     *)
(*                                                                         *)
(* A token is a JWT signed with a fixed key over its claims, so it is its  *)
(* claims: links asked for in the same second are the same link.  The      *)
(* table of tokens has no key, and the queries of the middleware           *)
(* (existence, insertion, deletion) are separate, as are the calls of the  *)
(* session store; requests interleave between them.                        *)
(***************************************************************************)
EXTENDS Integers, FiniteSets

CONSTANTS
    Users,          \* usernames
    NoUser,         \* no username
    Sessions,       \* sessions of clients
    NoSession,      \* no session
    SessionUser,    \* SessionUser[s]: who is logged in, or NoUser
    Requests,       \* slots for requests that are handled concurrently
    Lifetime,       \* for how long a link is good
    MaxTime,        \* bound: when the clock stops
    MaxLinks        \* bound: how many links are asked for

\* ResetPasswordAction and TOTPRegistrationAction.
Actions == {"ResetPassword", "RegisterTOTPDevice"}

Token == [action : Actions, user : Users, expires : 0..(MaxTime + Lifetime)]

\* A request that is not about a token.
NoToken == [action |-> "none", user |-> NoUser, expires |-> 0]

ASSUME IdentityAssumption ==
    /\ NoUser \notin Users
    /\ NoSession \notin Sessions
    /\ SessionUser \in [Sessions -> Users \cup {NoUser}]
    /\ IsFiniteSet(Requests)
    /\ Lifetime \in Nat
    /\ MaxTime \in Nat
    /\ MaxLinks \in Nat

VARIABLES
    now,        \* the clock, in the unit of the claim "exp"
    links,      \* how many links have been asked for
    saved,      \* the rows of identity_verification_tokens
    mailed,     \* the links in the users' mailboxes
    flag,       \* flag[s]: PasswordResetUsername of session s
    pc,         \* pc[r]: the next call of request r
    session,    \* session[r]: the session of request r
    endpoint,   \* endpoint[r]: the ActionClaim of the endpoint of request r
    token,      \* token[r]: the token of request r
    copy,       \* copy[r]: PasswordResetUsername of the handler's userSession
    inserts,    \* inserts[t]: how often t was inserted
    opened,     \* opened[t]: how often t has opened the flow it is for
    openers,    \* openers[t]: the sessions it has opened the flow in
    effects     \* what the flows have done

vars == <<now, links, saved, mailed, flag, pc, session, endpoint, token, copy,
          inserts, opened, openers, effects>>

Effect == [session : Sessions, action : Actions, user : Users]

Steps == {"idle", "insert", "send", "find", "parse", "remove", "secret",
          "save", "update", "clear", "load", "store"}

TypeOK ==
    /\ now \in 0..MaxTime
    /\ links \in 0..MaxLinks
    /\ saved \subseteq Token
    /\ mailed \subseteq Token
    /\ flag \in [Sessions -> Users \cup {NoUser}]
    /\ pc \in [Requests -> Steps]
    /\ session \in [Requests -> Sessions \cup {NoSession}]
    /\ endpoint \in [Requests -> Actions \cup {"none"}]
    /\ token \in [Requests -> Token \cup {NoToken}]
    /\ copy \in [Requests -> Users \cup {NoUser}]
    /\ inserts \in [Token -> Nat]
    /\ opened \in [Token -> Nat]
    /\ openers \in [Token -> SUBSET Sessions]
    /\ effects \subseteq Effect

Init ==
    /\ now = 0
    /\ links = 0
    /\ saved = {}
    /\ mailed = {}
    /\ flag = [s \in Sessions |-> NoUser]
    /\ pc = [r \in Requests |-> "idle"]
    /\ session = [r \in Requests |-> NoSession]
    /\ endpoint = [r \in Requests |-> "none"]
    /\ token = [r \in Requests |-> NoToken]
    /\ copy = [r \in Requests |-> NoUser]
    /\ inserts = [t \in Token |-> 0]
    /\ opened = [t \in Token |-> 0]
    /\ openers = [t \in Token |-> {}]
    /\ effects = {}

-----------------------------------------------------------------------------
(***************************************************************************)
(* IdentityVerificationStart.                                              *)
(***************************************************************************)

tables == <<saved, mailed, inserts>>
request == <<session, endpoint, token, copy>>
history == <<opened, openers, effects>>

GoTo(r, next) == pc' = [pc EXCEPT ![r] = next]

\* A request of session s begins.
Begin(r, s, a, t, u, next) ==
    /\ pc[r] = "idle"
    /\ session' = [session EXCEPT ![r] = s]
    /\ endpoint' = [endpoint EXCEPT ![r] = a]
    /\ token' = [token EXCEPT ![r] = t]
    /\ copy' = [copy EXCEPT ![r] = u]
    /\ GoTo(r, next)

\* The handler returns.
Leave(r) ==
    /\ session' = [session EXCEPT ![r] = NoSession]
    /\ endpoint' = [endpoint EXCEPT ![r] = "none"]
    /\ token' = [token EXCEPT ![r] = NoToken]
    /\ copy' = [copy EXCEPT ![r] = NoUser]
    /\ GoTo(r, "idle")

\* The registration of a device is behind RequireFirstFactor.
Reachable(s, a) == a = "RegisterTOTPDevice" => SessionUser[s] # NoUser

\* The user named in the request, if the backend has one; the user of the
\* session.
identityRetrieverFromStorage == Users
identityRetrieverFromSession(s) == {SessionUser[s]}

IdentityRetriever(s, a) ==
    IF a = "ResetPassword" THEN identityRetrieverFromStorage
                           ELSE identityRetrieverFromSession(s)

Start(r, s, a) ==
    /\ links < MaxLinks
    /\ links' = links + 1
    /\ Reachable(s, a)
    /\ \E u \in IdentityRetriever(s, a) :
          Begin(r, s, a, [action |-> a, user |-> u, expires |-> now + Lifetime],
                NoUser, "insert")
    /\ UNCHANGED <<now, flag, tables, history>>

SaveIdentityVerificationToken(r) ==
    /\ pc[r] = "insert"
    /\ saved' = saved \cup {token[r]}
    /\ inserts' = [inserts EXCEPT ![token[r]] = @ + 1]
    /\ GoTo(r, "send")
    /\ UNCHANGED <<now, links, mailed, flag, request, history>>

Send(r) ==
    /\ pc[r] = "send"
    /\ mailed' = mailed \cup {token[r]}
    /\ Leave(r)
    /\ UNCHANGED <<now, links, saved, inserts, flag, history>>

-----------------------------------------------------------------------------
(***************************************************************************)
(* IdentityVerificationFinish.                                             *)
(***************************************************************************)

\* The token of a mailed link comes to an endpoint in some session.
Finish(r, s, a, t) ==
    /\ Reachable(s, a)
    /\ Begin(r, s, a, t, NoUser, "find")
    /\ UNCHANGED <<now, links, flag, tables, history>>

FindIdentityVerificationToken(r) ==
    /\ pc[r] = "find"
    /\ token[r] \in saved
    /\ GoTo(r, "parse")
    /\ UNCHANGED <<now, links, flag, request, tables, history>>

\* Mutant: the action is not compared.
IsClaimValidAnyAction(a, t) == now <= t.expires

\* The token has not expired and is for the action of the endpoint.
IsClaimValid(a, t) ==
    /\ now <= t.expires
    /\ t.action = a

\* Mutant: the user of the session is not compared.
IsTokenUserValidAnyone(s, a, t) == TRUE

\* isTokenUserValidFor2FARegistration; the reset has no such function.
IsTokenUserValid(s, a, t) ==
    a = "RegisterTOTPDevice" => SessionUser[s] = t.user

ParseWithClaims(r) ==
    /\ pc[r] = "parse"
    /\ IsClaimValid(endpoint[r], token[r])
    /\ IsTokenUserValid(session[r], endpoint[r], token[r])
    /\ GoTo(r, "remove")
    /\ UNCHANGED <<now, links, flag, request, tables, history>>

\* Mutant: the token stays.
DeletedNot(t) == saved

\* The deletion of every row of a token, of which there may be none.
Deleted(t) == saved \ {t}

\* The token is deleted, and next opens the flow.
RemoveIdentityVerificationToken(r) ==
    /\ pc[r] = "remove"
    /\ saved' = Deleted(token[r])
    /\ opened' = [opened EXCEPT ![token[r]] = @ + 1]
    /\ openers' = [openers EXCEPT ![token[r]] = @ \cup {session[r]}]
    /\ GoTo(r, IF endpoint[r] = "ResetPassword" THEN "save" ELSE "secret")
    /\ UNCHANGED <<now, links, mailed, inserts, flag, request, effects>>

-----------------------------------------------------------------------------
(***************************************************************************)
(* What the link opens.  Of the sessions only PasswordResetUsername is     *)
(* here: a handler that reads a session to change it alone is one step.    *)
(***************************************************************************)

\* secondFactorTOTPIdentityFinish registers a device for the user of the token.
SaveTOTPSecret(r) ==
    /\ pc[r] = "secret"
    /\ effects' = effects \cup {[session |-> session[r],
                                 action |-> "RegisterTOTPDevice",
                                 user |-> token[r].user]}
    /\ Leave(r)
    /\ UNCHANGED <<now, links, flag, tables, opened, openers>>

\* resetPasswordIdentityFinish puts the user of the token in the session.
SetPasswordReset(r) ==
    /\ pc[r] = "save"
    /\ flag' = [flag EXCEPT ![session[r]] = token[r].user]
    /\ Leave(r)
    /\ UNCHANGED <<now, links, tables, history>>

\* ResetPasswordPost reads the session, updates the password of the user in
\* it, and saves the session without that user.
ResetPasswordPost(r, s) ==
    /\ flag[s] # NoUser
    /\ Begin(r, s, "none", NoToken, flag[s], "update")
    /\ UNCHANGED <<now, links, flag, tables, history>>

UpdatePassword(r) ==
    /\ pc[r] = "update"
    /\ effects' = effects \cup {[session |-> session[r],
                                 action |-> "ResetPassword", user |-> copy[r]]}
    /\ GoTo(r, "clear")
    /\ UNCHANGED <<now, links, flag, request, tables, opened, openers>>

ClearPasswordReset(r) ==
    /\ pc[r] = "clear"
    /\ flag' = [flag EXCEPT ![session[r]] = NoUser]
    /\ Leave(r)
    /\ UNCHANGED <<now, links, tables, history>>

\* A handler that reads the session and writes its copy back (VerifyGet).
Load(r, s) ==
    /\ Begin(r, s, "none", NoToken, flag[s], "store")
    /\ UNCHANGED <<now, links, flag, tables, history>>

Store(r) ==
    /\ pc[r] = "store"
    /\ flag' = [flag EXCEPT ![session[r]] = copy[r]]
    /\ Leave(r)
    /\ UNCHANGED <<now, links, tables, history>>

\* A check or a call fails, and the handler returns.
Abort(r) ==
    /\ pc[r] # "idle"
    /\ Leave(r)
    /\ UNCHANGED <<now, links, flag, tables, history>>

Tick ==
    /\ now < MaxTime
    /\ now' = now + 1
    /\ UNCHANGED <<links, flag, pc, request, tables, history>>

Handle(r) ==
    \/ SaveIdentityVerificationToken(r)
    \/ Send(r)
    \/ FindIdentityVerificationToken(r)
    \/ ParseWithClaims(r)
    \/ RemoveIdentityVerificationToken(r)
    \/ SaveTOTPSecret(r)
    \/ SetPasswordReset(r)
    \/ UpdatePassword(r)
    \/ ClearPasswordReset(r)
    \/ Store(r)
    \/ Abort(r)

Next ==
    \/ \E r \in Requests, s \in Sessions :
          \/ \E a \in Actions : Start(r, s, a)
          \/ \E a \in Actions, t \in mailed : Finish(r, s, a, t)
          \/ ResetPasswordPost(r, s)
          \/ Load(r, s)
    \/ \E r \in Requests : Handle(r)
    \/ Tick

Spec == Init /\ [][Next]_vars

-----------------------------------------------------------------------------
(***************************************************************************)
(* Properties.                                                             *)
(***************************************************************************)

\* How often a link opens its flow: once per insertion of its token, plus once
\* for every other request that had found the token when it was deleted.
\* IdentityVerificationFinish looks for the token and deletes it in two
\* queries, so once is no bound.
OpensBounded ==
    \A t \in Token : opened[t] <= inserts[t] * Cardinality(Requests)

\* A password is reset, and a device registered, only for a user whose link of
\* that kind was opened in that very session, whatever stale copies of the
\* session other handlers write back.
EffectsFollowVerification ==
    \A e \in effects :
        \E t \in Token :
            /\ t.action = e.action
            /\ t.user = e.user
            /\ e.session \in openers[t]

\* A device is registered by its owner alone: the session the link was opened
\* in is a session of the user the link was mailed to.
RegistrationByOwner ==
    \A e \in effects :
        e.action = "RegisterTOTPDevice" => SessionUser[e.session] = e.user

\* What docs/security/threat-model.md says of the link for a registration: the
\* flow "can only be opened by a single session".
OpenedBySingleSession ==
    \A t \in Token :
        /\ t.action = "RegisterTOTPDevice"
        /\ inserts[t] = 1
        => Cardinality(openers[t]) <= 1
=============================================================================
