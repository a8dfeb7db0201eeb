------------------------------- MODULE Verify -------------------------------
(***************************************************************************)
(* VerifyGet (internal/handlers/handler_verify.go): the decision a reverse *)
(* proxy asks for with every request to a protected application, made from *)
(* a session cookie whose activity is tracked and whose profile is         *)
(* refreshed from the authentication backend.                              *)
(*                                                                         *)
(* One user has just logged in, and requests with the cookie of the        *)
(* session are handled concurrently; UserSessions is about the ids, this   *)
(* module about time.  A step of a request ends where the handler is about *)
(* to call the session store or the backend.  The clock counts seconds, as *)
(* LastActivity does, and starts late enough for LastActivity = 0 to be    *)
(* long ago.                                                               *)
(***************************************************************************)
EXTENDS Integers

CONSTANTS
    Requests,           \* slots for requests that are handled concurrently
    Profiles,           \* the details (groups) the backend may have of the user
    Gone,               \* the backend has no such user
    NoProfile,          \* the details of the anonymous user
    Required,           \* Required[p]: what the access control asks of p
    Inactivity,         \* session.inactivity; 0 disables it
    RefreshProfile,     \* the backend is LDAP and refresh_interval is not "disable"
    RefreshIntervals,   \* the refresh_interval configured; 0 is "always"
    Absent,             \* no session
    MaxTime,            \* bound: when the clock stops
    Latency             \* bound: how long a request is handled

Policies == {"bypass", "one_factor", "two_factor", "deny"}

ASSUME VerifyAssumption ==
    /\ Inactivity \in Nat
    /\ RefreshProfile \in BOOLEAN
    /\ RefreshIntervals \subseteq Nat
    /\ MaxTime \in Nat
    /\ Latency \in Nat
    /\ Gone \notin Profiles
    /\ NoProfile \notin Profiles
    /\ Required \in [Profiles \cup {NoProfile} -> Policies]

VARIABLES
    refreshInterval,    \* refresh_interval of this configuration; never changes
    now,        \* the clock
    backend,    \* what the backend has of the user
    current,    \* current[p]: the last instant at which backend was p
    session,    \* the session in the store, or Absent
    active,     \* the last activity of the user that was recorded
    pc,         \* pc[r]: the next call of request r
    start,      \* start[r]: when r was received
    cookie,     \* cookie[r]: r's context still has the session cookie
    copy,       \* copy[r]: the handler's userSession
    details,    \* details[r]: what GetDetails returned
    failed,     \* failed[r]: GetDetails returned an error
    outcome,    \* outcome[r]: the level or the error verifyAuth returns
    reply       \* reply[r]: the answer, once there is one

world == <<now, backend, current>>
locals == <<start, cookie, copy, details, failed, outcome, reply>>
vars == <<refreshInterval, world, session, active, pc, locals>>

-----------------------------------------------------------------------------

Session ==
    [user         : BOOLEAN,        \* FALSE: no username, not authenticated
     keep         : BOOLEAN,        \* KeepMeLoggedIn
     lastActivity : Nat,
     profile      : Profiles \cup {NoProfile},
     refreshTTL   : Nat]

Anonymous == [user |-> FALSE, keep |-> FALSE, lastActivity |-> 0,
              profile |-> NoProfile, refreshTTL |-> 0]

Steps == {"idle", "get", "inactive", "profile", "refresh", "save", "decide",
          "touch", "mark"}

\* Levels, and an error.
Outcomes == {"none", "one_factor", "error"}

Replies == {"none", "authorized", "forbidden", "unauthorized"}

TypeOK ==
    /\ refreshInterval \in RefreshIntervals
    /\ now \in Nat
    /\ backend \in Profiles \cup {Gone}
    /\ current \in [Profiles -> Nat]
    /\ session \in Session \cup {Absent}
    /\ active \in Nat
    /\ pc \in [Requests -> Steps]
    /\ start \in [Requests -> Nat]
    /\ cookie \in [Requests -> BOOLEAN]
    /\ copy \in [Requests -> Session]
    /\ details \in [Requests -> Profiles \cup {NoProfile}]
    /\ failed \in [Requests -> BOOLEAN]
    /\ outcome \in [Requests -> Outcomes]
    /\ reply \in [Requests -> Replies]

\* A session in which the user has just passed the first factor.
Init ==
    /\ refreshInterval \in RefreshIntervals
    /\ now = Inactivity + 1
    /\ backend \in Profiles
    /\ current = [p \in Profiles |-> IF p = backend THEN now ELSE 0]
    /\ \E keep \in BOOLEAN :
          session = [user |-> TRUE, keep |-> keep, lastActivity |-> now,
                     profile |-> backend, refreshTTL |-> now + refreshInterval]
    /\ active = now
    /\ pc = [r \in Requests |-> "idle"]
    /\ start = [r \in Requests |-> 0]
    /\ cookie = [r \in Requests |-> FALSE]
    /\ copy = [r \in Requests |-> Anonymous]
    /\ details = [r \in Requests |-> NoProfile]
    /\ failed = [r \in Requests |-> FALSE]
    /\ outcome = [r \in Requests |-> "none"]
    /\ reply = [r \in Requests |-> "none"]

-----------------------------------------------------------------------------
(***************************************************************************)
(* What the steps are made of.                                             *)
(***************************************************************************)

GetSession(r) ==
    IF cookie[r] /\ session # Absent THEN session ELSE Anonymous

\* Without the cookie a save goes to a new session, which is another one.
SaveSession(r, s) == session' = IF cookie[r] THEN s ELSE session

DestroySession(r) ==
    /\ session' = IF cookie[r] THEN Absent ELSE session
    /\ cookie' = [cookie EXCEPT ![r] = FALSE]

GoTo(r, step) == pc' = [pc EXCEPT ![r] = step]

\* The request is over.
Leave(r) ==
    /\ pc' = [pc EXCEPT ![r] = "idle"]
    /\ start' = [start EXCEPT ![r] = 0]
    /\ cookie' = [cookie EXCEPT ![r] = FALSE]
    /\ copy' = [copy EXCEPT ![r] = Anonymous]
    /\ details' = [details EXCEPT ![r] = NoProfile]
    /\ failed' = [failed EXCEPT ![r] = FALSE]
    /\ outcome' = [outcome EXCEPT ![r] = "none"]
    /\ reply' = [reply EXCEPT ![r] = "none"]

\* The answer is known; of the session only its user matters from now on.
Answer(r, a) ==
    /\ reply' = [reply EXCEPT ![r] = a]
    /\ copy' = [copy EXCEPT ![r] = [Anonymous EXCEPT !.user = copy[r].user]]
    /\ details' = [details EXCEPT ![r] = NoProfile]
    /\ failed' = [failed EXCEPT ![r] = FALSE]
    /\ outcome' = [outcome EXCEPT ![r] = "none"]
    /\ pc' = [pc EXCEPT ![r] = "touch"]

Return(r, o) == outcome' = [outcome EXCEPT ![r] = o]

\* Mutant: the bound is off by one.
HasUserBeenInactiveTooLongLate(s) ==
    Inactivity # 0 /\ now - s.lastActivity > Inactivity + 1

HasUserBeenInactiveTooLong(s) ==
    Inactivity # 0 /\ now - s.lastActivity > Inactivity

\* Mutant: RefreshTTL is not looked at.
NeedsRefreshIgnoresTTL(s) == RefreshProfile /\ refreshInterval = 0

\* refresh_interval "always", or the profile is old.
NeedsRefresh(s) ==
    RefreshProfile /\ (refreshInterval = 0 \/ s.refreshTTL <= now)

\* The session with the details of the backend.
Refreshed(s, p) ==
    IF refreshInterval = 0 THEN [s EXCEPT !.profile = p]
    ELSE [s EXCEPT !.profile = p, !.refreshTTL = now + refreshInterval]

\* What the proxy is told when the session is s and its level is l.
IsTargetURLAuthorized(s, l) ==
    CASE Required[s.profile] = "bypass" -> "authorized"
      [] Required[s.profile] = "deny" /\ s.user -> "forbidden"
      [] Required[s.profile] = "one_factor" /\ l = "one_factor" -> "authorized"
      [] OTHER -> "unauthorized"

-----------------------------------------------------------------------------
(***************************************************************************)
(* A request with the cookie.                                              *)
(***************************************************************************)

\* The target URL is fine: it is secure and under the protected domain.
Receive(r) ==
    /\ pc[r] = "idle"
    /\ start' = [start EXCEPT ![r] = now]
    /\ cookie' = [cookie EXCEPT ![r] = TRUE]
    /\ GoTo(r, "get")
    /\ UNCHANGED <<world, session, active, copy, details, failed, outcome, reply>>

\* Basic authentication looks at the backend and at no session; the credentials
\* may be wrong, or the backend fail.
BasicAuth(r) ==
    /\ pc[r] = "idle"
    /\ start' = [start EXCEPT ![r] = now]
    /\ \/ Answer(r, "unauthorized")
       \/ /\ backend # Gone
          /\ Answer(r, IsTargetURLAuthorized(
                          [Anonymous EXCEPT !.user = TRUE, !.profile = backend],
                          "one_factor"))
    /\ UNCHANGED <<world, session, active, cookie>>

\* userSession := ctx.GetSession(), which is the default one if the store fails.
Get(r) ==
    /\ pc[r] = "get"
    /\ \E s \in {GetSession(r), Anonymous} :
          /\ copy' = [copy EXCEPT ![r] = s]
          /\ GoTo(r, CASE ~s.user -> "decide"
                       [] s.user /\ s.keep -> "profile"
                       [] OTHER -> "inactive")
          /\ Return(r, IF s.user THEN "one_factor" ELSE "none")
    /\ UNCHANGED <<world, session, active, start, cookie, details, failed, reply>>

\* hasUserBeenInactiveTooLong reads the session anew.
StillActive(r) ==
    /\ pc[r] = "inactive"
    /\ ~HasUserBeenInactiveTooLong(GetSession(r))
    /\ GoTo(r, "profile")
    /\ UNCHANGED <<world, session, active, locals>>

Inactive(r) ==
    /\ pc[r] = "inactive"
    /\ HasUserBeenInactiveTooLong(GetSession(r))
    /\ DestroySession(r)
    /\ Return(r, "error")
    /\ GoTo(r, "decide")
    /\ UNCHANGED <<world, active, start, copy, details, failed, reply>>

\* The store fails, and the username is not returned.
InactiveFails(r) ==
    /\ pc[r] = "inactive"
    /\ HasUserBeenInactiveTooLong(GetSession(r))
    /\ copy' = [copy EXCEPT ![r] = Anonymous]
    /\ Return(r, "error")
    /\ GoTo(r, "decide")
    /\ UNCHANGED <<world, session, active, start, cookie, details, failed, reply>>

UpToDate(r) ==
    /\ pc[r] = "profile"
    /\ GoTo(r, IF NeedsRefresh(copy[r]) THEN "refresh" ELSE "decide")
    /\ UNCHANGED <<world, session, active, locals>>

GetDetails(r) ==
    /\ pc[r] = "refresh"
    /\ backend # Gone
    /\ details' = [details EXCEPT ![r] = backend]
    /\ GoTo(r, "save")
    /\ UNCHANGED <<world, session, active, start, cookie, copy, failed, outcome,
                   reply>>

\* The error of the backend is logged, and the old profile used.
GetDetailsFails(r) ==
    /\ pc[r] = "refresh"
    /\ failed' = [failed EXCEPT ![r] = TRUE]
    /\ GoTo(r, "decide")
    /\ UNCHANGED <<world, session, active, start, cookie, copy, details, outcome,
                   reply>>

\* ErrUserNotFound, which the result of the destruction then replaces.
UserNotFound(r) ==
    /\ pc[r] = "refresh"
    /\ backend = Gone
    /\ \/ DestroySession(r) /\ Return(r, "none")
       \/ UNCHANGED <<session, cookie>> /\ Return(r, "error")
    /\ GoTo(r, "decide")
    /\ UNCHANGED <<world, active, start, copy, details, failed, reply>>

\* The refreshed session is saved if anything in it has changed; that the save
\* fails is only logged.
Refresh(r) ==
    /\ pc[r] = "save"
    /\ LET s == Refreshed(copy[r], details[r])
       IN /\ copy' = [copy EXCEPT ![r] = s]
          /\ \/ s # copy[r] /\ SaveSession(r, s)
             \/ UNCHANGED session
    /\ GoTo(r, "decide")
    /\ UNCHANGED <<world, active, start, cookie, details, failed, outcome, reply>>

\* A Session-Username header that does not match the user ends the session.
Mismatch(r) ==
    /\ pc[r] = "decide"
    /\ \/ DestroySession(r)
       \/ UNCHANGED <<session, cookie>>
    /\ Answer(r, "unauthorized")
    /\ UNCHANGED <<world, active, start>>

Decide(r) ==
    /\ pc[r] = "decide"
    /\ Answer(r, IF outcome[r] = "error" THEN "unauthorized"
                 ELSE IsTargetURLAuthorized(copy[r], outcome[r]))
    /\ UNCHANGED <<world, session, active, start, cookie>>

\* updateActivityTimestamp has nothing to do for an anonymous user, basic
\* authentication, or a user who is kept logged in.
NoTouch(r) ==
    /\ pc[r] = "touch"
    /\ ~copy[r].user \/ GetSession(r).keep
    /\ Leave(r)
    /\ UNCHANGED <<world, session, active>>

Touch(r) ==
    /\ pc[r] = "touch"
    /\ copy[r].user /\ ~GetSession(r).keep
    /\ copy' = [copy EXCEPT ![r] = [GetSession(r) EXCEPT !.lastActivity = now]]
    /\ reply' = [reply EXCEPT ![r] = "none"]
    /\ GoTo(r, "mark")
    /\ UNCHANGED <<world, session, active, start, cookie, details, failed, outcome>>

Mark(r) ==
    /\ pc[r] = "mark"
    /\ SaveSession(r, copy[r])
    /\ active' = IF cookie[r] /\ copy[r].lastActivity > active
                 THEN copy[r].lastActivity ELSE active
    /\ Leave(r)
    /\ UNCHANGED world

MarkFails(r) ==
    /\ pc[r] = "mark"
    /\ Leave(r)
    /\ UNCHANGED <<world, session, active>>

-----------------------------------------------------------------------------
(***************************************************************************)
(* The rest of the world.                                                  *)
(***************************************************************************)

\* The backend has other details of the user, or none.
Change(p) ==
    /\ backend' = p
    /\ current' = IF p = Gone THEN current ELSE [current EXCEPT ![p] = now]
    /\ UNCHANGED <<now, session, active, pc, locals>>

\* A logout, an expiration, or a second factor that regenerates the session.
End ==
    /\ session # Absent
    /\ session' = Absent
    /\ UNCHANGED <<world, active, pc, locals>>

Tick ==
    /\ now < MaxTime
    /\ \A r \in Requests : pc[r] # "idle" => now < start[r] + Latency
    /\ now' = now + 1
    /\ current' = IF backend = Gone THEN current
                  ELSE [current EXCEPT ![backend] = now']
    /\ UNCHANGED <<backend, session, active, pc, locals>>

Handle(r) ==
    \/ Get(r)
    \/ StillActive(r) \/ Inactive(r) \/ InactiveFails(r)
    \/ UpToDate(r)
    \/ GetDetails(r) \/ GetDetailsFails(r) \/ UserNotFound(r)
    \/ Refresh(r)
    \/ Mismatch(r) \/ Decide(r)
    \/ NoTouch(r) \/ Touch(r)
    \/ Mark(r) \/ MarkFails(r)

Next ==
    /\ \/ \E r \in Requests : Receive(r) \/ BasicAuth(r) \/ Handle(r)
       \/ \E p \in Profiles \cup {Gone} : Change(p)
       \/ End
       \/ Tick
    /\ UNCHANGED refreshInterval

Spec == Init /\ [][Next]_vars

-----------------------------------------------------------------------------
(***************************************************************************)
(* Properties.                                                             *)
(***************************************************************************)

Authorizes(r) == reply[r] = "none" /\ reply'[r] = "authorized"

\* The details a decision is based on are at most refreshInterval old, plus
\* the time the request that fetched them and the one that decides took: not
\* even a request that writes back what it read before the backend changed
\* (verifySessionHasUpToDateProfile, updateActivityTimestamp) makes an old
\* profile last longer.  It is so for a user the backend has deleted too, but
\* for a target that asks for no authentication: what is left of the session
\* whose user was not found is then looked at no further.
FreshDecision ==
    [][\A r \in Requests :
         /\ Authorizes(r) /\ copy[r].user /\ Required[copy[r].profile] # "bypass"
         /\ RefreshProfile /\ ~failed[r]
         => now <= current[copy[r].profile] + refreshInterval + 2 * Latency]_vars

\* A session in which the user has not been active for more than Inactivity
\* (and the time the request takes) opens nothing, whatever older copies of it
\* other requests have written back.
IdleSessionOpensNothing ==
    [][\A r \in Requests :
         Authorizes(r) /\ copy[r].user /\ ~copy[r].keep /\ Inactivity # 0 =>
            now <= active + Inactivity + Latency]_vars

\* What docs/configuration/session/index.md says of inactivity: the session of
\* a user is destroyed once the user has been inactive for that time.
ActiveSessionKept ==
    [][\A r \in Requests :
         Inactive(r) /\ session # Absent /\ session.user =>
            now > active + Inactivity]_vars
=============================================================================
