---------------------------- MODULE UserSessions ----------------------------
(***************************************************************************)
(* The user sessions and the handlers that read, change and write them:    *)
(* internal/session/provider.go and user_session.go, the handlers of       *)
(* /api/firstfactor, /api/secondfactor/*, /api/reset-password, /api/verify *)
(* and /api/logout, and the middleware RequireFirstFactor.                 *)
(*                                                                         *)
(* A session lives in the store of the session library (memory or Redis)   *)
(* under the id in the cookie.  Every request is a goroutine with a copy   *)
(* of its own (GetSession unmarshals JSON), and nothing is locked between  *)
(* GetSession, RegenerateSession and SaveSession, so a request is a        *)
(* process that makes one store call per step.                             *)
(*                                                                         *)
(* Time is left out: the verdicts that depend on it (inactivity, profile   *)
(* refresh, expiration) are choices.                                       *)
(***************************************************************************)
EXTENDS Integers, FiniteSets

CONSTANTS
    Users,          \* usernames
    NoUser,         \* the empty username; also a nil pointer to a user's data
    SessionIds,     \* the ids of the store (bound: how many are ever in use)
    NoId,           \* no cookie in the request
    Requests,       \* slots for requests that are handled concurrently
    Handlers,       \* the handlers that receive requests
    Absent          \* no session, or an id no client has

AllHandlers == {"FirstFactorPost", "TOTPPost", "DuoPost", "U2FSignGet",
                "U2FSignPost", "U2FIdentityFinish", "U2FRegister",
                "ResetPasswordIdentityFinish", "ResetPasswordPost",
                "VerifyGet", "LogoutPost"}

VARIABLES
    store,      \* store[id]: the session kept under id, or Absent
    used,       \* the ids that have been generated or presented
    pc,         \* pc[r]: the next call of request r
    handler,    \* handler[r]: the handler of the route
    user,       \* user[r]: the user in the body, or in the claims of the token
    sid,        \* sid[r]: the session cookie of r's context
    copy,       \* copy[r]: the handler's userSession
    issued,     \* issued[id]: whose session, at which level, id was when it
                \* was first handed to a client; Absent if it never was
    dead        \* ids whose session ended while no other request had the id

vars == <<store, used, pc, handler, user, sid, copy, issued, dead>>

-----------------------------------------------------------------------------
(***************************************************************************)
(* The session and its updates (user_session.go).                          *)
(***************************************************************************)

NotAuthenticated == 0
OneFactor        == 1
TwoFactor        == 2
Levels == NotAuthenticated..TwoFactor

UserSession ==
    [username     : Users \cup {NoUser},
     level        : Levels,
     challenge    : BOOLEAN,                \* U2FChallenge # nil
     registration : Users \cup {NoUser},    \* owner of the U2FRegistration
     reset        : Users \cup {NoUser}]    \* PasswordResetUsername

\* What a session lets its client do.
Privileges == [username : Users \cup {NoUser}, level : Levels]

ASSUME SessionsAssumption ==
    /\ NoUser \notin Users
    /\ NoId \notin SessionIds
    /\ Absent \notin UserSession
    /\ Absent \notin Privileges
    /\ Handlers \subseteq AllHandlers

NewDefaultUserSession ==
    [username |-> NoUser, level |-> NotAuthenticated, challenge |-> FALSE,
     registration |-> NoUser, reset |-> NoUser]

SetOneFactor(s, u) == [s EXCEPT !.username = u, !.level = OneFactor]

SetTwoFactor(s) == [s EXCEPT !.level = TwoFactor]

-----------------------------------------------------------------------------
(***************************************************************************)
(* The provider (provider.go), over the session library: the id of the     *)
(* context is the cookie of the request, and a save, a regeneration or a   *)
(* destruction replaces that cookie for the rest of the request.           *)
(***************************************************************************)

Fresh == SessionIds \ used

\* No data under the id, or a store that fails: the default session, which is
\* not kept.
GetSession(id) ==
    IF id = NoId \/ store[id] = Absent THEN NewDefaultUserSession ELSE store[id]

\* A context without a cookie gets a new id.
SaveSession(r, s) ==
    \/ /\ sid[r] # NoId
       /\ store' = [store EXCEPT ![sid[r]] = s]
       /\ UNCHANGED <<used, sid>>
    \/ /\ sid[r] = NoId
       /\ \E id \in Fresh :
             /\ store' = [store EXCEPT ![id] = s]
             /\ used' = used \cup {id}
             /\ sid' = [sid EXCEPT ![r] = id]

\* No other request has the id of r's context.
Alone(r) == \A q \in Requests \ {r} : sid[q] # sid[r]

Bury(r) ==
    dead' = IF sid[r] # NoId /\ Alone(r) THEN dead \cup {sid[r]} ELSE dead

\* The data moves to a new id.
RegenerateSession(r) ==
    \E id \in Fresh :
        /\ store' = IF sid[r] = NoId THEN store
                    ELSE [store EXCEPT ![id] = store[sid[r]],
                                       ![sid[r]] = Absent]
        /\ used' = used \cup {id}
        /\ sid' = [sid EXCEPT ![r] = id]
        /\ Bury(r)

\* Mutant: only the cookie is dropped.
DestroySessionCookieOnly(r) ==
    /\ sid' = [sid EXCEPT ![r] = NoId]
    /\ Bury(r)
    /\ UNCHANGED <<store, used>>

DestroySession(r) ==
    /\ store' = IF sid[r] = NoId THEN store
                ELSE [store EXCEPT ![sid[r]] = Absent]
    /\ sid' = [sid EXCEPT ![r] = NoId]
    /\ Bury(r)
    /\ UNCHANGED used

-----------------------------------------------------------------------------
(***************************************************************************)
(* What each handler does between its store calls.                         *)
(***************************************************************************)

\* The routes behind RequireFirstFactor (server.go).
RequiresFirstFactor(h) ==
    h \in {"TOTPPost", "DuoPost", "U2FSignGet", "U2FSignPost",
           "U2FIdentityFinish", "U2FRegister"}

\* Mutant: U2FSignPost does not look for a registration.
AcceptsNoRegistration(h, s) ==
    CASE h \in {"TOTPPost", "DuoPost", "U2FSignGet"} -> s.username # NoUser
      [] h \in {"U2FSignPost", "U2FRegister"} -> s.challenge
      [] h = "ResetPasswordPost" -> s.reset # NoUser
      [] OTHER -> TRUE

\* What the handler asks of the session it got: the storage has no TOTP secret
\* and no device of the empty username (and Duo does not allow it), the U2F
\* handlers need a challenge, signing a registration too, and a password is
\* reset for the user whose identity was verified.
Accepts(h, s) ==
    CASE h \in {"TOTPPost", "DuoPost", "U2FSignGet"} -> s.username # NoUser
      [] h = "U2FSignPost" -> s.challenge /\ s.registration # NoUser
      [] h = "U2FRegister" -> s.challenge
      [] h = "ResetPasswordPost" -> s.reset # NoUser
      [] OTHER -> TRUE

\* What each handler writes back of the session s it got; u is the user of the
\* credentials, or of the claims.
FirstFactorPost(s, u) == SetOneFactor(s, u)
SecondFactorTOTPPost(s) == SetTwoFactor(s)
SecondFactorDuoPost(s) == SetTwoFactor(s)
SecondFactorU2FSignGet(s) == [s EXCEPT !.challenge = TRUE,
                                       !.registration = s.username]
SecondFactorU2FSignPost(s) == SetTwoFactor(s)
SecondFactorU2FIdentityFinish(s) == [s EXCEPT !.challenge = TRUE]
SecondFactorU2FRegister(s) == [s EXCEPT !.challenge = FALSE]
resetPasswordIdentityFinish(s, u) == [s EXCEPT !.reset = u]
ResetPasswordPost(s) == [s EXCEPT !.reset = NoUser]

Update(h, s, u) ==
    CASE h = "FirstFactorPost" -> FirstFactorPost(s, u)
      [] h = "TOTPPost" -> SecondFactorTOTPPost(s)
      [] h = "DuoPost" -> SecondFactorDuoPost(s)
      [] h = "U2FSignPost" -> SecondFactorU2FSignPost(s)
      [] h = "U2FSignGet" -> SecondFactorU2FSignGet(s)
      [] h = "U2FIdentityFinish" -> SecondFactorU2FIdentityFinish(s)
      [] h = "U2FRegister" -> SecondFactorU2FRegister(s)
      [] h = "ResetPasswordIdentityFinish" -> resetPasswordIdentityFinish(s, u)
      [] h = "ResetPasswordPost" -> ResetPasswordPost(s)
      [] OTHER -> s

FirstStep(h) ==
    CASE h = "LogoutPost" -> "destroy"
      [] RequiresFirstFactor(h) -> "require"
      [] OTHER -> "get"

\* Mutant: the second factor handlers keep the id.
StepsAfterGetKeepId(h, s) ==
    CASE h = "FirstFactorPost" -> {"reset"}
      [] h = "VerifyGet" -> IF s.username = NoUser
                            THEN {"destroy", "respond"}
                            ELSE {"destroy", "save", "touch"}
      [] OTHER -> {"save"}

\* VerifyGet goes on with a destruction (inactivity, a user the backend no
\* longer has, a Session-Username that does not match), with the refreshed
\* profile, or with neither.
StepsAfterGet(h, s) ==
    CASE h = "FirstFactorPost" -> {"reset"}
      [] h \in {"TOTPPost", "DuoPost", "U2FSignPost"} -> {"regenerate"}
      [] h = "VerifyGet" -> IF s.username = NoUser
                            THEN {"destroy", "respond"}
                            ELSE {"destroy", "save", "touch"}
      [] OTHER -> {"save"}

Steps == {"idle", "require", "token", "get", "reset", "regenerate", "save",
          "destroy", "touch", "mark", "respond"}

Privilege(s) ==
    IF s = Absent THEN [username |-> NoUser, level |-> NotAuthenticated]
    ELSE [username |-> s.username, level |-> s.level]

TypeOK ==
    /\ store \in [SessionIds -> UserSession \cup {Absent}]
    /\ used \subseteq SessionIds
    /\ pc \in [Requests -> Steps]
    /\ handler \in [Requests -> AllHandlers]
    /\ user \in [Requests -> Users \cup {NoUser}]
    /\ sid \in [Requests -> SessionIds \cup {NoId}]
    /\ copy \in [Requests -> UserSession]
    /\ issued \in [SessionIds -> Privileges \cup {Absent}]
    /\ dead \subseteq SessionIds

-----------------------------------------------------------------------------
(***************************************************************************)
(* The steps of a request.                                                 *)
(***************************************************************************)

Init ==
    /\ store = [id \in SessionIds |-> Absent]
    /\ used = {}
    /\ pc = [r \in Requests |-> "idle"]
    /\ handler = [r \in Requests |-> "VerifyGet"]
    /\ user = [r \in Requests |-> NoUser]
    /\ sid = [r \in Requests |-> NoId]
    /\ copy = [r \in Requests |-> NewDefaultUserSession]
    /\ issued = [id \in SessionIds |-> Absent]
    /\ dead = {}

\* A client sends no cookie, an id it was handed, or one of its own making.
Receive(r, h, u) ==
    /\ pc[r] = "idle"
    /\ pc' = [pc EXCEPT ![r] = FirstStep(h)]
    /\ handler' = [handler EXCEPT ![r] = h]
    /\ user' = [user EXCEPT ![r] = u]
    /\ \/ UNCHANGED <<sid, used, issued>>
       \/ \E id \in SessionIds :
             /\ issued[id] # Absent
             /\ sid' = [sid EXCEPT ![r] = id]
             /\ UNCHANGED <<used, issued>>
       \/ \E id \in Fresh :
             /\ sid' = [sid EXCEPT ![r] = id]
             /\ used' = used \cup {id}
             /\ issued' = [issued EXCEPT ![id] = Privilege(Absent)]
    /\ UNCHANGED <<store, copy, dead>>

RequireFirstFactor(r) ==
    /\ pc[r] = "require"
    /\ GetSession(sid[r]).level >= OneFactor
    /\ pc' = [pc EXCEPT ![r] = IF handler[r] = "U2FIdentityFinish"
                               THEN "token" ELSE "get"]
    /\ UNCHANGED <<store, used, handler, user, sid, copy, issued, dead>>

\* The user in the claims of the identity token is the user of the session.
IsTokenUserValid(r) ==
    /\ pc[r] = "token"
    /\ GetSession(sid[r]).username = user[r]
    /\ pc' = [pc EXCEPT ![r] = "get"]
    /\ UNCHANGED <<store, used, handler, user, sid, copy, issued, dead>>

\* userSession := ctx.GetSession(), which is the default one if the store fails.
Get(r) ==
    /\ pc[r] = "get"
    /\ \E s \in {GetSession(sid[r]), NewDefaultUserSession} :
          /\ Accepts(handler[r], s)
          /\ copy' = [copy EXCEPT ![r] = s]
          /\ \E next \in StepsAfterGet(handler[r], s) :
                pc' = [pc EXCEPT ![r] = next]
    /\ UNCHANGED <<store, used, handler, user, sid, issued, dead>>

\* FirstFactorPost saves a new session before it regenerates the cookie.
Reset(r) ==
    /\ pc[r] = "reset"
    /\ SaveSession(r, NewDefaultUserSession)
    /\ pc' = [pc EXCEPT ![r] = "regenerate"]
    /\ UNCHANGED <<handler, user, copy, issued, dead>>

Regenerate(r) ==
    /\ pc[r] = "regenerate"
    /\ RegenerateSession(r)
    /\ pc' = [pc EXCEPT ![r] = "save"]
    /\ UNCHANGED <<handler, user, copy, issued>>

Save(r) ==
    /\ pc[r] = "save"
    /\ SaveSession(r, Update(handler[r], copy[r], user[r]))
    /\ \E next \in IF handler[r] = "VerifyGet" THEN {"touch", "destroy"}
                                               ELSE {"respond"} :
          pc' = [pc EXCEPT ![r] = next]
    /\ UNCHANGED <<handler, user, copy, issued, dead>>

Destroy(r) ==
    /\ pc[r] = "destroy"
    /\ DestroySession(r)
    /\ pc' = [pc EXCEPT ![r] =
                IF handler[r] = "VerifyGet" /\ copy[r].username # NoUser
                THEN "touch" ELSE "respond"]
    /\ UNCHANGED <<handler, user, copy, issued>>

\* VerifyGet only logs that a refresh or a destruction failed.
GoOn(r) ==
    /\ handler[r] = "VerifyGet"
    /\ pc[r] \in {"save", "destroy"}
    /\ copy[r].username # NoUser
    /\ pc' = [pc EXCEPT ![r] = "touch"]
    /\ UNCHANGED <<store, used, handler, user, sid, copy, issued, dead>>

\* updateActivityTimestamp reads the session anew, and writes it back.
Touch(r) ==
    /\ pc[r] = "touch"
    /\ copy' = [copy EXCEPT ![r] = GetSession(sid[r])]
    /\ pc' = [pc EXCEPT ![r] = "mark"]
    /\ UNCHANGED <<store, used, handler, user, sid, issued, dead>>

Mark(r) ==
    /\ pc[r] = "mark"
    /\ SaveSession(r, copy[r])
    /\ pc' = [pc EXCEPT ![r] = "respond"]
    /\ UNCHANGED <<handler, user, copy, issued, dead>>

\* A check fails, or a call that the handler cannot do without; VerifyGet has
\* nothing to mark for a user who wants to be kept logged in.
Abort(r) ==
    /\ pc[r] \notin {"idle", "respond"}
    /\ pc' = [pc EXCEPT ![r] = "respond"]
    /\ UNCHANGED <<store, used, handler, user, sid, copy, issued, dead>>

\* The response hands the cookie of the context to the client.
Respond(r) ==
    /\ pc[r] = "respond"
    /\ issued' = IF sid[r] = NoId \/ issued[sid[r]] # Absent THEN issued
                 ELSE [issued EXCEPT ![sid[r]] = Privilege(store[sid[r]])]
    /\ pc' = [pc EXCEPT ![r] = "idle"]
    /\ handler' = [handler EXCEPT ![r] = "VerifyGet"]
    /\ user' = [user EXCEPT ![r] = NoUser]
    /\ sid' = [sid EXCEPT ![r] = NoId]
    /\ copy' = [copy EXCEPT ![r] = NewDefaultUserSession]
    /\ UNCHANGED <<store, used, dead>>

\* The store drops a session that has expired.
Expire(id) ==
    /\ store[id] # Absent
    /\ store' = [store EXCEPT ![id] = Absent]
    /\ dead' = IF \A r \in Requests : sid[r] # id THEN dead \cup {id} ELSE dead
    /\ UNCHANGED <<used, pc, handler, user, sid, copy, issued>>

Handle(r) ==
    \/ RequireFirstFactor(r)
    \/ IsTokenUserValid(r)
    \/ Get(r)
    \/ Reset(r)
    \/ Regenerate(r)
    \/ Save(r)
    \/ Destroy(r)
    \/ GoOn(r)
    \/ Touch(r)
    \/ Mark(r)
    \/ Abort(r)
    \/ Respond(r)

Next ==
    \/ \E r \in Requests, h \in Handlers, u \in Users : Receive(r, h, u)
    \/ \E r \in Requests : Handle(r)
    \/ \E id \in SessionIds : Expire(id)

Spec == Init /\ [][Next]_vars

-----------------------------------------------------------------------------
(***************************************************************************)
(* Properties.                                                             *)
(***************************************************************************)

Within(s, p) ==
    s.level <= p.level /\ s.username \in {p.username, NoUser}

\* An id a client has never gains: whatever requests interleave, the session
\* kept under it is of the user and at most of the level it was handed out
\* with, because FirstFactorPost and the second factor handlers regenerate the
\* id before they raise the level.
NoPrivilegeGain ==
    \A id \in SessionIds :
        issued[id] # Absent /\ store[id] # Absent => Within(store[id], issued[id])

\* A session that is destroyed, regenerated away or expired while no other
\* request has its id does not come back: its id is never authenticated again,
\* although clients may go on sending it.
DeadIdsStayUnauthenticated ==
    \A id \in dead : store[id] # Absent => store[id].level = NotAuthenticated

\* The check at the top of verifySessionCookie ("An anonymous user cannot be
\* authenticated") never fires, although the handlers check one reading of the
\* session and change another.
AnonymousNeverAuthenticated ==
    /\ \A id \in SessionIds :
          store[id] # Absent /\ store[id].username = NoUser =>
              store[id].level = NotAuthenticated
    /\ \A r \in Requests :
          copy[r].username = NoUser => copy[r].level = NotAuthenticated

\* What the comment in FirstFactorPost says (handler_firstfactor.go:133): all
\* values of the previous session except the OIDC workflow are reset, so the
\* session of a login that has just succeeded holds nothing else.
LoginResetsSession ==
    \A r \in Requests :
        /\ pc[r] = "respond"
        /\ handler[r] = "FirstFactorPost"
        /\ sid[r] # NoId
        /\ GetSession(sid[r]).level = OneFactor
        /\ issued[sid[r]] = Absent
        => GetSession(sid[r]) = SetOneFactor(NewDefaultUserSession, user[r])
=============================================================================
