---------------------------- MODULE OIDCWorkflow ----------------------------
(***************************************************************************)
(* The OpenID Connect authorization workflow of one browser:               *)
(* handlers/handler_oidc_authorize.go, handler_oidc_consent.go, oidc.go,   *)
(* handleOIDCWorkflowResponse of response.go, and what the login handlers  *)
(* do with the workflow in the session.                                    *)
(*                                                                         *)
(* The workflow is kept in the user session, under the one cookie of the   *)
(* browser, while every tab has a request of its own: authorize writes     *)
(* what a client asks for, consent adds what the user accepts, login moves *)
(* it to the new session id, and authorize reads it again to answer.       *)
(***************************************************************************)
EXTENDS Naturals, FiniteSets

CONSTANTS
    Users,
    NoUser,
    ClientPolicy,   \* ClientPolicy[c]: the level the client c asks for
    Asks,           \* authorization requests: [client, scopes, audience]
    SessionIds,     \* ids of the session store (bound: ids known at a time)
    NoId,           \* no cookie
    Absent,         \* no session under an id
    Nil,            \* a session without a workflow
    Tabs,
    MaxTime,        \* bound on the clock
    MaxVisits       \* bound on the pages the user opens unasked

VARIABLES
    store,      \* store[id]: the user session under id, or Absent
    cookie,     \* the session cookie of the browser
    now,
    page,       \* page[t]: what the tab t shows
    ask,        \* ask[t]: the request in the URL of an authorize page
    form,       \* form[t]: the client named in the consent form
    pc,         \* pc[t]: the next store call of the request of t
    user,       \* user[t]: the user who logs in
    sid,        \* sid[t]: the session id of the request's context
    copy,       \* copy[t]: the handler's userSession
    visits,
    factors,    \* the authentications that took place
    accepted,   \* what the user accepted: [scopes, audience]
    answer      \* answer[t]: the last authorize response sent to t, or Nil

vars == <<store, cookie, now, page, ask, form, pc, user, sid, copy, visits,
          factors, accepted, answer>>

Clients == DOMAIN ClientPolicy

NotAuthenticated == 0
OneFactor        == 1
TwoFactor        == 2

ASSUME OIDCAssumption ==
    /\ NoUser \notin Users
    /\ NoId \notin SessionIds
    /\ \A c \in Clients : ClientPolicy[c] \in {OneFactor, TwoFactor}
    /\ \A a \in Asks : a.client \in Clients
    /\ MaxTime \in Nat \ {0} /\ MaxVisits \in Nat

\* The ask stands for ClientID, RequestedScopes, RequestedAudience, AuthURI,
\* TargetURI and RequiredAuthorizationLevel, which all come from it.
Workflows ==
    [ask             : Asks,
     grantedScopes   : {{}} \cup {a.scopes : a \in Asks},
     grantedAudience : {{}} \cup {a.audience : a \in Asks},
     created         : 1..MaxTime]

\* A timestamp that was never set is 0, and the clock starts at 1.
Sessions ==
    [username : Users \cup {NoUser},
     level    : NotAuthenticated..TwoFactor,
     first    : 0..MaxTime,     \* FirstFactorAuthnTimestamp
     second   : 0..MaxTime,     \* SecondFactorAuthnTimestamp
     workflow : Workflows \cup {Nil}]

\* Absent stands for a key the store does not have.
ASSUME AbsentIsNoSession == Absent \notin Sessions

Answers ==
    [subject : Users \cup {NoUser}, ask : Asks, authTime : 0..MaxTime]

Pages == {"login", "portal", "authorize", "consent", "form", "done", "closed"}

Steps == {"idle", "reset", "regenerate1", "regenerate2", "save1", "save2",
          "respond", "start", "grant", "accept", "reject"}

TypeOK ==
    /\ store \in [SessionIds -> Sessions \cup {Absent}]
    /\ cookie \in SessionIds \cup {NoId}
    /\ now \in 1..MaxTime
    /\ page \in [Tabs -> Pages]
    /\ ask \in [Tabs -> Asks \cup {Nil}]
    /\ form \in [Tabs -> Clients \cup {Nil}]
    /\ pc \in [Tabs -> Steps]
    /\ user \in [Tabs -> Users \cup {NoUser}]
    /\ sid \in [Tabs -> SessionIds \cup {NoId}]
    /\ copy \in [Tabs -> Sessions]
    /\ visits \in 0..MaxVisits
    /\ factors \subseteq [user : Users, level : {OneFactor, TwoFactor},
                          time : 1..MaxTime]
    /\ accepted \subseteq {[scopes |-> a.scopes, audience |-> a.audience] :
                              a \in Asks}
    /\ answer \in [Tabs -> Answers \cup {Nil}]

-----------------------------------------------------------------------------
(***************************************************************************)
(* Sessions.                                                               *)
(***************************************************************************)

NewDefaultUserSession ==
    [username |-> NoUser, level |-> NotAuthenticated, first |-> 0, second |-> 0,
     workflow |-> Nil]

SetOneFactor(s, u, t) ==
    [s EXCEPT !.username = u, !.level = OneFactor, !.first = t]

\* Mutant: the instant of the second factor is not recorded.
SetTwoFactorUndated(s, t) == [s EXCEPT !.level = TwoFactor]

SetTwoFactor(s, t) == [s EXCEPT !.level = TwoFactor, !.second = t]

AuthenticatedTime(s, level) == IF level = OneFactor THEN s.first ELSE s.second

\* client.IsAuthenticationLevelSufficient.
IsAuthLevelSufficient(s, a) == s.level >= ClientPolicy[a.client]

\* Ids that no request and no cookie has.
Fresh == {id \in SessionIds : cookie # id /\ \A t \in Tabs : sid[t] # id}

GetSession(id) ==
    IF id = NoId \/ store[id] = Absent THEN NewDefaultUserSession ELSE store[id]

\* A context without a cookie gets a new id.
SaveIds(t) == IF sid[t] = NoId THEN Fresh ELSE {sid[t]}

SaveSession(id, s) == [store EXCEPT ![id] = s]

\* Mutant: the id stays.
RegenerateSessionKeepsId(t) == UNCHANGED <<store, sid>>

RegenerateSession(t) ==
    \E id \in Fresh :
        /\ store' = [store EXCEPT ![id] = store[sid[t]], ![sid[t]] = Absent]
        /\ sid' = [sid EXCEPT ![t] = id]

\* Mutant: the audience is not compared.
isConsentMissingScopesOnly(w, a) ==
    w = Nil \/ (a.scopes # {} /\ a.scopes # w.grantedScopes)

isConsentMissing(w, a) ==
    \/ w = Nil
    \/ a.scopes # {} /\ a.scopes # w.grantedScopes
    \/ a.audience # {} /\ a.audience # w.grantedAudience

-----------------------------------------------------------------------------
(***************************************************************************)
(* Requests.  The first step of a handler gets the session of the cookie;  *)
(* the answer of its last step sets the cookie and moves the tab on.       *)
(***************************************************************************)

Begin(t, s, next) ==
    /\ sid' = [sid EXCEPT ![t] = cookie]
    /\ copy' = [copy EXCEPT ![t] = s]
    /\ pc' = [pc EXCEPT ![t] = next]

Show(t, p, a, c) ==
    /\ page' = [page EXCEPT ![t] = p]
    /\ ask' = [ask EXCEPT ![t] = a]
    /\ form' = [form EXCEPT ![t] = c]

\* The request ends: the browser keeps the id, the tab shows the page p, and
\* what the request had is forgotten, with the sessions nobody has the id of.
Answer(t, id, st, p, a) ==
    /\ store' = [i \in SessionIds |->
                   IF i = id \/ \E q \in Tabs \ {t} : sid[q] = i THEN st[i]
                                                             ELSE Absent]
    /\ cookie' = id
    /\ Show(t, p, a, Nil)
    /\ pc' = [pc EXCEPT ![t] = "idle"]
    /\ sid' = [sid EXCEPT ![t] = NoId]
    /\ copy' = [copy EXCEPT ![t] = NewDefaultUserSession]
    /\ user' = [user EXCEPT ![t] = NoUser]

Init ==
    /\ store = [id \in SessionIds |-> Absent]
    /\ cookie = NoId
    /\ now = 1
    /\ page = [t \in Tabs |-> "closed"]
    /\ ask = [t \in Tabs |-> Nil]
    /\ form = [t \in Tabs |-> Nil]
    /\ pc = [t \in Tabs |-> "idle"]
    /\ user = [t \in Tabs |-> NoUser]
    /\ sid = [t \in Tabs |-> NoId]
    /\ copy = [t \in Tabs |-> NewDefaultUserSession]
    /\ visits = 0
    /\ factors = {}
    /\ accepted = {}
    /\ answer = [t \in Tabs |-> Nil]

\* The user opens the portal, the consent page, or a link of a client.
Visit(t, p, a) ==
    /\ pc[t] = "idle" /\ visits < MaxVisits
    /\ visits' = visits + 1
    /\ Show(t, p, a, Nil)
    /\ UNCHANGED <<store, cookie, now, pc, user, sid, copy, factors, accepted,
                   answer>>

oidcAuthorize(t) ==
    LET s == GetSession(cookie) IN
    /\ pc[t] = "idle" /\ page[t] = "authorize"
    /\ Begin(t, s, IF \/ ~IsAuthLevelSufficient(s, ask[t])
                      \/ isConsentMissing(s.workflow, ask[t])
                   THEN "start" ELSE "grant")
    /\ UNCHANGED <<store, cookie, now, page, ask, form, user, visits, factors,
                   accepted, answer>>

\* A workflow is started, and the user sent to the portal or to consent.
HandleAuthorizationOrConsentInsufficient(t) ==
    /\ pc[t] = "start"
    /\ LET s == [copy[t] EXCEPT !.workflow =
                   [ask |-> ask[t], grantedScopes |-> {},
                    grantedAudience |-> {}, created |-> now]]
       IN \E id \in SaveIds(t) :
             Answer(t, id, SaveSession(id, s),
                    IF IsAuthLevelSufficient(s, ask[t]) THEN "consent"
                                                        ELSE "portal", Nil)
    /\ UNCHANGED <<now, visits, factors, accepted, answer>>

\* Everything the client asked for is granted, and the workflow ends.
oidcGrantRequests(t) ==
    /\ pc[t] = "grant"
    /\ LET s == [copy[t] EXCEPT !.workflow = Nil]
       IN \E id \in SaveIds(t) : Answer(t, id, SaveSession(id, s), "done", Nil)
    /\ answer' = [answer EXCEPT ![t] =
                     [subject |-> copy[t].username, ask |-> ask[t],
                      authTime |-> AuthenticatedTime(copy[t],
                                       ClientPolicy[ask[t].client])]]
    /\ UNCHANGED <<now, visits, factors, accepted>>

\* The guards of oidcConsent and oidcConsentPOST.
MayConsent(s) ==
    s.workflow # Nil /\ IsAuthLevelSufficient(s, s.workflow.ask)

oidcConsent(t) ==
    LET s == GetSession(cookie) IN
    /\ pc[t] = "idle" /\ page[t] = "consent"
    /\ IF MayConsent(s) THEN Show(t, "form", Nil, s.workflow.ask.client)
                        ELSE Show(t, "closed", Nil, Nil)
    /\ UNCHANGED <<store, cookie, now, pc, user, sid, copy, visits, factors,
                   accepted, answer>>

\* The form carries the verb and the client, which must be the workflow's.
oidcConsentPOST(t) ==
    LET s == GetSession(cookie) IN
    /\ pc[t] = "idle" /\ page[t] = "form"
    /\ \/ /\ MayConsent(s) /\ s.workflow.ask.client = form[t]
          /\ \E verb \in {"accept", "reject"} : Begin(t, s, verb)
          /\ UNCHANGED <<page, ask, form>>
       \/ /\ ~(MayConsent(s) /\ s.workflow.ask.client = form[t])
          /\ Show(t, "closed", Nil, Nil)
          /\ UNCHANGED <<pc, sid, copy>>
    /\ UNCHANGED <<store, cookie, now, user, visits, factors, accepted, answer>>

\* Mutant: the audience is not granted.
AcceptScopes(t) ==
    LET w == copy[t].workflow
        s == [copy[t] EXCEPT !.workflow.grantedScopes = w.ask.scopes]
    IN
    /\ pc[t] = "accept"
    /\ \E id \in SaveIds(t) :
          Answer(t, id, SaveSession(id, s), "authorize", w.ask)
    /\ accepted' = accepted \cup {[scopes |-> w.ask.scopes,
                                   audience |-> w.ask.audience]}
    /\ UNCHANGED <<now, visits, factors, answer>>

Accept(t) ==
    LET w == copy[t].workflow
        s == [copy[t] EXCEPT !.workflow.grantedScopes = w.ask.scopes,
                             !.workflow.grantedAudience = w.ask.audience]
    IN
    /\ pc[t] = "accept"
    /\ \E id \in SaveIds(t) :
          Answer(t, id, SaveSession(id, s), "authorize", w.ask)
    /\ accepted' = accepted \cup {[scopes |-> w.ask.scopes,
                                   audience |-> w.ask.audience]}
    /\ UNCHANGED <<now, visits, factors, answer>>

Reject(t) ==
    /\ pc[t] = "reject"
    /\ LET s == [copy[t] EXCEPT !.workflow = Nil]
       IN \E id \in SaveIds(t) : Answer(t, id, SaveSession(id, s), "closed", Nil)
    /\ UNCHANGED <<now, visits, factors, accepted, answer>>

\* The credentials of u are right (Regulation and UserSessions have the rest).
FirstFactorPost(t, u) ==
    /\ pc[t] = "idle" /\ page[t] \in {"login", "portal"}
    /\ page[t] = "login" \/ GetSession(cookie).level = NotAuthenticated
    /\ Begin(t, GetSession(cookie), "reset")
    /\ user' = [user EXCEPT ![t] = u]
    /\ UNCHANGED <<store, cookie, now, page, ask, form, visits, factors, accepted,
                   answer>>

\* All but the workflow is reset before the cookie is regenerated.
Reset(t) ==
    /\ pc[t] = "reset"
    /\ \E id \in SaveIds(t) :
          /\ store' = SaveSession(id, [NewDefaultUserSession EXCEPT
                                         !.workflow = copy[t].workflow])
          /\ sid' = [sid EXCEPT ![t] = id]
    /\ pc' = [pc EXCEPT ![t] = "regenerate1"]
    /\ UNCHANGED <<cookie, now, page, ask, form, user, copy, visits, factors,
                   accepted, answer>>

\* Any of the second factor handlers, behind RequireFirstFactor.
SecondFactorPost(t) ==
    /\ pc[t] = "idle" /\ page[t] \in {"login", "portal"}
    /\ GetSession(cookie).level >= OneFactor
    /\ Begin(t, GetSession(cookie), "regenerate2")
    /\ UNCHANGED <<store, cookie, now, page, ask, form, user, visits, factors,
                   accepted, answer>>

Regenerate(t) ==
    /\ pc[t] \in {"regenerate1", "regenerate2"}
    /\ RegenerateSession(t)
    /\ pc' = [pc EXCEPT ![t] = IF @ = "regenerate1" THEN "save1" ELSE "save2"]
    /\ UNCHANGED <<cookie, now, page, ask, form, user, copy, visits, factors,
                   accepted, answer>>

\* The session the handler got is saved under the new id, with the factor.
SaveFactor(t) ==
    /\ pc[t] \in {"save1", "save2"}
    /\ LET s == IF pc[t] = "save1" THEN SetOneFactor(copy[t], user[t], now)
                                   ELSE SetTwoFactor(copy[t], now)
       IN /\ factors' = factors \cup
                {[user |-> s.username, level |-> s.level, time |-> now]}
          /\ IF s.workflow = Nil
             THEN Answer(t, sid[t], SaveSession(sid[t], s), "closed", Nil)
             ELSE /\ store' = SaveSession(sid[t], s)
                  /\ pc' = [pc EXCEPT ![t] = "respond"]
                  /\ copy' = [copy EXCEPT ![t] = s]
                  /\ UNCHANGED <<cookie, page, ask, form, sid, user>>
    /\ UNCHANGED <<now, visits, accepted, answer>>

\* The session is read again; its workflow is dereferenced unchecked.
handleOIDCWorkflowResponse(t) ==
    /\ pc[t] = "respond"
    /\ LET s == GetSession(sid[t])
           w == s.workflow
       IN /\ w # Nil
          /\ \/ /\ ~IsAuthLevelSufficient(s, w.ask)
                /\ Answer(t, sid[t], store, "portal", Nil)
             \/ /\ IsAuthLevelSufficient(s, w.ask)
                /\ isConsentMissing(w, w.ask)
                /\ Answer(t, sid[t], store, "consent", Nil)
             \/ /\ IsAuthLevelSufficient(s, w.ask)
                /\ ~isConsentMissing(w, w.ask)
                /\ Answer(t, sid[t], store, "authorize", w.ask)
    /\ UNCHANGED <<now, visits, factors, accepted, answer>>

LogoutPost(t) ==
    /\ pc[t] = "idle" /\ cookie # NoId /\ visits < MaxVisits
    /\ visits' = visits + 1
    /\ store' = [store EXCEPT ![cookie] = Absent]
    /\ cookie' = NoId
    /\ Show(t, "closed", Nil, Nil)
    /\ UNCHANGED <<now, pc, user, sid, copy, factors, accepted, answer>>

\* A call fails, or an authorization request is refused by the library, and the
\* answer is an error; the cookie is that of the context if it was set before.
Fail(t) ==
    /\ pc[t] # "idle" \/ page[t] = "authorize"
    /\ \E id \in IF sid[t] = NoId THEN {cookie} ELSE {cookie, sid[t]} :
          Answer(t, id, store, "closed", Nil)
    /\ UNCHANGED <<now, visits, factors, accepted, answer>>

Tick ==
    /\ now < MaxTime
    /\ now' = now + 1
    /\ UNCHANGED <<store, cookie, page, ask, form, pc, user, sid, copy, visits,
                   factors, accepted, answer>>

\* The steps a tab takes once the user does what its page asks for.
Follow(t) ==
    \/ oidcAuthorize(t)
    \/ HandleAuthorizationOrConsentInsufficient(t)
    \/ oidcGrantRequests(t)
    \/ oidcConsent(t)
    \/ oidcConsentPOST(t)
    \/ Accept(t)
    \/ Reject(t)
    \/ \E u \in Users : FirstFactorPost(t, u)
    \/ Reset(t)
    \/ SecondFactorPost(t)
    \/ Regenerate(t)
    \/ SaveFactor(t)
    \/ handleOIDCWorkflowResponse(t)

Next ==
    \/ \E t \in Tabs :
          \/ \E a \in Asks : Visit(t, "authorize", a)
          \/ \E p \in {"login", "consent"} : Visit(t, p, Nil)
          \/ Follow(t)
          \/ LogoutPost(t)
          \/ Fail(t)
    \/ Tick

Spec == Init /\ [][Next]_vars

\* Every request is answered, and the user goes on with the page it leads to.
FollowSpec == Spec /\ \A t \in Tabs : WF_vars(Follow(t))

-----------------------------------------------------------------------------
(***************************************************************************)
(* Properties.                                                             *)
(***************************************************************************)

\* Scopes and audience are granted only after the user accepted them together
\* on a consent form of this browser: oidcAuthorize answers with what a client
\* asks for only when the workflow of the session holds the same grant.
AnswersConsented ==
    \A t \in Tabs :
        answer[t] # Nil =>
            LET a == answer[t].ask IN
            a.scopes # {} \/ a.audience # {} =>
                \E g \in accepted :
                    /\ a.scopes # {} => g.scopes = a.scopes
                    /\ a.audience # {} => g.audience = a.audience

\* The subject of an answer went through the factor the client's policy asks
\* for, at the instant in the auth_time claim (AuthenticatedTime).
AuthTimeOfSubject ==
    \A t \in Tabs :
        answer[t] # Nil =>
            [user |-> answer[t].subject,
             level |-> ClientPolicy[answer[t].ask.client],
             time |-> answer[t].authTime] \in factors

\* The workflow a login handler found in its copy of the session is still
\* there when handleOIDCWorkflowResponse gets the session again: nobody else
\* has the new id yet.
WorkflowStillThere ==
    \A t \in Tabs :
        pc[t] = "respond" => GetSession(sid[t]).workflow = copy[t].workflow

\* In a browser with one tab, a user who follows the redirects, logs in and
\* answers the form gets to the end of the workflow: authorize, portal, consent
\* and authorize again do not send the user round in circles.
WorkflowEnds ==
    \A t \in Tabs :
        page[t] = "authorize" ~> page[t] \in {"done", "closed", "login"}
=============================================================================
