------------------------------- MODULE Portal -------------------------------
(***************************************************************************)
(* The way of a user through the login portal and back to the page that    *)
(* the proxy protects: the React application (web/src/views/LoginPortal)   *)
(* in the browser, the handlers it calls, and VerifyGet, which the proxy   *)
(* asks.                                                                   *)
(*                                                                         *)
(* One tab of one browser.  Its calls are asynchronous: each carries the   *)
(* cookie it was sent with, is handled at some time, and its answer, which *)
(* may replace the cookie, comes back in any order.  A handler is one step *)
(* here, except that of Duo, which reads the session before a person       *)
(* answers and writes it afterwards (UserSessions has the others).         *)
(*                                                                         *)
(* The user has registered a device for every method, and knows the        *)
(* password.                                                               *)
(***************************************************************************)
EXTENDS AccessControl

CONSTANTS
    Configs,        \* the access control configurations considered
    User,           \* the subject of the user once logged in
    Objects,        \* what the user visits
    Elsewhere,      \* an object outside of the protected domain
    None,           \* no URL, no method, no cookie; not fetched yet
    Ids,            \* session ids (bound: how many are in use at a time)
    MaxCalls,       \* bound: calls of one kind in flight
    MaxFailures,    \* bound: calls that fail and sessions that end
    MaxMoves        \* bound: what the user does beyond signing in

Methods == {"totp", "u2f", "mobile_push"}

VARIABLES
    config,         \* the access control configuration of this deployment
    home,           \* default_redirection_url, or None
    forwards,       \* the proxy sends X-Forwarded-Method
    store,          \* store[id]: the authentication level of the session
    preferred,      \* the method kept in the database
    cookie,         \* the cookie of the browser
    page,           \* what the browser shows
    target,         \* the object that is requested or shown, and in the portal
                    \* what rd and rm say
    promised,       \* the server sent the browser to target, and the session
                    \* is as it was then
    portal,         \* the state of the React components
    calls,          \* calls in flight
    failures, ends, moves

deployment == <<config, home, forwards>>
bounds == <<failures, ends, moves>>
vars == <<deployment, store, preferred, cookie, page, target, promised, portal,
          calls, bounds>>

Pages == {"blank", "requested", "resource", "forbidden", "portal", "signout"}
Routes == {"/", "authenticated"} \cup Methods

\* What rd can be: the method of the request (rm) is not always told.
Targets ==
    {[o EXCEPT !.method = m] : o \in Objects \cup {Elsewhere}, m \in {"GET", "POST", None}}

\* state, userInfo and configuration are what useRemoteCall holds, disabled is
\* firstFactorDisabled and sign the progress of the second factor component.
NewPortal ==
    [route |-> "/", state |-> None, userInfo |-> None, configuration |-> None,
     disabled |-> TRUE, sign |-> "idle"]

\* touch and pause are not calls of the server: u2fApi.sign, and the timeout of
\* PushNotificationMethod.
Kinds == {"state", "userInfo", "configuration", "firstFactor", "preference",
          "totp", "signRequest", "touch", "u2f", "mobile_push", "pause", "logout"}

OfMethod(kind) ==
    kind \in {"totp", "signRequest", "touch", "u2f", "mobile_push", "pause"}

LevelOf(c) == IF c = None THEN 0 ELSE store[c]

Anonymous == [User EXCEPT !.username = NoUser, !.groups = {}]

TypeOK ==
    /\ config \in Configs
    /\ home \in Objects \cup {None}
    /\ forwards \in BOOLEAN
    /\ store \in [Ids -> 0..2]
    /\ preferred \in Methods
    /\ cookie \in Ids \cup {None}
    /\ page \in Pages
    /\ target \in Targets \cup {None}
    /\ promised \in BOOLEAN
    /\ portal.route \in Routes
    /\ portal.state \in (0..2) \cup {None}
    /\ portal.userInfo \in Methods \cup {None}
    /\ portal.configuration \in BOOLEAN \cup {None}
    /\ portal.disabled \in BOOLEAN
    /\ portal.sign \in {"idle", "progress", "success", "failure"}
    /\ \A c \in calls :
          /\ c.kind \in Kinds
          /\ c.stage \in {"sent", "held", "answered"}
          /\ {c.cookie, c.set} \subseteq Ids \cup {None}
          /\ {c.rd, c.redirect} \subseteq Targets \cup {None}
          /\ c.slot \in 1..MaxCalls
    /\ failures \in 0..MaxFailures
    /\ ends \in 0..MaxFailures
    /\ moves \in 0..MaxMoves

Init ==
    /\ config \in Configs
    /\ home \in {None, CHOOSE o \in Objects : o.method = "GET"}
    /\ forwards \in BOOLEAN
    /\ store = [id \in Ids |-> 0]
    /\ preferred \in Methods
    /\ cookie = None
    /\ page = "blank"
    /\ target = None
    /\ promised = FALSE
    /\ portal = NewPortal
    /\ calls = {}
    /\ failures = 0
    /\ ends = 0
    /\ moves = 0

-----------------------------------------------------------------------------
(***************************************************************************)
(* Calls.                                                                  *)
(***************************************************************************)

OfKind(cs, kind) == {c \in cs : c.kind = kind}

HasRoom(cs, kinds) == \A k \in kinds : Cardinality(OfKind(cs, k)) < MaxCalls

\* value is what is sent, and then what is answered; mounted: the component
\* that made the call is still there; app: so is its LoginPortal; orphan: the
\* page was left.
Call(cs, kind, value, ck) ==
    [kind |-> kind, value |-> value, rd |-> target, cookie |-> ck,
     mounted |-> TRUE, app |-> TRUE, orphan |-> FALSE, stage |-> "sent", ok |-> FALSE,
     redirect |-> None, set |-> None,
     slot |-> Min((1..MaxCalls) \ {c.slot : c \in OfKind(cs, kind)})]

Send(cs, kinds, ck) == cs \cup {Call(cs, k, None, ck) : k \in kinds}

Unmounted(cs) == {[c EXCEPT !.mounted = FALSE, !.app = FALSE] : c \in cs}

\* The browser drops the calls of a page that it leaves; those that have been
\* sent are handled nevertheless, and what they change matters.
Orphans(cs) ==
    {[c EXCEPT !.mounted = FALSE, !.app = FALSE, !.orphan = TRUE] :
        c \in {d \in cs : /\ d.stage # "answered"
                          /\ d.kind \in {"firstFactor", "preference", "totp", "u2f",
                                         "mobile_push", "logout"}}}

-----------------------------------------------------------------------------
(***************************************************************************)
(* The server.                                                             *)
(***************************************************************************)

\* ProtectedDomain is a suffix of the domains of Objects.
IsRedirectionSafe(o) == [o EXCEPT !.method = "GET"] # Elsewhere

\* Mutant: the level that rd requires is not asked for.
Handle1FARedirectsAlways(rd) ==
    IF rd = None \/ ~IsRedirectionSafe(rd)
    THEN IF IsSecondFactorEnabled(config) THEN None ELSE home
    ELSE rd

\* Where the browser goes after the first factor; None: the portal goes on.
Handle1FAResponse(rd) ==
    IF rd # None /\ GetRequiredLevel(config, User, rd) = TwoFactor THEN None
    ELSE IF rd = None \/ ~IsRedirectionSafe(rd)
         THEN IF IsSecondFactorEnabled(config) THEN None ELSE home
         ELSE rd

\* Mutant: rd may lead anywhere.
Handle2FAResponseAnywhere(rd) == IF rd = None THEN home ELSE rd

Handle2FAResponse(rd) ==
    IF rd = None THEN home ELSE IF IsRedirectionSafe(rd) THEN rd ELSE None

\* The handler is done with c; nobody waits for the answer to an orphan.
Answer(c, answered) ==
    calls' = (calls \ {c}) \cup (IF c.orphan THEN {} ELSE {answered})

Refuse(c) == Answer(c, [c EXCEPT !.stage = "answered", !.ok = FALSE])

Reply(c, value) ==
    Answer(c, [c EXCEPT !.stage = "answered", !.ok = TRUE, !.value = value])

\* The session of the browser is as it was.
Keep == promised' = (promised /\ (cookie = None \/ store'[cookie] = store[cookie]))

\* An id nobody has.
FreshId == CHOOSE id \in Ids : id \notin {cookie} \cup UNION {{c.cookie, c.set} : c \in calls}

\* RegenerateSession and SaveSession: the answer carries the new id.
Regenerate(c, level, redirect) ==
    /\ \E id \in Ids : id \notin {cookie} \cup UNION {{d.cookie, d.set} : d \in calls}
    /\ store' = [id \in Ids |-> IF id = c.cookie THEN 0
                                ELSE IF id = FreshId /\ ~c.orphan THEN level
                                ELSE store[id]]
    /\ Answer(c, [c EXCEPT !.stage = "answered", !.ok = TRUE, !.set = FreshId,
                           !.redirect = redirect])
    /\ Keep

Handling(c, kind) == c.kind = kind /\ c.stage = "sent"

RequireFirstFactor(c) == LevelOf(c.cookie) >= OneFactor

StateGet(c) ==
    /\ Handling(c, "state")
    /\ Reply(c, LevelOf(c.cookie))
    /\ UNCHANGED <<store, preferred, promised>>

UserInfoGet(c) ==
    /\ Handling(c, "userInfo")
    /\ IF RequireFirstFactor(c) THEN Reply(c, preferred) ELSE Refuse(c)
    /\ UNCHANGED <<store, preferred, promised>>

\* Mutant: the default policy is forgotten.
ConfigurationGetByRule(c) ==
    /\ Handling(c, "configuration")
    /\ IF RequireFirstFactor(c)
       THEN Reply(c, \E i \in DOMAIN config.rules : config.rules[i].policy = "two_factor")
       ELSE Refuse(c)
    /\ UNCHANGED <<store, preferred, promised>>

ConfigurationGet(c) ==
    /\ Handling(c, "configuration")
    /\ IF RequireFirstFactor(c) THEN Reply(c, IsSecondFactorEnabled(config)) ELSE Refuse(c)
    /\ UNCHANGED <<store, preferred, promised>>

MethodPreferencePost(c) ==
    /\ Handling(c, "preference")
    /\ IF RequireFirstFactor(c)
       THEN preferred' = c.value /\ Reply(c, None)
       ELSE UNCHANGED preferred /\ Refuse(c)
    /\ UNCHANGED <<store, promised>>

\* value: the password is right.
FirstFactorPost(c) ==
    /\ Handling(c, "firstFactor")
    /\ IF c.value THEN Regenerate(c, OneFactor, Handle1FAResponse(c.rd))
       ELSE Refuse(c) /\ UNCHANGED <<store, promised>>
    /\ UNCHANGED preferred

\* value: the passcode is right.
SecondFactorTOTPPost(c) ==
    /\ Handling(c, "totp")
    /\ IF RequireFirstFactor(c) /\ c.value
       THEN Regenerate(c, TwoFactor, Handle2FAResponse(c.rd))
       ELSE Refuse(c) /\ UNCHANGED <<store, promised>>
    /\ UNCHANGED preferred

SecondFactorU2FSignGet(c) ==
    /\ Handling(c, "signRequest")
    /\ IF RequireFirstFactor(c) THEN Reply(c, None) ELSE Refuse(c)
    /\ UNCHANGED <<store, preferred, promised>>

SecondFactorU2FSignPost(c) ==
    /\ Handling(c, "u2f")
    /\ IF RequireFirstFactor(c)
       THEN Regenerate(c, TwoFactor, Handle2FAResponse(c.rd))
       ELSE Refuse(c) /\ UNCHANGED <<store, promised>>
    /\ UNCHANGED preferred

\* SecondFactorDuoPost asks Duo, which asks the user ...
SecondFactorDuoPost(c) ==
    /\ Handling(c, "mobile_push")
    /\ IF RequireFirstFactor(c)
       THEN calls' = (calls \ {c}) \cup {[c EXCEPT !.stage = "held"]}
       ELSE Refuse(c)
    /\ UNCHANGED <<store, preferred, promised>>

\* ... and writes the session it had read, whatever became of it.
DuoAllows(c) ==
    /\ c.kind = "mobile_push" /\ c.stage = "held"
    /\ Regenerate(c, TwoFactor, Handle2FAResponse(c.rd))
    /\ UNCHANGED preferred

\* redirect: safeTargetURL.
LogoutPost(c) ==
    /\ Handling(c, "logout")
    /\ store' = [id \in Ids |-> IF id = c.cookie THEN 0 ELSE store[id]]
    /\ Answer(c, [c EXCEPT !.stage = "answered", !.ok = TRUE,
                           !.redirect = IF c.rd # None /\ IsRedirectionSafe(c.rd)
                                        THEN c.rd ELSE None])
    /\ Keep
    /\ UNCHANGED preferred

Handle(c) ==
    /\ \/ StateGet(c) \/ UserInfoGet(c) \/ ConfigurationGet(c)
       \/ MethodPreferencePost(c) \/ FirstFactorPost(c)
       \/ SecondFactorTOTPPost(c) \/ SecondFactorU2FSignGet(c)
       \/ SecondFactorU2FSignPost(c) \/ SecondFactorDuoPost(c) \/ LogoutPost(c)
    /\ UNCHANGED <<deployment, cookie, page, target, portal, bounds>>

-----------------------------------------------------------------------------
(***************************************************************************)
(* The proxy and VerifyGet.                                                *)
(***************************************************************************)

\* The object as the proxy presents it.
Presented(o) == [o EXCEPT !.method = IF forwards THEN @ ELSE None]

\* isTargetURLAuthorized.
Authorization(o) ==
    LET known == LevelOf(cookie) > 0
        level == GetRequiredLevel(config, IF known THEN User ELSE Anonymous, Presented(o))
    IN CASE level = Bypass -> "Authorized"
         [] level = Denied /\ known -> "Forbidden"
         [] level \in {OneFactor, TwoFactor} /\ LevelOf(cookie) >= level -> "Authorized"
         [] OTHER -> "NotAuthorized"

\* LoginPortal is mounted and asks for the state (first useEffect).
Mount(cs, route) ==
    /\ page' = "portal"
    /\ portal' = [NewPortal EXCEPT !.route = route]
    /\ HasRoom(cs, {"state"})
    /\ calls' = Send(cs, {"state"}, cookie')

\* The browser requests o: another page.
Request(o) ==
    /\ page' = "requested"
    /\ target' = [o EXCEPT !.method = "GET"]
    /\ portal' = NewPortal
    /\ calls' = Orphans(calls)

\* The proxy serves the page, refuses it, or sends the browser to the portal
\* with rd and, if it knows the method, rm.
VerifyGet ==
    /\ page = "requested"
    /\ CASE Authorization(target) = "Authorized" ->
              page' = "resource" /\ UNCHANGED <<target, portal, calls>>
         [] Authorization(target) = "Forbidden" ->
              page' = "forbidden" /\ UNCHANGED <<target, portal, calls>>
         [] OTHER ->
              /\ UNCHANGED cookie
              /\ Mount(calls, "/")
              /\ target' = Presented(target)
    /\ promised' = FALSE
    /\ UNCHANGED <<deployment, store, preferred, cookie, bounds>>

-----------------------------------------------------------------------------
(***************************************************************************)
(* The components of the portal.                                           *)
(***************************************************************************)

\* The stage the last useEffect of LoginPortal redirects to.
RouteOf(p) ==
    IF p.state = 0 THEN "/"
    ELSE IF p.state # None /\ p.userInfo # None /\ p.configuration # None
         THEN IF p.configuration THEN p.userInfo ELSE "authenticated"
         ELSE p.route

\* The second factor component that is mounted.
Shown(p) ==
    IF p.route \in Methods /\ None \notin {p.userInfo, p.configuration} /\ p.state # None
    THEN p.route ELSE None

\* What the component calls when it is mounted and when the level changes.
SignIn(m) ==
    CASE m = "u2f" -> {"signRequest"} [] m = "mobile_push" -> {"mobile_push"} [] OTHER -> {}

\* p has the data that a call of kind brought: the effects run, and another
\* component may be mounted.
Render(cs, p, kind) ==
    LET routed == [p EXCEPT !.route = RouteOf(p),
                            !.disabled = IF p.state = None THEN @ ELSE p.state # 0]
        other == Shown(routed) # Shown(portal)
        started == IF /\ Shown(routed) # None /\ p.state # TwoFactor
                      /\ other \/ p.state # portal.state
                   THEN SignIn(Shown(routed)) ELSE {}
        fetched == IF kind = "state" /\ p.state # 0
                   THEN {"userInfo", "configuration"} ELSE {}
        rest == IF other
                THEN {[c EXCEPT !.mounted = @ /\ ~OfMethod(c.kind)] : c \in cs}
                ELSE cs
    IN /\ portal' = [routed EXCEPT !.sign =
                        IF Shown(routed) = None THEN "idle"
                        ELSE IF p.state = TwoFactor THEN "success"
                        ELSE IF started # {} THEN "progress"
                        ELSE IF other THEN "idle" ELSE @]
       /\ target' = IF routed.route = "authenticated" THEN None ELSE target
       /\ HasRoom(rest, started \cup fetched)
       /\ calls' = Send(rest, started \cup fetched, cookie)

\* useRemoteCall: data sets the state of LoginPortal, an error only notifies.
Fetched(c) ==
    /\ c.kind \in {"state", "userInfo", "configuration"}
    /\ IF c.ok /\ c.mounted
       THEN Render(calls \ {c}, [portal EXCEPT ![c.kind] = c.value], c.kind)
       ELSE calls' = calls \ {c} /\ UNCHANGED <<portal, target>>
    /\ UNCHANGED <<cookie, page, promised>>

\* handleAuthSuccess goes where the server says, or fetches the state.
handleAuthSuccess(c, p) ==
    IF c.redirect # None
    THEN /\ Request(c.redirect)
         /\ promised' = IF c.kind = "firstFactor"
                        THEN /\ c.redirect = Presented([c.redirect EXCEPT !.method = "GET"])
                             /\ store[cookie'] = OneFactor
                        ELSE store[cookie'] = TwoFactor
    ELSE /\ portal' = p
         /\ HasRoom(calls \ {c}, {"state"})
         /\ calls' = IF c.app THEN Send(calls \ {c}, {"state"}, cookie')
                              ELSE calls \ {c}
         /\ UNCHANGED <<page, target, promised>>

\* The answer is an error, or nobody cares: p is what is shown.
Ignore(c, p) ==
    /\ portal' = p
    /\ calls' = calls \ {c}
    /\ UNCHANGED <<page, target, promised>>

\* The browser takes the cookie of the answer.
TakeCookie(c) == cookie' = IF c.set = None THEN cookie ELSE c.set

\* Mutant: the form stays disabled after a wrong password.
FirstFactorDoneKeepsForm(c) ==
    /\ c.kind = "firstFactor"
    /\ TakeCookie(c)
    /\ IF c.ok THEN handleAuthSuccess(c, portal) ELSE Ignore(c, portal)

\* FirstFactorForm.
FirstFactorDone(c) ==
    /\ c.kind = "firstFactor"
    /\ TakeCookie(c)
    /\ IF c.ok THEN handleAuthSuccess(c, portal)
       ELSE Ignore(c, [portal EXCEPT !.disabled = @ /\ ~c.mounted])

\* OneTimePasswordMethod does not ask whether it is still mounted.
TOTPDone(c) ==
    /\ c.kind = "totp"
    /\ TakeCookie(c)
    /\ LET p == [portal EXCEPT !.sign = IF ~c.mounted THEN @
                                        ELSE IF c.ok THEN "success" ELSE "failure"]
       IN IF c.ok THEN handleAuthSuccess(c, p) ELSE Ignore(c, p)

Failed(c) ==
    Ignore(c, IF c.mounted THEN [portal EXCEPT !.sign = "failure"] ELSE portal)

\* PushNotificationMethod shows the success for a while, if it is mounted.
PushDone(c) ==
    /\ c.kind = "mobile_push"
    /\ TakeCookie(c)
    /\ IF c.ok /\ c.mounted
       THEN /\ portal' = [portal EXCEPT !.sign = "success"]
            /\ HasRoom(calls, {"pause"})
            /\ calls' = (calls \ {c}) \cup
                        {[c EXCEPT !.kind = "pause",
                                   !.slot = Call(calls, "pause", None, None).slot]}
            /\ UNCHANGED <<page, target, promised>>
       ELSE Failed(c)

\* Mutant: nothing happens after the pause.
PauseOverUnheeded(c) ==
    c.kind = "pause" /\ UNCHANGED cookie /\ Ignore(c, portal)

PauseOver(c) ==
    /\ c.kind = "pause"
    /\ UNCHANGED cookie
    /\ IF c.mounted THEN handleAuthSuccess(c, portal) ELSE Ignore(c, portal)

\* SecurityKeyMethod waits for a touch of the key ...
SignRequestDone(c) ==
    /\ c.kind = "signRequest"
    /\ UNCHANGED cookie
    /\ IF c.ok
       THEN /\ HasRoom(calls, {"touch"})
            /\ calls' = (calls \ {c}) \cup
                        {[Call(calls, "touch", None, cookie) EXCEPT !.mounted = c.mounted,
                                                                    !.app = c.app]}
            /\ UNCHANGED <<page, target, promised, portal>>
       ELSE Failed(c)

\* ... after which it sends what the key signed, if it is mounted.
Touched(c) ==
    /\ c.kind = "touch"
    /\ UNCHANGED cookie
    /\ IF c.ok /\ c.mounted
       THEN /\ HasRoom(calls, {"u2f"})
            /\ calls' = Send(calls \ {c}, {"u2f"}, cookie)
            /\ UNCHANGED <<page, target, promised, portal>>
       ELSE Failed(c)

U2FDone(c) ==
    /\ c.kind = "u2f"
    /\ TakeCookie(c)
    /\ IF c.ok THEN handleAuthSuccess(c, portal) ELSE Failed(c)

\* handleMethodSelected: the preferences are fetched again.
PreferenceDone(c) ==
    /\ c.kind = "preference"
    /\ HasRoom(calls, {"userInfo"})
    /\ calls' = IF c.ok /\ c.app THEN Send(calls \ {c}, {"userInfo"}, cookie)
                                 ELSE calls \ {c}
    /\ UNCHANGED <<cookie, page, target, promised, portal>>

\* SignOut goes on to a safe rd or to the portal; after an error it stays.
SignOutDone(c) ==
    /\ c.kind = "logout"
    /\ UNCHANGED cookie
    /\ promised' = FALSE
    /\ IF ~c.ok THEN calls' = calls \ {c} /\ UNCHANGED <<page, target, portal>>
       ELSE IF c.redirect # None THEN Request(c.redirect)
       ELSE Mount(calls \ {c}, "/") /\ target' = None

Deliver(c) ==
    /\ c.stage = "answered"
    /\ \/ Fetched(c) \/ FirstFactorDone(c) \/ TOTPDone(c) \/ PushDone(c) \/ PauseOver(c)
       \/ SignRequestDone(c) \/ Touched(c) \/ U2FDone(c) \/ PreferenceDone(c)
       \/ SignOutDone(c)
    /\ UNCHANGED <<deployment, store, preferred, bounds>>

-----------------------------------------------------------------------------
(***************************************************************************)
(* The user.  Whatever is neither needed to sign in nor to recover from a  *)
(* failure is a move, of which there are MaxMoves.                         *)
(***************************************************************************)

Move == moves < MaxMoves /\ moves' = moves + 1

AtRest == page \in {"blank", "resource", "forbidden"}

\* What a step of the user in the portal leaves alone.
Stays == UNCHANGED <<deployment, store, preferred, cookie, failures, ends>>

Visit(o) ==
    /\ AtRest
    /\ IF page = "blank" THEN UNCHANGED moves ELSE Move
    /\ page' = "requested" /\ target' = o
    /\ promised' = FALSE
    /\ UNCHANGED <<portal, calls>>
    /\ Stays

\* The portal by its own address, with the rd of some link.
OpenPortal(rd) ==
    /\ AtRest /\ Move
    /\ UNCHANGED cookie
    /\ target' = rd
    /\ Mount(Orphans(calls), "/")
    /\ promised' = FALSE
    /\ Stays

\* SignOut, from the portal or from elsewhere with an rd.
SignOut(rd) ==
    /\ Move
    /\ \/ AtRest
       \/ /\ page = "portal" /\ rd = None
          /\ \/ Shown(portal) # None
             \/ portal.route = "authenticated" /\ portal.userInfo # None
    /\ HasRoom(calls, {"logout"})
    /\ page' = "signout" /\ target' = rd
    /\ portal' = NewPortal
    /\ calls' = Unmounted(calls) \cup {[Call(calls, "logout", None, cookie) EXCEPT !.rd = rd]}
    /\ promised' = FALSE
    /\ Stays

\* p is shown while a call of the kind is in flight.
Submit(kind, value, p) ==
    /\ HasRoom(calls, {kind})
    /\ calls' = calls \cup {Call(calls, kind, value, cookie)}
    /\ portal' = p
    /\ UNCHANGED <<page, target, promised>>
    /\ Stays

FormReady ==
    page = "portal" /\ portal.route = "/" /\ portal.state = 0 /\ ~portal.disabled

\* handleSignIn of FirstFactorForm.
HandleSignIn(right) ==
    /\ FormReady
    /\ IF right THEN UNCHANGED moves ELSE Move
    /\ Submit("firstFactor", right, [portal EXCEPT !.disabled = TRUE])

Signing(m) == page = "portal" /\ Shown(portal) = m /\ portal.state = OneFactor

\* signInFunc of OneTimePasswordMethod, once there are six digits.
EnterPasscode(right) ==
    /\ Signing("totp") /\ portal.sign \in {"idle", "failure"}
    /\ IF right THEN UNCHANGED moves ELSE Move
    /\ Submit("totp", right, [portal EXCEPT !.sign = "progress"])

\* The buttons that SecurityKeyMethod and PushNotificationMethod show.
RetrySignIn ==
    /\ portal.sign = "failure"
    /\ \E m \in {"u2f", "mobile_push"}, kind \in Kinds :
          /\ Signing(m) /\ kind \in SignIn(m)
          /\ Submit(kind, None, [portal EXCEPT !.sign = "progress"])
    /\ UNCHANGED moves

\* handleMethodSelected.
SelectMethod(m) ==
    /\ page = "portal" /\ Shown(portal) # None
    /\ Move
    /\ Submit("preference", m, portal)

\* The user touches the key, or the time is over.
Touch(c, ok) ==
    /\ c.kind = "touch" /\ c.stage = "sent"
    /\ IF ok THEN UNCHANGED moves ELSE Move
    /\ calls' = (calls \ {c}) \cup {[c EXCEPT !.stage = "answered", !.ok = ok]}
    /\ UNCHANGED <<page, target, promised, portal>>
    /\ Stays

\* The user answers on the phone.
AnswerPush(c, allow) ==
    /\ IF allow THEN DuoAllows(c) /\ UNCHANGED moves
       ELSE /\ c.kind = "mobile_push" /\ c.stage = "held"
            /\ Refuse(c) /\ Move
            /\ UNCHANGED <<store, preferred, promised>>
    /\ UNCHANGED <<deployment, cookie, page, target, portal, failures, ends>>

\* The portal has nothing more to offer: the user goes on to a page.
Finished ==
    /\ page = "portal" /\ calls = {}
    /\ portal.route = "authenticated" \/ portal.state = TwoFactor

GoOn(o) ==
    /\ Finished /\ o.method = "GET"
    /\ Request(o)
    /\ promised' = FALSE
    /\ UNCHANGED moves
    /\ Stays

Reload ==
    /\ UNCHANGED cookie
    /\ \/ page = "portal" /\ Mount(Orphans(calls), portal.route)
       \/ /\ page = "signout"
          /\ HasRoom(Orphans(calls), {"logout"})
          /\ calls' = Send(Orphans(calls), {"logout"}, cookie)
          /\ UNCHANGED <<page, portal>>
    /\ UNCHANGED <<target, promised>>
    /\ Stays

\* After a failure, or a move such as to reload the portal while a passcode is
\* checked, nothing happens any more, or every attempt fails.
Stuck ==
    /\ failures + ends + moves > 0
    /\ calls = {}
    /\ ~FormReady /\ ~Finished
    /\ ~(Signing("totp") /\ portal.sign = "idle")

-----------------------------------------------------------------------------
(***************************************************************************)
(* Failures.                                                               *)
(***************************************************************************)

\* The call is lost, before or after the handler has done its work; a cookie
\* in the answer is lost with it.  A handler that waits for Duo goes on.
Fail(c) ==
    /\ failures + ends < MaxFailures /\ failures' = failures + 1
    /\ c.kind \notin {"touch", "pause"} /\ ~c.orphan
    /\ c.stage = "answered" => c.ok
    /\ calls' = (calls \ {c})
                \cup {[c EXCEPT !.stage = "answered", !.ok = FALSE,
                                !.redirect = None, !.set = None]}
                \cup (IF c.stage = "held" THEN Orphans({c}) ELSE {})
    /\ UNCHANGED <<deployment, store, preferred, cookie, page, target, promised, portal,
                   ends, moves>>

\* The session expires, or the server forgets it.
End(id) ==
    /\ failures + ends < MaxFailures /\ ends' = ends + 1
    /\ store[id] # 0
    /\ store' = [store EXCEPT ![id] = 0]
    /\ Keep
    /\ UNCHANGED <<deployment, preferred, cookie, page, target, portal, calls, failures,
                   moves>>

-----------------------------------------------------------------------------

Serve == VerifyGet \/ \E c \in calls : Handle(c)

Attend ==
    \/ HandleSignIn(TRUE) \/ EnterPasscode(TRUE) \/ RetrySignIn
    \/ \E o \in Objects : GoOn(o)

Wander ==
    \/ \E o \in Objects : Visit(o)
    \/ \E rd \in Objects \cup {Elsewhere, None} : OpenPortal(rd) \/ SignOut(rd)
    \/ HandleSignIn(FALSE) \/ EnterPasscode(FALSE)
    \/ \E m \in Methods : SelectMethod(m)
    \/ \E c \in calls : Touch(c, FALSE) \/ AnswerPush(c, FALSE)
    \/ Move /\ Reload

Recover == Stuck /\ Reload /\ UNCHANGED moves

Next ==
    \/ Serve
    \/ \E c \in calls : Deliver(c) \/ Fail(c)
    \/ \E c \in calls : Touch(c, TRUE) \/ AnswerPush(c, TRUE)
    \/ Attend \/ Wander \/ Recover
    \/ \E id \in Ids : End(id)

Spec == Init /\ [][Next]_vars

\* Every call is handled and answered, the user does what the portal asks for
\* and reloads it when it is stuck.
FairSpec ==
    /\ Spec
    /\ WF_vars(VerifyGet)
    /\ \A k \in Kinds, n \in 1..MaxCalls :
          /\ WF_vars(\E c \in OfKind(calls, k) : c.slot = n /\ Handle(c))
          /\ WF_vars(\E c \in OfKind(calls, k) : c.slot = n /\ Deliver(c))
    /\ WF_vars(\E c \in calls : Touch(c, TRUE))
    /\ WF_vars(\E c \in calls : AnswerPush(c, TRUE))
    /\ WF_vars(Attend)
    /\ SF_vars(Recover)

-----------------------------------------------------------------------------
(***************************************************************************)
(* Properties.                                                             *)
(***************************************************************************)

\* A redirection that Handle1FAResponse or Handle2FAResponse answers leads to a
\* page that VerifyGet lets the user see or forbids for good: the browser is
\* not sent back to the portal unless the session has changed.
RedirectIsHonoured ==
    page = "requested" /\ promised => Authorization(target) # "NotAuthorized"

\* Only redirections to the protected domain are followed, whatever rd says.
RedirectIsSafe == page = "requested" => IsRedirectionSafe(target)

\* LoginPortal says that the user is authenticated, and offers no second
\* factor, only if no page asks this user for one.
AuthenticatedIsEnough ==
    page = "portal" /\ portal.route = "authenticated" =>
        \A o \in Objects : GetRequiredLevel(config, User, o) # TwoFactor

\* The form of the first factor is disabled only as long as an answer is
\* awaited, unless a call has failed.
FormIsUsable ==
    page = "portal" /\ portal.state = 0 /\ portal.disabled =>
        failures > 0 \/ \E c \in calls : c.kind \in {"firstFactor", "state"} /\ c.mounted

\* What is open to anybody is open to the user who has logged in.
BypassIsForEveryone ==
    \A o \in Objects : GetRequiredLevel(config, Anonymous, o) = Bypass =>
                       GetRequiredLevel(config, User, o) = Bypass

\* Who requests a page sees a page in the end, or that it is forbidden.
RequestIsServed == page = "requested" ~> page \in {"resource", "forbidden"}
=============================================================================
