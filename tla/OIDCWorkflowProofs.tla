------------------------- MODULE OIDCWorkflowProofs -------------------------
(***************************************************************************)
(* Proofs about OIDCWorkflow, for any users, clients, requests, session    *)
(* ids and tabs, and any bounds on the clock and on the visits.            *)
(***************************************************************************)
EXTENDS OIDCWorkflow, TLAPS

-----------------------------------------------------------------------------
(***************************************************************************)
(* The inductive invariant.                                                *)
(***************************************************************************)

\* The factors a session claims are among F, at the instants it holds.
Dated(s, F) ==
    /\ s.level >= OneFactor =>
          [user |-> s.username, level |-> OneFactor, time |-> s.first] \in F
    /\ s.level = TwoFactor =>
          [user |-> s.username, level |-> TwoFactor, time |-> s.second] \in F

\* A workflow holds no grant or one of A.
Granted(w, A) ==
    w # Nil =>
        \/ w.grantedScopes = {} /\ w.grantedAudience = {}
        \/ [scopes |-> w.grantedScopes, audience |-> w.grantedAudience] \in A

\* What a asks for is in one of the grants A.
Consented(a, A) ==
    a.scopes # {} \/ a.audience # {} =>
        \E g \in A : /\ a.scopes # {} => g.scopes = a.scopes
                     /\ a.audience # {} => g.audience = a.audience

Earned(s, F, A) == Dated(s, F) /\ Granted(s.workflow, A)

\* What the store and the handlers hold was earned.
SessionsEarned ==
    /\ \A id \in SessionIds : store[id] # Absent => Earned(store[id], factors, accepted)
    /\ \A t \in Tabs : Earned(copy[t], factors, accepted)

\* What a handler has checked of its request and its copy before it goes on.
Checked(t) ==
    /\ page[t] = "authorize" \/ pc[t] \in {"start", "grant"} => ask[t] \in Asks
    /\ pc[t] = "grant" =>
          /\ IsAuthLevelSufficient(copy[t], ask[t])
          /\ ~isConsentMissing(copy[t].workflow, ask[t])
    /\ pc[t] \in {"accept", "respond"} => copy[t].workflow # Nil
    /\ pc[t] \in {"reset", "regenerate1", "save1"} => user[t] \in Users
    /\ pc[t] \in {"regenerate2", "save2"} => copy[t].level >= OneFactor
    /\ pc[t] \in {"regenerate1", "regenerate2", "save1", "save2", "respond"} =>
          sid[t] # NoId

\* The steps at which a request has a regenerated id, ...
Regenerated == {"save1", "save2", "respond"}

\* ... which neither the browser nor another request knows yet.
Unshared(t) == cookie # sid[t] /\ \A q \in Tabs \ {t} : sid[q] # sid[t]

RequestsChecked == \A t \in Tabs : Checked(t)

IdsUnshared == \A t \in Tabs : pc[t] \in Regenerated => Unshared(t)

SavedIsCopy == \A t \in Tabs : pc[t] = "respond" => store[sid[t]] = copy[t]

WorkflowInv ==
    /\ TypeOK
    /\ SessionsEarned
    /\ RequestsChecked
    /\ IdsUnshared
    /\ SavedIsCopy
    /\ AnswersConsented
    /\ AuthTimeOfSubject

-----------------------------------------------------------------------------
(***************************************************************************)
(* Sessions.                                                               *)
(***************************************************************************)

\* What was earned stays earned: authentications and acceptances are facts.
LEMMA EarnedStays ==
    ASSUME NEW s, NEW F, NEW G, F \subseteq G, NEW A, NEW B, A \subseteq B,
           Earned(s, F, A)
    PROVE  Earned(s, G, B)
BY DEF Earned, Dated, Granted

\* A new session claims nothing.
LEMMA DefaultEarned ==
    ASSUME NEW F, NEW A
    PROVE  NewDefaultUserSession \in Sessions /\ Earned(NewDefaultUserSession, F, A)
<1>1. NewDefaultUserSession \in Sessions
  BY OIDCAssumption DEF NewDefaultUserSession, Sessions, NotAuthenticated, TwoFactor
<1>2. NewDefaultUserSession.level = 0 /\ NewDefaultUserSession.workflow = Nil
  BY DEF NewDefaultUserSession, NotAuthenticated
<1> QED BY <1>1, <1>2 DEF Earned, Dated, Granted, OneFactor, TwoFactor

\* GetSession gives a session that was earned.
LEMMA GotEarned ==
    ASSUME WorkflowInv, NEW id \in SessionIds \cup {NoId}
    PROVE  GetSession(id) \in Sessions /\ Earned(GetSession(id), factors, accepted)
BY DefaultEarned DEF GetSession, WorkflowInv, TypeOK, SessionsEarned

\* A handler that replaces the workflow keeps who the user is, and how they
\* authenticated.
LEMMA WorkflowReplaced ==
    ASSUME NEW s \in Sessions, NEW w \in Workflows \cup {Nil}, NEW F, Dated(s, F)
    PROVE  LET r == [s EXCEPT !.workflow = w] IN
           r \in Sessions /\ r.level = s.level /\ r.workflow = w /\ Dated(r, F)
<1> DEFINE r == [s EXCEPT !.workflow = w]
<1>1. /\ r \in Sessions /\ r.workflow = w /\ r.level = s.level
      /\ r.username = s.username /\ r.first = s.first /\ r.second = s.second
  BY DEF Sessions
<1> HIDE DEF r
<1>2. Dated(r, F)
  BY <1>1 DEF Dated
<1> QED BY <1>1, <1>2 DEF r

\* A login earns the level it sets, at the instant it records.
LEMMA FirstFactorEarned ==
    ASSUME NEW s \in Sessions, NEW u \in Users, NEW n \in 1..MaxTime,
           NEW F, NEW A, Earned(s, F, A)
    PROVE  LET r == SetOneFactor(s, u, n)
               f == [user |-> r.username, level |-> r.level, time |-> n]
           IN  /\ r \in Sessions /\ r.workflow = s.workflow
               /\ f \in [user : Users, level : {OneFactor, TwoFactor}, time : 1..MaxTime]
               /\ Earned(r, F \cup {f}, A)
<1> DEFINE v == [s EXCEPT !.username = u]
           w == [v EXCEPT !.level = OneFactor]
           r == [w EXCEPT !.first = n]
           f == [user |-> r.username, level |-> r.level, time |-> n]
<1>1. v \in Sessions /\ v.workflow = s.workflow /\ v.username = u
  BY DEF Sessions
<1> HIDE DEF v
<1>2. w \in Sessions /\ w.workflow = s.workflow /\ w.username = u /\ w.level = OneFactor
  BY <1>1 DEF Sessions, NotAuthenticated, OneFactor, TwoFactor
<1> HIDE DEF w
<1>3. /\ r \in Sessions /\ r.workflow = s.workflow /\ r.username = u
      /\ r.level = OneFactor /\ r.first = n
  BY <1>2, OIDCAssumption DEF Sessions
<1> HIDE DEF r
<1>4. f \in [user : Users, level : {OneFactor, TwoFactor}, time : 1..MaxTime]
  BY <1>3
<1>5. Dated(r, F \cup {f})
  BY <1>3 DEF Dated, OneFactor, TwoFactor
<1>6. Earned(r, F \cup {f}, A)
  BY <1>3, <1>5 DEF Earned
<1>7. r = SetOneFactor(s, u, n)
  BY DEF r, w, v, SetOneFactor
<1> QED BY <1>3, <1>4, <1>6, <1>7

\* A second factor keeps the first one, and who the user is.
LEMMA SecondFactorEarned ==
    ASSUME NEW s \in Sessions, s.level >= OneFactor, NEW n \in 1..MaxTime,
           NEW F, F \subseteq [user : Users, level : {OneFactor, TwoFactor}, time : 1..MaxTime],
           NEW A, Earned(s, F, A)
    PROVE  LET r == SetTwoFactor(s, n)
               f == [user |-> r.username, level |-> r.level, time |-> n]
           IN  /\ r \in Sessions /\ r.workflow = s.workflow
               /\ f \in [user : Users, level : {OneFactor, TwoFactor}, time : 1..MaxTime]
               /\ Earned(r, F \cup {f}, A)
<1> DEFINE v == [s EXCEPT !.level = TwoFactor]
           r == [v EXCEPT !.second = n]
           f == [user |-> r.username, level |-> r.level, time |-> n]
<1>1. /\ v \in Sessions /\ v.workflow = s.workflow /\ v.username = s.username
      /\ v.level = TwoFactor /\ v.first = s.first
  BY DEF Sessions, NotAuthenticated, TwoFactor
<1> HIDE DEF v
<1>2. /\ r \in Sessions /\ r.workflow = s.workflow /\ r.username = s.username
      /\ r.level = TwoFactor /\ r.first = s.first /\ r.second = n
  BY <1>1, OIDCAssumption DEF Sessions
<1> HIDE DEF r
<1>3. [user |-> s.username, level |-> OneFactor, time |-> s.first] \in F
  BY DEF Earned, Dated
<1>4. s.username \in Users
  BY <1>3
<1>5. f \in [user : Users, level : {OneFactor, TwoFactor}, time : 1..MaxTime]
  BY <1>2, <1>4
<1>6. Dated(r, F \cup {f})
  BY <1>2, <1>3 DEF Dated
<1>7. Earned(r, F \cup {f}, A)
  BY <1>2, <1>6 DEF Earned
<1>8. r = SetTwoFactor(s, n)
  BY DEF r, v, SetTwoFactor
<1> QED BY <1>2, <1>5, <1>7, <1>8

\* A grant is of what some client asks for.
LEMMA ScopesGranted ==
    ASSUME NEW w \in Workflows, NEW a \in Asks
    PROVE  LET v == [w EXCEPT !.grantedScopes = a.scopes] IN
           v \in Workflows /\ v.grantedScopes = a.scopes
BY DEF Workflows

\* It has an audience beside the scopes.
LEMMA AudienceGranted ==
    ASSUME NEW w \in Workflows, NEW a \in Asks
    PROVE  LET v == [w EXCEPT !.grantedAudience = a.audience] IN
           v \in Workflows /\ v.grantedScopes = w.grantedScopes /\ v.grantedAudience = a.audience
BY DEF Workflows

\* Accepting puts what was asked for, and nothing else, into the workflow.
LEMMA AcceptanceEarned ==
    ASSUME NEW s \in Sessions, s.workflow # Nil, NEW F, NEW A, Dated(s, F),
           NEW a, a = s.workflow.ask
    PROVE  LET r == [s EXCEPT !.workflow.grantedScopes = a.scopes,
                              !.workflow.grantedAudience = a.audience] IN
           /\ r \in Sessions /\ a \in Asks
           /\ Earned(r, F, A \cup {[scopes |-> a.scopes, audience |-> a.audience]})
<1> DEFINE v == [s.workflow EXCEPT !.grantedScopes = a.scopes]
           q == [s EXCEPT !.workflow = v]
           w == [q.workflow EXCEPT !.grantedAudience = a.audience]
           r == [q EXCEPT !.workflow = w]
           g == [scopes |-> a.scopes, audience |-> a.audience]
<1>1. s.workflow \in Workflows
  BY DEF Sessions
<1>2. a \in Asks
  BY <1>1 DEF Workflows
<1>3. v \in Workflows /\ v.grantedScopes = a.scopes
  BY <1>1, <1>2, ScopesGranted
<1> HIDE DEF v
<1>4. q \in Sessions /\ q.workflow = v /\ Dated(q, F)
  BY <1>3, WorkflowReplaced
<1> HIDE DEF q
<1>5. w \in Workflows /\ w.grantedScopes = a.scopes /\ w.grantedAudience = a.audience
  BY <1>2, <1>3, <1>4, AudienceGranted
<1> HIDE DEF w
<1>6. Granted(w, A \cup {g})
  BY <1>5 DEF Granted
<1>7. r \in Sessions /\ r.workflow = w /\ Dated(r, F)
  BY <1>4, <1>5, WorkflowReplaced
<1>8. r \in Sessions /\ Earned(r, F, A \cup {g})
  BY <1>6, <1>7 DEF Earned
<1> QED BY <1>2, <1>8, Zenon DEF r, w, q, v

-----------------------------------------------------------------------------
(***************************************************************************)
(* The shapes of the steps.                                                *)
(***************************************************************************)

\* The answers that were given stay right.
LEMMA AnswersKept ==
    ASSUME WorkflowInv, UNCHANGED answer, factors \subseteq factors', accepted \subseteq accepted'
    PROVE  AnswersConsented' /\ AuthTimeOfSubject'
<1>1. AnswersConsented'
  BY DEF WorkflowInv, AnswersConsented
<1>2. AuthTimeOfSubject'
  BY DEF WorkflowInv, AuthTimeOfSubject
<1> QED BY <1>1, <1>2

\* An id that was regenerated.
LEMMA NewId ==
    ASSUME WorkflowInv
    PROVE  \A q \in Tabs : pc[q] \in Regenerated =>
              /\ sid[q] \in SessionIds /\ sid[q] # NoId /\ cookie # sid[q]
              /\ \A t \in Tabs \ {q} : sid[t] # sid[q]
<1> SUFFICES ASSUME NEW q \in Tabs, pc[q] \in Regenerated
             PROVE  /\ sid[q] \in SessionIds /\ sid[q] # NoId /\ cookie # sid[q]
                    /\ \A t \in Tabs \ {q} : sid[t] # sid[q]
  OBVIOUS
<1>1. sid[q] # NoId
  BY DEF WorkflowInv, RequestsChecked, Checked, Regenerated
<1>2. sid[q] \in SessionIds \cup {NoId}
  BY DEF WorkflowInv, TypeOK
<1>3. Unshared(q)
  BY DEF WorkflowInv, IdsUnshared
<1> QED BY <1>1, <1>2, <1>3 DEF Unshared

\* One request takes a step.  Of the others the invariant says only what it
\* leaves alone: ids that are not shared, and what is stored under them.
LEMMA OneTabMoves ==
    ASSUME WorkflowInv, TypeOK', NEW t \in Tabs,
           \A q \in Tabs \ {t} :
              /\ page'[q] = page[q] /\ ask'[q] = ask[q] /\ pc'[q] = pc[q]
              /\ user'[q] = user[q] /\ sid'[q] = sid[q] /\ copy'[q] = copy[q],
           factors \subseteq factors', accepted \subseteq accepted',
           \A id \in SessionIds :
              store'[id] # Absent => Earned(store'[id], factors', accepted'),
           Earned(copy'[t], factors', accepted'),
           Checked(t)',
           pc'[t] \in Regenerated => Unshared(t)',
           pc'[t] = "respond" => store'[sid'[t]] = copy'[t],
           \A q \in Tabs \ {t} :
              pc[q] \in Regenerated =>
                 cookie' # sid[q] /\ sid'[t] # sid[q] /\ store'[sid[q]] = store[sid[q]],
           AnswersConsented', AuthTimeOfSubject'
    PROVE  WorkflowInv'
<1>1. SessionsEarned'
  <2>1. \A q \in Tabs \ {t} : Earned(copy'[q], factors', accepted')
    BY EarnedStays DEF WorkflowInv, SessionsEarned
  <2> QED BY <2>1 DEF SessionsEarned
<1>2. RequestsChecked'
  <2>1. \A q \in Tabs \ {t} : Checked(q)'
    BY DEF WorkflowInv, RequestsChecked, Checked, IsAuthLevelSufficient, isConsentMissing
  <2> QED BY <2>1 DEF RequestsChecked
<1>3. IdsUnshared'
  <2>1. \A q \in Tabs \ {t} : pc'[q] \in Regenerated => Unshared(q)'
    BY DEF WorkflowInv, IdsUnshared, Unshared
  <2> QED BY <2>1 DEF IdsUnshared
<1>4. SavedIsCopy'
  <2>1. \A q \in Tabs \ {t} : pc'[q] = "respond" => store'[sid'[q]] = copy'[q]
    BY DEF WorkflowInv, SavedIsCopy, Regenerated
  <2> QED BY <2>1 DEF SavedIsCopy
<1> QED BY <1>1, <1>2, <1>3, <1>4 DEF WorkflowInv

\* A request that ends leaves the tab idle, with nothing.
LEMMA AnswerStep ==
    ASSUME WorkflowInv, NEW t \in Tabs, NEW id \in SessionIds \cup {NoId},
           NEW st \in [SessionIds -> Sessions \cup {Absent}],
           NEW p \in Pages, NEW a \in Asks \cup {Nil}, p = "authorize" => a \in Asks,
           Answer(t, id, st, p, a), UNCHANGED <<now, visits>>,
           factors' \subseteq [user : Users, level : {OneFactor, TwoFactor}, time : 1..MaxTime],
           accepted' \subseteq {[scopes |-> b.scopes, audience |-> b.audience] : b \in Asks},
           answer' \in [Tabs -> Answers \cup {Nil}],
           factors \subseteq factors', accepted \subseteq accepted',
           \A i \in SessionIds : st[i] # Absent => Earned(st[i], factors', accepted'),
           \A q \in Tabs \ {t} :
              pc[q] \in Regenerated => id # sid[q] /\ st[sid[q]] = store[sid[q]],
           AnswersConsented', AuthTimeOfSubject'
    PROVE  WorkflowInv'
<1>1. store' \in [SessionIds -> Sessions \cup {Absent}]
  BY DEF Answer
<1>2. /\ page' = [page EXCEPT ![t] = p] /\ ask' = [ask EXCEPT ![t] = a]
      /\ form' = [form EXCEPT ![t] = Nil] /\ pc' = [pc EXCEPT ![t] = "idle"]
      /\ sid' = [sid EXCEPT ![t] = NoId] /\ user' = [user EXCEPT ![t] = NoUser]
      /\ copy' = [copy EXCEPT ![t] = NewDefaultUserSession] /\ cookie' = id
  BY DEF Answer, Show
<1>3. TypeOK'
  BY <1>1, <1>2, DefaultEarned, Zenon DEF WorkflowInv, TypeOK, Steps
<1>4. /\ page'[t] = p /\ ask'[t] = a /\ pc'[t] = "idle" /\ sid'[t] = NoId
      /\ copy'[t] = NewDefaultUserSession
      /\ \A q \in Tabs \ {t} :
            /\ page'[q] = page[q] /\ ask'[q] = ask[q] /\ pc'[q] = pc[q]
            /\ user'[q] = user[q] /\ sid'[q] = sid[q] /\ copy'[q] = copy[q]
  BY <1>2 DEF WorkflowInv, TypeOK
<1>5. Checked(t)' /\ pc'[t] \notin Regenerated
  BY <1>4 DEF Checked, Regenerated
<1>6. \A i \in SessionIds : store'[i] # Absent => Earned(store'[i], factors', accepted')
  BY DEF Answer
<1>7. \A q \in Tabs \ {t} :
         pc[q] \in Regenerated =>
            cookie' # sid[q] /\ sid'[t] # sid[q] /\ store'[sid[q]] = store[sid[q]]
  <2> SUFFICES ASSUME NEW q \in Tabs \ {t}, pc[q] \in Regenerated
               PROVE  cookie' # sid[q] /\ sid'[t] # sid[q] /\ store'[sid[q]] = store[sid[q]]
    OBVIOUS
  <2>1. sid[q] # NoId /\ sid[q] \in SessionIds
    BY NewId
  <2>2. store'[sid[q]] = st[sid[q]]
    BY <2>1 DEF Answer
  <2> QED BY <1>2, <1>4, <2>1, <2>2
<1>8. Earned(copy'[t], factors', accepted')
  BY <1>4, DefaultEarned
<1>9. pc'[t] # "respond"
  BY <1>4
<1> QED BY <1>3, <1>4, <1>5, <1>6, <1>7, <1>8, <1>9, OneTabMoves

\* A request that ends with a session it has just saved.
LEMMA SavedAnswer ==
    ASSUME WorkflowInv, NEW t \in Tabs, NEW id \in SaveIds(t), NEW s \in Sessions,
           NEW p \in Pages, NEW a \in Asks \cup {Nil}, p = "authorize" => a \in Asks,
           Answer(t, id, SaveSession(id, s), p, a), UNCHANGED <<now, visits>>,
           factors' \subseteq [user : Users, level : {OneFactor, TwoFactor}, time : 1..MaxTime],
           accepted' \subseteq {[scopes |-> b.scopes, audience |-> b.audience] : b \in Asks},
           answer' \in [Tabs -> Answers \cup {Nil}],
           factors \subseteq factors', accepted \subseteq accepted',
           Earned(s, factors', accepted'),
           AnswersConsented', AuthTimeOfSubject'
    PROVE  WorkflowInv'
<1>1. /\ id \in SessionIds /\ id # NoId
      /\ \A q \in Tabs \ {t} : pc[q] \in Regenerated => id # sid[q]
  BY OIDCAssumption DEF SaveIds, Fresh, WorkflowInv, TypeOK, IdsUnshared, Unshared
<1> DEFINE st == SaveSession(id, s)
<1>2. /\ st \in [SessionIds -> Sessions \cup {Absent}] /\ st[id] = s
      /\ \A i \in SessionIds \ {id} : st[i] = store[i]
  BY <1>1, Zenon DEF SaveSession, WorkflowInv, TypeOK
<1>3. \A i \in SessionIds : store[i] # Absent => Earned(store[i], factors', accepted')
  BY EarnedStays DEF WorkflowInv, SessionsEarned
<1>4. \A q \in Tabs \ {t} :
         pc[q] \in Regenerated => id # sid[q] /\ st[sid[q]] = store[sid[q]]
  BY <1>1, <1>2, NewId
<1>5. \A i \in SessionIds : st[i] # Absent => Earned(st[i], factors', accepted')
  BY <1>2, <1>3
<1>6. Answer(t, id, st, p, a)
  OBVIOUS
<1>7. id \in SessionIds \cup {NoId}
  BY <1>1, Zenon
<1> HIDE DEF st
<1> QED BY <1>2, <1>4, <1>5, <1>6, <1>7, AnswerStep, Zenon

\* A request that ends with an id it had or the browser had.
LEMMA UnsavedAnswer ==
    ASSUME WorkflowInv, NEW t \in Tabs, NEW id \in {cookie, sid[t]},
           NEW p \in Pages, NEW a \in Asks \cup {Nil}, p = "authorize" => a \in Asks,
           Answer(t, id, store, p, a),
           UNCHANGED <<now, visits, factors, accepted, answer>>
    PROVE  WorkflowInv'
<1>1. id \in SessionIds \cup {NoId}
  BY Zenon DEF WorkflowInv, TypeOK
<1>2. \A q \in Tabs \ {t} : pc[q] \in Regenerated => id # sid[q]
  BY Zenon DEF WorkflowInv, IdsUnshared, Unshared
<1>3. AnswersConsented' /\ AuthTimeOfSubject'
  BY AnswersKept
<1>4. \A i \in SessionIds : store[i] # Absent => Earned(store[i], factors', accepted')
  BY DEF WorkflowInv, SessionsEarned
<1>5. /\ store \in [SessionIds -> Sessions \cup {Absent}]
      /\ factors' \subseteq [user : Users, level : {OneFactor, TwoFactor}, time : 1..MaxTime]
      /\ accepted' \subseteq {[scopes |-> b.scopes, audience |-> b.audience] : b \in Asks}
      /\ answer' \in [Tabs -> Answers \cup {Nil}]
  BY DEF WorkflowInv, TypeOK
<1>6. factors \subseteq factors' /\ accepted \subseteq accepted'
  BY Zenon
<1>7. \A q \in Tabs \ {t} :
         pc[q] \in Regenerated => id # sid[q] /\ store[sid[q]] = store[sid[q]]
  BY <1>2, Zenon
<1>8. UNCHANGED <<now, visits>>
  BY Zenon
<1> QED BY <1>1, <1>3, <1>4, <1>5, <1>6, <1>7, <1>8, AnswerStep, Zenon

\* A handler gets the session of the cookie.
LEMMA BeginStep ==
    ASSUME WorkflowInv, NEW t \in Tabs, NEW s \in Sessions, Earned(s, factors, accepted),
           NEW next \in Steps \ Regenerated, Begin(t, s, next), Checked(t)',
           user' \in [Tabs -> Users \cup {NoUser}],
           \A q \in Tabs \ {t} : user'[q] = user[q],
           UNCHANGED <<store, cookie, now, page, ask, form, visits, factors, accepted, answer>>
    PROVE  WorkflowInv'
<1>1. TypeOK'
  BY Zenon DEF WorkflowInv, TypeOK, Begin
<1>2. /\ pc'[t] = next /\ sid'[t] = cookie /\ copy'[t] = s
      /\ \A q \in Tabs \ {t} : pc'[q] = pc[q] /\ sid'[q] = sid[q] /\ copy'[q] = copy[q]
  BY Zenon DEF WorkflowInv, TypeOK, Begin
<1>3. \A q \in Tabs \ {t} : pc[q] \in Regenerated => cookie' # sid[q] /\ sid'[t] # sid[q]
  BY <1>2, Zenon DEF WorkflowInv, IdsUnshared, Unshared
<1>4. AnswersConsented' /\ AuthTimeOfSubject'
  BY AnswersKept
<1>5. \A id \in SessionIds : store'[id] # Absent => Earned(store'[id], factors', accepted')
  BY DEF WorkflowInv, SessionsEarned
<1>6. Earned(copy'[t], factors', accepted')
  BY <1>2
<1>7. pc'[t] \notin Regenerated /\ pc'[t] # "respond"
  BY <1>2 DEF Regenerated
<1> QED BY <1>1, <1>2, <1>3, <1>4, <1>5, <1>6, <1>7, OneTabMoves, Zenon

\* A tab without a request shows another page.
LEMMA ShowStep ==
    ASSUME WorkflowInv, NEW t \in Tabs, pc[t] = "idle",
           NEW p \in Pages, NEW a \in Asks \cup {Nil}, NEW c \in Clients \cup {Nil},
           p = "authorize" => a \in Asks, Show(t, p, a, c), visits' \in 0..MaxVisits,
           UNCHANGED <<store, cookie, now, pc, user, sid, copy, factors, accepted, answer>>
    PROVE  WorkflowInv'
<1>1. TypeOK'
  BY DEF WorkflowInv, TypeOK, Show
<1>2. /\ page'[t] = p /\ ask'[t] = a
      /\ \A q \in Tabs \ {t} : page'[q] = page[q] /\ ask'[q] = ask[q]
  BY DEF WorkflowInv, TypeOK, Show
<1>3. Checked(t)' /\ pc'[t] \notin Regenerated /\ pc'[t] # "respond"
  BY <1>2 DEF Checked, Regenerated
<1>4. \A q \in Tabs \ {t} : pc[q] \in Regenerated => cookie' # sid[q] /\ sid'[t] # sid[q]
  BY DEF WorkflowInv, IdsUnshared, Unshared
<1>5. AnswersConsented' /\ AuthTimeOfSubject'
  BY AnswersKept
<1>6. \A id \in SessionIds : store'[id] # Absent => Earned(store'[id], factors', accepted')
  BY DEF WorkflowInv, SessionsEarned
<1>7. Earned(copy'[t], factors', accepted')
  BY DEF WorkflowInv, SessionsEarned
<1> QED BY <1>1, <1>2, <1>3, <1>4, <1>5, <1>6, <1>7, OneTabMoves

-----------------------------------------------------------------------------
(***************************************************************************)
(* The steps.                                                              *)
(***************************************************************************)

\* The first step of the handlers that have more than one.
LEMMA BeginSteps ==
    ASSUME WorkflowInv, NEW t \in Tabs,
           \/ oidcAuthorize(t)
           \/ \E u \in Users : FirstFactorPost(t, u)
           \/ SecondFactorPost(t)
    PROVE  WorkflowInv'
<1> DEFINE s == GetSession(cookie)
<1>1. s \in Sessions /\ Earned(s, factors, accepted) /\ ask \in [Tabs -> Asks \cup {Nil}]
  BY GotEarned, Zenon DEF WorkflowInv, TypeOK
<1>2. user \in [Tabs -> Users \cup {NoUser}] /\ pc \in [Tabs -> Steps]
      /\ sid \in [Tabs -> SessionIds \cup {NoId}] /\ copy \in [Tabs -> Sessions]
  BY Zenon DEF WorkflowInv, TypeOK
<1>3. page[t] = "authorize" => ask[t] \in Asks
  BY Zenon DEF WorkflowInv, RequestsChecked, Checked
<1>4. s.level >= OneFactor => cookie # NoId
  <2>1. cookie = NoId => s = NewDefaultUserSession
    BY Zenon DEF GetSession
  <2>2. NewDefaultUserSession.level = NotAuthenticated
    BY Zenon DEF NewDefaultUserSession
  <2>3. ~(NotAuthenticated >= OneFactor)
    BY DEF NotAuthenticated, OneFactor
  <2> QED BY <2>1, <2>2, <2>3, Zenon
<1> HIDE DEF s
<1>5. CASE oidcAuthorize(t)
  <2>1. PICK next \in {"start", "grant"} :
           /\ Begin(t, s, next) /\ page[t] = "authorize"
           /\ next = "grant" => /\ IsAuthLevelSufficient(s, ask[t])
                                /\ ~isConsentMissing(s.workflow, ask[t])
           /\ UNCHANGED <<store, cookie, now, page, ask, form, user, visits, factors,
                          accepted, answer>>
    BY <1>5, Zenon DEF oidcAuthorize, s
  <2>2. pc'[t] = next /\ sid'[t] = cookie /\ copy'[t] = s
    BY <1>2, <2>1, Zenon DEF Begin
  <2>3. Checked(t)'
    BY <1>3, <2>1, <2>2, Zenon DEF Checked, IsAuthLevelSufficient, isConsentMissing
  <2>4. next \in Steps \ Regenerated
    BY DEF Steps, Regenerated
  <2> QED BY <1>1, <1>2, <2>1, <2>3, <2>4, BeginStep
<1>6. ASSUME NEW u \in Users, FirstFactorPost(t, u) PROVE WorkflowInv'
  <2>1. /\ Begin(t, s, "reset") /\ user' = [user EXCEPT ![t] = u] /\ page[t] # "authorize"
        /\ UNCHANGED <<store, cookie, now, page, ask, form, visits, factors,
                       accepted, answer>>
    BY <1>6, Zenon DEF FirstFactorPost, s
  <2>2. /\ pc'[t] = "reset" /\ user'[t] = u /\ \A q \in Tabs \ {t} : user'[q] = user[q]
        /\ user' \in [Tabs -> Users \cup {NoUser}]
    BY <1>2, <2>1 DEF Begin
  <2>3. Checked(t)'
    BY <2>1, <2>2 DEF Checked
  <2>4. "reset" \in Steps \ Regenerated
    BY DEF Steps, Regenerated
  <2> QED BY <1>1, <2>1, <2>2, <2>3, <2>4, BeginStep, Zenon
<1>7. CASE SecondFactorPost(t)
  <2>1. /\ Begin(t, s, "regenerate2") /\ s.level >= OneFactor /\ page[t] # "authorize"
        /\ UNCHANGED <<store, cookie, now, page, ask, form, user, visits, factors,
                       accepted, answer>>
    BY <1>7, Zenon DEF SecondFactorPost, s
  <2>2. pc'[t] = "regenerate2" /\ sid'[t] = cookie /\ copy'[t] = s
    BY <1>2, <2>1 DEF Begin
  <2>3. Checked(t)'
    BY <1>4, <2>1, <2>2, Zenon DEF Checked
  <2>4. "regenerate2" \in Steps \ Regenerated
    BY DEF Steps, Regenerated
  <2> QED BY <1>1, <1>2, <2>1, <2>3, <2>4, BeginStep
<1> QED BY <1>5, <1>6, <1>7

\* The user opens a page.
LEMMA VisitStep ==
    ASSUME WorkflowInv, NEW t \in Tabs,
           NEW p \in {"login", "consent", "authorize"}, NEW a \in Asks \cup {Nil},
           p = "authorize" => a \in Asks, Visit(t, p, a)
    PROVE  WorkflowInv'
<1>1. visits' \in 0..MaxVisits /\ p \in Pages
  BY OIDCAssumption DEF WorkflowInv, TypeOK, Visit, Pages
<1> QED BY <1>1, ShowStep DEF Visit

\* The form names the client of the workflow; a form that does not fit, or comes
\* too late, is refused.
LEMMA ConsentStep ==
    ASSUME WorkflowInv, NEW t \in Tabs, oidcConsent(t) \/ oidcConsentPOST(t)
    PROVE  WorkflowInv'
<1> DEFINE s == GetSession(cookie)
<1>1. s \in Sessions /\ Earned(s, factors, accepted)
  BY GotEarned, Zenon DEF WorkflowInv, TypeOK
<1>2. MayConsent(s) => s.workflow # Nil /\ s.workflow.ask \in Asks
  BY <1>1, Zenon DEF MayConsent, Sessions, Workflows
<1>3. MayConsent(s) => s.workflow.ask.client \in Clients
  BY <1>2, OIDCAssumption
<1>4. visits \in 0..MaxVisits /\ {"form", "closed"} \subseteq Pages
  BY Zenon DEF WorkflowInv, TypeOK, Pages
<1>5. CASE oidcConsent(t)
  <2>1. \/ MayConsent(s) /\ Show(t, "form", Nil, s.workflow.ask.client)
        \/ Show(t, "closed", Nil, Nil)
    BY <1>5, Zenon DEF oidcConsent
  <2>2. /\ pc[t] = "idle"
        /\ UNCHANGED <<store, cookie, now, pc, user, sid, copy, visits, factors,
                       accepted, answer>>
    BY <1>5, Zenon DEF oidcConsent
  <2> HIDE DEF s
  <2>3. \E p \in {"form", "closed"}, c \in Clients \cup {Nil} : Show(t, p, Nil, c)
    BY <1>3, <2>1
  <2> QED BY <1>4, <2>2, <2>3, ShowStep
<1>6. CASE oidcConsentPOST(t)
  <2>1. CASE Show(t, "closed", Nil, Nil) /\ UNCHANGED <<pc, sid, copy>>
    <3>1. /\ pc[t] = "idle"
          /\ UNCHANGED <<store, cookie, now, user, visits, factors, accepted, answer>>
      BY <1>6, Zenon DEF oidcConsentPOST
    <3> QED BY <1>4, <2>1, <3>1, ShowStep
  <2>2. ASSUME NEW verb \in {"accept", "reject"}, Begin(t, s, verb), MayConsent(s),
               UNCHANGED <<page, ask, form>>
        PROVE  WorkflowInv'
    <3>1. /\ page[t] # "authorize"
          /\ UNCHANGED <<store, cookie, now, user, visits, factors, accepted, answer>>
      BY <1>6, Zenon DEF oidcConsentPOST
    <3> HIDE DEF s
    <3>2. pc'[t] = verb /\ copy'[t] = s /\ user \in [Tabs -> Users \cup {NoUser}]
      BY <2>2, Zenon DEF Begin, WorkflowInv, TypeOK
    <3>3. Checked(t)'
      BY <1>2, <2>2, <3>1, <3>2, Zenon DEF Checked
    <3>4. verb \in Steps \ Regenerated
      BY DEF Steps, Regenerated
    <3> QED BY <1>1, <2>2, <3>1, <3>2, <3>3, <3>4, BeginStep, Zenon
  <2>3. \/ Show(t, "closed", Nil, Nil) /\ UNCHANGED <<pc, sid, copy>>
        \/ /\ MayConsent(s) /\ \E verb \in {"accept", "reject"} : Begin(t, s, verb)
           /\ UNCHANGED <<page, ask, form>>
    BY <1>6, Zenon DEF oidcConsentPOST
  <2> QED BY <2>1, <2>2, <2>3
<1> QED BY <1>5, <1>6

\* A workflow that is started holds no grant, one that ended is no workflow.
LEMMA WorkflowStep ==
    ASSUME WorkflowInv, NEW t \in Tabs,
           HandleAuthorizationOrConsentInsufficient(t) \/ Reject(t)
    PROVE  WorkflowInv'
<1>1. /\ copy[t] \in Sessions /\ Dated(copy[t], factors) /\ now \in 1..MaxTime
      /\ factors \subseteq [user : Users, level : {OneFactor, TwoFactor}, time : 1..MaxTime]
      /\ accepted \subseteq {[scopes |-> b.scopes, audience |-> b.audience] : b \in Asks}
      /\ answer \in [Tabs -> Answers \cup {Nil}]
  BY Zenon DEF WorkflowInv, TypeOK, SessionsEarned, Earned
<1>2. PICK w \in Workflows \cup {Nil}, p \in {"consent", "portal", "closed"} :
         /\ Granted(w, accepted)
         /\ \E id \in SaveIds(t) :
               Answer(t, id, SaveSession(id, [copy[t] EXCEPT !.workflow = w]), p, Nil)
  <2>1. CASE HandleAuthorizationOrConsentInsufficient(t)
    <3> DEFINE w == [ask |-> ask[t], grantedScopes |-> {}, grantedAudience |-> {},
                     created |-> now]
    <3>1. w \in Workflows /\ w.grantedScopes = {} /\ w.grantedAudience = {}
      BY <1>1, <2>1 DEF HandleAuthorizationOrConsentInsufficient, WorkflowInv,
                        RequestsChecked, Checked, Workflows
    <3>2. \E p \in {"consent", "portal"} : \E id \in SaveIds(t) :
             Answer(t, id, SaveSession(id, [copy[t] EXCEPT !.workflow = w]), p, Nil)
      BY <2>1 DEF HandleAuthorizationOrConsentInsufficient
    <3> HIDE DEF w
    <3> QED BY <3>1, <3>2, Zenon DEF Granted
  <2>2. CASE Reject(t)
    BY <2>2, Zenon DEF Reject, Granted
  <2> QED BY <2>1, <2>2, Zenon
<1> DEFINE s == [copy[t] EXCEPT !.workflow = w]
<1>3. s \in Sessions /\ s.workflow = w /\ Dated(s, factors)
  BY <1>1, WorkflowReplaced
<1>4. PICK id \in SaveIds(t) : Answer(t, id, SaveSession(id, s), p, Nil)
  BY <1>2
<1> HIDE DEF s
<1>5. Earned(s, factors, accepted)
  BY <1>2, <1>3 DEF Earned
<1>6. UNCHANGED <<now, visits, factors, accepted, answer>>
  BY DEF HandleAuthorizationOrConsentInsufficient, Reject
<1>7. AnswersConsented' /\ AuthTimeOfSubject'
  BY <1>6, AnswersKept
<1>8. p \in Pages /\ p # "authorize"
  BY DEF Pages
<1> QED BY <1>1, <1>3, <1>4, <1>5, <1>6, <1>7, <1>8, SavedAnswer, Zenon

\* What oidcAuthorize checked makes the answer one the user consented to, about a
\* user with the factor the client asks for.
LEMMA GrantStep ==
    ASSUME WorkflowInv, NEW t \in Tabs, oidcGrantRequests(t)
    PROVE  WorkflowInv'
<1> DEFINE c == copy[t]
           b == ask[t]
           n == [subject |-> c.username, ask |-> b,
                 authTime |-> AuthenticatedTime(c, ClientPolicy[b.client])]
           s == [c EXCEPT !.workflow = Nil]
<1>1. /\ c \in Sessions /\ Dated(c, factors) /\ Granted(c.workflow, accepted)
      /\ factors \subseteq [user : Users, level : {OneFactor, TwoFactor}, time : 1..MaxTime]
      /\ accepted \subseteq {[scopes |-> q.scopes, audience |-> q.audience] : q \in Asks}
      /\ answer \in [Tabs -> Answers \cup {Nil}]
  BY Zenon DEF WorkflowInv, TypeOK, SessionsEarned, Earned
<1>2. /\ b \in Asks /\ c.level >= ClientPolicy[b.client] /\ ~isConsentMissing(c.workflow, b)
  BY DEF oidcGrantRequests, WorkflowInv, RequestsChecked, Checked, IsAuthLevelSufficient
<1>3. ClientPolicy[b.client] \in {OneFactor, TwoFactor}
  BY <1>2, OIDCAssumption, Zenon
<1>4. /\ answer' = [answer EXCEPT ![t] = n]
      /\ UNCHANGED <<now, visits, factors, accepted>>
      /\ \E id \in SaveIds(t) : Answer(t, id, SaveSession(id, s), "done", Nil)
  BY DEF oidcGrantRequests
<1>5. s \in Sessions /\ s.workflow = Nil /\ Dated(s, factors)
  BY <1>1, WorkflowReplaced
<1> HIDE DEF s
<1>6. Earned(s, factors, accepted)
  BY <1>5 DEF Earned, Granted
<1>7. n \in Answers
  BY <1>1, <1>2, <1>3, Zenon DEF Sessions, Answers, AuthenticatedTime
<1>8. /\ n.subject = c.username /\ n.ask = b
      /\ n.authTime = AuthenticatedTime(c, ClientPolicy[b.client])
  BY Zenon
<1> HIDE DEF c, b, n
<1>9. answer'[t] = n /\ \A q \in Tabs \ {t} : answer'[q] = answer[q]
  BY <1>1, <1>4, Zenon
<1>10. AnswersConsented'
  <2>1. Consented(b, accepted)
    BY <1>1, <1>2, Zenon DEF isConsentMissing, Granted, Consented
  <2>2. answer'[t].ask = b /\ accepted' = accepted
    BY <1>4, <1>8, <1>9, Zenon
  <2>3. Consented(answer'[t].ask, accepted')
    BY <2>1, <2>2
  <2>4. \A q \in Tabs \ {t} : answer'[q] # Nil => Consented(answer'[q].ask, accepted')
    BY <1>9, <2>2, Zenon DEF WorkflowInv, AnswersConsented, Consented
  <2>5. \A q \in Tabs : answer'[q] # Nil => Consented(answer'[q].ask, accepted')
    BY <2>3, <2>4
  <2> QED BY <2>5, Zenon DEF AnswersConsented, Consented
<1>11. AuthTimeOfSubject'
  <2>1. [user |-> c.username, level |-> ClientPolicy[b.client],
         time |-> AuthenticatedTime(c, ClientPolicy[b.client])] \in factors
    <3>1. CASE ClientPolicy[b.client] = OneFactor
      BY <1>1, <1>2, <3>1, Zenon DEF Dated, AuthenticatedTime
    <3>2. CASE ClientPolicy[b.client] = TwoFactor
      <4>1. c.level \in 0..2 /\ c.level >= 2
        BY <1>1, <1>2, <3>2 DEF Sessions, NotAuthenticated, TwoFactor
      <4>2. c.level = TwoFactor
        BY <4>1 DEF TwoFactor
      <4>3. [user |-> c.username, level |-> TwoFactor, time |-> c.second] \in factors
        BY <1>1, <4>2 DEF Dated
      <4>4. AuthenticatedTime(c, TwoFactor) = c.second
        BY DEF AuthenticatedTime, OneFactor, TwoFactor
      <4> QED BY <3>2, <4>3, <4>4
    <3> QED BY <1>3, <3>1, <3>2
  <2>2. [user |-> answer'[t].subject, level |-> ClientPolicy[answer'[t].ask.client],
         time |-> answer'[t].authTime] \in factors'
    <3>1. /\ answer'[t].subject = c.username /\ answer'[t].ask = b
          /\ answer'[t].authTime = AuthenticatedTime(c, ClientPolicy[b.client])
      BY <1>8, <1>9
    <3>2. factors' = factors
      BY <1>4
    <3> QED BY <2>1, <3>1, <3>2
  <2>3. \A q \in Tabs \ {t} : answer'[q] # Nil =>
           [user |-> answer'[q].subject, level |-> ClientPolicy[answer'[q].ask.client],
            time |-> answer'[q].authTime] \in factors'
    <3> SUFFICES ASSUME NEW q \in Tabs \ {t}, answer'[q] # Nil
                 PROVE  [user |-> answer'[q].subject,
                         level |-> ClientPolicy[answer'[q].ask.client],
                         time |-> answer'[q].authTime] \in factors'
      BY Zenon
    <3>1. answer'[q] = answer[q] /\ factors' = factors
      BY <1>4, <1>9, Zenon
    <3> QED BY <3>1, Zenon DEF WorkflowInv, AuthTimeOfSubject
  <2> QED BY <2>2, <2>3, Zenon DEF AuthTimeOfSubject
<1>12. answer' \in [Tabs -> Answers \cup {Nil}]
  BY <1>1, <1>4, <1>7, Zenon
<1>13. "done" \in Pages
  BY DEF Pages
<1> QED BY <1>1, <1>4, <1>5, <1>6, <1>10, <1>11, <1>12, <1>13, SavedAnswer, Zenon

\* What the user accepts is in the workflow, and noted.
LEMMA AcceptStep ==
    ASSUME WorkflowInv, NEW t \in Tabs, Accept(t)
    PROVE  WorkflowInv'
<1> DEFINE c == copy[t]
           a == c.workflow.ask
           g == [scopes |-> a.scopes, audience |-> a.audience]
           s == [c EXCEPT !.workflow.grantedScopes = a.scopes,
                          !.workflow.grantedAudience = a.audience]
<1>1. /\ c \in Sessions /\ Dated(c, factors) /\ c.workflow # Nil
      /\ factors \subseteq [user : Users, level : {OneFactor, TwoFactor}, time : 1..MaxTime]
      /\ accepted \subseteq {[scopes |-> b.scopes, audience |-> b.audience] : b \in Asks}
      /\ answer \in [Tabs -> Answers \cup {Nil}]
  BY DEF Accept, WorkflowInv, TypeOK, SessionsEarned, Earned, RequestsChecked, Checked
<1>2. /\ accepted' = accepted \cup {g}
      /\ UNCHANGED <<now, visits, factors, answer>>
      /\ \E id \in SaveIds(t) : Answer(t, id, SaveSession(id, s), "authorize", a)
  BY DEF Accept
<1>3. s \in Sessions /\ a \in Asks /\ Earned(s, factors, accepted \cup {g})
  BY <1>1, AcceptanceEarned, Zenon
<1> HIDE DEF s, a
<1>4. Earned(s, factors', accepted')
  BY <1>2, <1>3
<1>5. AnswersConsented' /\ AuthTimeOfSubject'
  BY <1>2, AnswersKept
<1>6. accepted' \subseteq {[scopes |-> b.scopes, audience |-> b.audience] : b \in Asks}
  BY <1>1, <1>2, <1>3, Zenon
<1>7. "authorize" \in Pages
  BY DEF Pages
<1> QED BY <1>1, <1>2, <1>3, <1>4, <1>5, <1>6, <1>7, SavedAnswer, Zenon

\* Answers that save nothing.
LEMMA UnsavedSteps ==
    ASSUME WorkflowInv, NEW t \in Tabs, handleOIDCWorkflowResponse(t) \/ Fail(t)
    PROVE  WorkflowInv'
<1>1. UNCHANGED <<now, visits, factors, accepted, answer>>
  BY Zenon DEF handleOIDCWorkflowResponse, Fail
<1>2. CASE Fail(t)
  <2>1. PICK id \in {cookie, sid[t]} : Answer(t, id, store, "closed", Nil)
    BY <1>2 DEF Fail
  <2>2. "closed" \in Pages
    BY DEF Pages
  <2> QED BY <1>1, <2>1, <2>2, UnsavedAnswer
<1>3. CASE handleOIDCWorkflowResponse(t)
  <2> DEFINE s == GetSession(sid[t])
  <2>1. s \in Sessions
    BY GotEarned, Zenon DEF WorkflowInv, TypeOK
  <2>2. s.workflow # Nil => s.workflow.ask \in Asks
    BY <2>1, Zenon DEF Sessions, Workflows
  <2>3. \/ \E p \in {"portal", "consent"} : Answer(t, sid[t], store, p, Nil)
        \/ Answer(t, sid[t], store, "authorize", s.workflow.ask) /\ s.workflow # Nil
    BY <1>3, Zenon DEF handleOIDCWorkflowResponse
  <2> HIDE DEF s
  <2>4. \E p \in Pages, a \in Asks \cup {Nil} :
           Answer(t, sid[t], store, p, a) /\ (p = "authorize" => a \in Asks)
    BY <2>2, <2>3 DEF Pages
  <2> QED BY <1>1, <2>4, UnsavedAnswer
<1> QED BY <1>2, <1>3

\* Login: all but the workflow is reset, ...
LEMMA ResetStep ==
    ASSUME WorkflowInv, NEW t \in Tabs, Reset(t)
    PROVE  WorkflowInv'
<1> DEFINE s == [NewDefaultUserSession EXCEPT !.workflow = copy[t].workflow]
<1>1. PICK id \in SaveIds(t) :
         /\ store' = SaveSession(id, s) /\ sid' = [sid EXCEPT ![t] = id]
  BY Zenon DEF Reset
<1>2. /\ pc[t] = "reset" /\ pc' = [pc EXCEPT ![t] = "regenerate1"]
      /\ UNCHANGED <<cookie, now, page, ask, form, user, copy, visits, factors,
                     accepted, answer>>
  BY DEF Reset
<1>3. copy[t] \in Sessions /\ Granted(copy[t].workflow, accepted)
  BY Zenon DEF WorkflowInv, TypeOK, SessionsEarned, Earned
<1>4. NewDefaultUserSession \in Sessions /\ Dated(NewDefaultUserSession, factors)
  BY DefaultEarned DEF Earned
<1>5. copy[t].workflow \in Workflows \cup {Nil}
  BY <1>3, Zenon DEF Sessions
<1>6. s \in Sessions /\ s.workflow = copy[t].workflow /\ Dated(s, factors)
  BY <1>4, <1>5, WorkflowReplaced
<1> HIDE DEF s
<1>7. Earned(s, factors, accepted)
  BY <1>3, <1>6 DEF Earned
<1>8. /\ id \in SessionIds /\ id # NoId
      /\ \A q \in Tabs \ {t} : pc[q] \in Regenerated => id # sid[q]
  BY OIDCAssumption DEF SaveIds, Fresh, WorkflowInv, TypeOK, IdsUnshared, Unshared
<1>9. /\ store'[id] = s /\ \A i \in SessionIds \ {id} : store'[i] = store[i]
      /\ sid'[t] = id /\ pc'[t] = "regenerate1"
      /\ \A q \in Tabs \ {t} : sid'[q] = sid[q] /\ pc'[q] = pc[q]
  BY <1>1, <1>2, <1>8, Zenon DEF SaveSession, WorkflowInv, TypeOK
<1>10. TypeOK'
  BY <1>1, <1>2, <1>6, <1>8, Zenon DEF SaveSession, WorkflowInv, TypeOK, Steps
<1>11. Checked(t)' /\ pc'[t] \notin Regenerated /\ pc'[t] # "respond"
  BY <1>2, <1>8, <1>9, Zenon DEF WorkflowInv, RequestsChecked, Checked, Regenerated
<1>12. \A i \in SessionIds : store'[i] # Absent => Earned(store'[i], factors', accepted')
  BY <1>2, <1>7, <1>9, Zenon DEF WorkflowInv, SessionsEarned
<1>13. \A q \in Tabs \ {t} :
          pc[q] \in Regenerated =>
             cookie' # sid[q] /\ sid'[t] # sid[q] /\ store'[sid[q]] = store[sid[q]]
  BY <1>2, <1>8, <1>9, NewId, Zenon
<1>14. AnswersConsented' /\ AuthTimeOfSubject'
  BY <1>2, AnswersKept
<1>15. Earned(copy'[t], factors', accepted')
  BY <1>2, Zenon DEF WorkflowInv, SessionsEarned
<1> QED BY <1>2, <1>9, <1>10, <1>11, <1>12, <1>13, <1>14, <1>15, OneTabMoves, Zenon

\* ... and it moves to an id that nobody has.
LEMMA RegenerateStep ==
    ASSUME WorkflowInv, NEW t \in Tabs, Regenerate(t)
    PROVE  WorkflowInv'
<1>1. PICK id \in Fresh :
         /\ store' = [store EXCEPT ![id] = store[sid[t]], ![sid[t]] = Absent]
         /\ sid' = [sid EXCEPT ![t] = id]
  BY Zenon DEF Regenerate, RegenerateSession
<1>2. PICK next \in {"save1", "save2"} :
         /\ pc[t] = IF next = "save1" THEN "regenerate1" ELSE "regenerate2"
         /\ pc' = [pc EXCEPT ![t] = next]
  BY Zenon DEF Regenerate, WorkflowInv, TypeOK
<1>3. UNCHANGED <<cookie, now, page, ask, form, user, copy, visits, factors,
                  accepted, answer>>
  BY DEF Regenerate
<1>4. sid[t] \in SessionIds /\ id \in SessionIds
  BY <1>2, Zenon DEF Fresh, WorkflowInv, TypeOK, RequestsChecked, Checked
<1>5. cookie # id /\ \A q \in Tabs : sid[q] # id
  BY DEF Fresh
<1>6. /\ store' \in [SessionIds -> Sessions \cup {Absent}]
      /\ \A i \in SessionIds \ {id, sid[t]} : store'[i] = store[i]
      /\ store'[id] = store[sid[t]] /\ store'[sid[t]] = Absent
  BY <1>1, <1>4, <1>5, Zenon DEF WorkflowInv, TypeOK
<1>7. /\ sid'[t] = id /\ pc'[t] = next
      /\ \A q \in Tabs \ {t} : sid'[q] = sid[q] /\ pc'[q] = pc[q]
  BY <1>1, <1>2, Zenon DEF WorkflowInv, TypeOK
<1>8. TypeOK'
  BY <1>1, <1>2, <1>3, <1>4, <1>6, Zenon DEF WorkflowInv, TypeOK, Steps
<1>9. Checked(t)'
  BY <1>2, <1>3, <1>4, <1>7, OIDCAssumption, Zenon DEF WorkflowInv, RequestsChecked, Checked
<1>10. \A i \in SessionIds : store'[i] # Absent => Earned(store'[i], factors', accepted')
  BY <1>3, <1>4, <1>6, Zenon DEF WorkflowInv, SessionsEarned
<1>11. \A q \in Tabs \ {t} :
          pc[q] \in Regenerated =>
             cookie' # sid[q] /\ sid'[t] # sid[q] /\ store'[sid[q]] = store[sid[q]]
  <2>1. \A q \in Tabs \ {t} :
           pc[q] \in Regenerated =>
              sid[q] \in SessionIds \ {id, sid[t]} /\ cookie # sid[q] /\ id # sid[q]
    BY <1>5, NewId
  <2> QED BY <1>3, <1>6, <1>7, <2>1, Zenon
<1>12. Unshared(t)'
  BY <1>3, <1>5, <1>7 DEF Unshared
<1>13. AnswersConsented' /\ AuthTimeOfSubject'
  BY <1>3, AnswersKept
<1>14. Earned(copy'[t], factors', accepted')
  BY <1>3 DEF WorkflowInv, SessionsEarned
<1>15. pc'[t] # "respond"
  BY <1>7
<1> QED BY <1>3, <1>7, <1>8, <1>9, <1>10, <1>11, <1>12, <1>13, <1>14, <1>15,
   OneTabMoves, Zenon

\* The session is saved with the factor, under an id that nobody else has.
LEMMA SaveFactorStep ==
    ASSUME WorkflowInv, NEW t \in Tabs, SaveFactor(t)
    PROVE  WorkflowInv'
<1> DEFINE c == copy[t]
           s == IF pc[t] = "save1" THEN SetOneFactor(c, user[t], now) ELSE SetTwoFactor(c, now)
           f == [user |-> s.username, level |-> s.level, time |-> now]
<1>1. /\ c \in Sessions /\ Earned(c, factors, accepted) /\ now \in 1..MaxTime
      /\ factors \subseteq [user : Users, level : {OneFactor, TwoFactor}, time : 1..MaxTime]
      /\ accepted \subseteq {[scopes |-> b.scopes, audience |-> b.audience] : b \in Asks}
      /\ answer \in [Tabs -> Answers \cup {Nil}]
  BY Zenon DEF WorkflowInv, TypeOK, SessionsEarned
<1>2. /\ pc[t] \in {"save1", "save2"} /\ sid[t] # NoId /\ sid[t] \in SessionIds /\ Unshared(t)
      /\ pc[t] = "save1" => user[t] \in Users
      /\ pc[t] = "save2" => c.level >= OneFactor
      /\ page[t] = "authorize" => ask[t] \in Asks
  BY Zenon DEF SaveFactor, WorkflowInv, TypeOK, RequestsChecked, Checked,
     IdsUnshared, Regenerated
<1>3. /\ s \in Sessions /\ s.workflow = c.workflow
      /\ f \in [user : Users, level : {OneFactor, TwoFactor}, time : 1..MaxTime]
      /\ Earned(s, factors \cup {f}, accepted)
  <2>1. CASE pc[t] = "save1"
    BY <1>1, <1>2, <2>1, FirstFactorEarned, Zenon
  <2>2. CASE pc[t] = "save2"
    BY <1>1, <1>2, <2>2, SecondFactorEarned, Zenon
  <2> QED BY <1>2, <2>1, <2>2, Zenon
<1>4. /\ factors' = factors \cup {f} /\ UNCHANGED <<now, visits, accepted, answer>>
      /\ IF s.workflow = Nil
         THEN Answer(t, sid[t], SaveSession(sid[t], s), "closed", Nil)
         ELSE /\ store' = SaveSession(sid[t], s)
              /\ pc' = [pc EXCEPT ![t] = "respond"] /\ copy' = [copy EXCEPT ![t] = s]
              /\ UNCHANGED <<cookie, page, ask, form, sid, user>>
  BY Zenon DEF SaveFactor
<1> HIDE DEF s, f, c
<1>5. Earned(s, factors', accepted')
  BY <1>3, <1>4, Zenon
<1>6. factors' \subseteq [user : Users, level : {OneFactor, TwoFactor}, time : 1..MaxTime]
  BY <1>1, <1>3, <1>4, Zenon
<1>7. AnswersConsented' /\ AuthTimeOfSubject'
  BY <1>4, AnswersKept
<1>8. CASE s.workflow = Nil
  <2>1. sid[t] \in SaveIds(t) /\ "closed" \in Pages
    BY <1>2, Zenon DEF SaveIds, Pages
  <2> QED BY <1>1, <1>3, <1>4, <1>5, <1>6, <1>7, <1>8, <2>1, SavedAnswer, Zenon
<1>9. CASE s.workflow # Nil
  <2>1. /\ store'[sid[t]] = s /\ \A i \in SessionIds \ {sid[t]} : store'[i] = store[i]
        /\ pc'[t] = "respond" /\ copy'[t] = s
        /\ \A q \in Tabs \ {t} : pc'[q] = pc[q] /\ copy'[q] = copy[q]
    BY <1>2, <1>4, <1>9, Zenon DEF SaveSession, WorkflowInv, TypeOK
  <2>2. TypeOK'
    <3>0. /\ store \in [SessionIds -> Sessions \cup {Absent}]
          /\ copy \in [Tabs -> Sessions] /\ pc \in [Tabs -> Steps]
      BY Zenon DEF WorkflowInv, TypeOK
    <3>1. /\ store' = [store EXCEPT ![sid[t]] = s]
          /\ pc' = [pc EXCEPT ![t] = "respond"] /\ copy' = [copy EXCEPT ![t] = s]
      BY <1>4, <1>9, Zenon DEF SaveSession
    <3>2. store' \in [SessionIds -> Sessions \cup {Absent}]
      BY <1>2, <1>3, <3>0, <3>1
    <3>3. copy' \in [Tabs -> Sessions]
      BY <1>3, <3>0, <3>1
    <3>4. pc' \in [Tabs -> Steps]
      BY <3>0, <3>1 DEF Steps
    <3> QED BY <1>4, <1>6, <1>9, <3>2, <3>3, <3>4, Zenon DEF WorkflowInv, TypeOK
  <2>3. Checked(t)' /\ Unshared(t)'
    BY <1>2, <1>4, <1>9, <2>1, Zenon DEF Checked, Unshared
  <2>4. \A i \in SessionIds : store'[i] # Absent => Earned(store'[i], factors', accepted')
    <3>1. \A i \in SessionIds \ {sid[t]} :
             store[i] # Absent => Earned(store[i], factors', accepted')
      BY <1>4, EarnedStays, Zenon DEF WorkflowInv, SessionsEarned
    <3> QED BY <1>5, <2>1, <3>1, Zenon
  <2>5. \A q \in Tabs \ {t} :
           pc[q] \in Regenerated =>
              cookie' # sid[q] /\ sid'[t] # sid[q] /\ store'[sid[q]] = store[sid[q]]
    <3>1. UNCHANGED <<cookie, sid>>
      BY <1>4, <1>9, Zenon
    <3>2. \A q \in Tabs \ {t} :
             pc[q] \in Regenerated =>
                sid[q] \in SessionIds \ {sid[t]} /\ cookie # sid[q] /\ sid[t] # sid[q]
      BY NewId
    <3> QED BY <2>1, <3>1, <3>2
  <2>6. store'[sid'[t]] = copy'[t]
    BY <1>4, <1>9, <2>1, Zenon
  <2> QED BY <1>4, <1>5, <1>7, <1>9, <2>1, <2>2, <2>3, <2>4, <2>5, <2>6, OneTabMoves, Zenon
<1> QED BY <1>8, <1>9

\* Logging out forgets the session of the cookie, which is nobody's new id.
LEMMA LogoutStep ==
    ASSUME WorkflowInv, NEW t \in Tabs, LogoutPost(t)
    PROVE  WorkflowInv'
<1>1. /\ pc[t] = "idle" /\ cookie # NoId /\ visits < MaxVisits /\ visits' = visits + 1
      /\ store' = [store EXCEPT ![cookie] = Absent] /\ cookie' = NoId
      /\ Show(t, "closed", Nil, Nil)
      /\ UNCHANGED <<now, pc, user, sid, copy, factors, accepted, answer>>
  BY DEF LogoutPost
<1>2. cookie \in SessionIds /\ visits' \in 0..MaxVisits /\ "closed" \in Pages
  BY <1>1, OIDCAssumption DEF WorkflowInv, TypeOK, Pages
<1>3. TypeOK'
  BY <1>1, <1>2, Zenon DEF WorkflowInv, TypeOK, Show
<1>4. /\ page'[t] = "closed"
      /\ \A q \in Tabs \ {t} : page'[q] = page[q] /\ ask'[q] = ask[q]
      /\ store'[cookie] = Absent /\ \A i \in SessionIds \ {cookie} : store'[i] = store[i]
  BY <1>1, <1>2, Zenon DEF WorkflowInv, TypeOK, Show
<1>5. Checked(t)' /\ pc'[t] \notin Regenerated /\ pc'[t] # "respond"
  BY <1>1, <1>4, Zenon DEF Checked, Regenerated
<1>6. \A q \in Tabs \ {t} :
         pc[q] \in Regenerated =>
            cookie' # sid[q] /\ sid'[t] # sid[q] /\ store'[sid[q]] = store[sid[q]]
  BY <1>1, <1>4, NewId, Zenon
<1>7. AnswersConsented' /\ AuthTimeOfSubject'
  BY <1>1, AnswersKept
<1>8. \A i \in SessionIds : store'[i] # Absent => Earned(store'[i], factors', accepted')
  BY <1>1, <1>2, <1>4, Zenon DEF WorkflowInv, SessionsEarned
<1>9. Earned(copy'[t], factors', accepted')
  BY <1>1, Zenon DEF WorkflowInv, SessionsEarned
<1> QED BY <1>1, <1>3, <1>4, <1>5, <1>6, <1>7, <1>8, <1>9, OneTabMoves, Zenon

\* The clock, or nothing, moves.
LEMMA TickStep ==
    ASSUME WorkflowInv, now' \in 1..MaxTime,
           UNCHANGED <<store, cookie, page, ask, form, pc, user, sid, copy, visits,
                       factors, accepted, answer>>
    PROVE  WorkflowInv'
<1>1. TypeOK'
  BY Zenon DEF WorkflowInv, TypeOK
<1>2. SessionsEarned'
  BY Zenon DEF WorkflowInv, SessionsEarned
<1>3. RequestsChecked'
  BY Zenon DEF WorkflowInv, RequestsChecked, Checked, IsAuthLevelSufficient, isConsentMissing
<1>4. IdsUnshared' /\ SavedIsCopy'
  BY Zenon DEF WorkflowInv, IdsUnshared, Unshared, SavedIsCopy
<1>5. AnswersConsented' /\ AuthTimeOfSubject'
  BY AnswersKept
<1> QED BY <1>1, <1>2, <1>3, <1>4, <1>5 DEF WorkflowInv

-----------------------------------------------------------------------------
(***************************************************************************)
(* The theorems.                                                           *)
(***************************************************************************)

\* No session, no request, no answer.
LEMMA WorkflowInit == Init => WorkflowInv
<1> SUFFICES ASSUME Init PROVE WorkflowInv
  OBVIOUS
<1>1. TypeOK
  <2>1. NewDefaultUserSession \in Sessions
    BY DefaultEarned
  <2>2. now = 1 /\ visits = 0
    BY DEF Init
  <2>3. now \in 1..MaxTime /\ visits \in 0..MaxVisits
    BY <2>2, OIDCAssumption
  <2> QED BY <2>1, <2>3, Zenon DEF Init, TypeOK, Pages, Steps
<1>2. SessionsEarned
  BY DefaultEarned DEF Init, SessionsEarned
<1>3. RequestsChecked /\ IdsUnshared /\ SavedIsCopy
  BY DEF Init, RequestsChecked, Checked, IdsUnshared, SavedIsCopy, Regenerated
<1>4. AnswersConsented /\ AuthTimeOfSubject
  BY Zenon DEF Init, AnswersConsented, AuthTimeOfSubject
<1> QED BY <1>1, <1>2, <1>3, <1>4 DEF WorkflowInv

\* Every step of every tab keeps the invariant.
LEMMA WorkflowNext == WorkflowInv /\ [Next]_vars => WorkflowInv'
<1> SUFFICES ASSUME WorkflowInv, [Next]_vars PROVE WorkflowInv'
  OBVIOUS
<1>1. CASE UNCHANGED vars
  BY <1>1, TickStep, Zenon DEF vars, WorkflowInv, TypeOK
<1>2. CASE Tick
  <2>1. now' \in 1..MaxTime
    BY <1>2, OIDCAssumption DEF Tick, WorkflowInv, TypeOK
  <2> QED BY <1>2, <2>1, TickStep DEF Tick
<1>3. ASSUME NEW t \in Tabs,
             \/ \E a \in Asks : Visit(t, "authorize", a)
             \/ \E p \in {"login", "consent"} : Visit(t, p, Nil)
      PROVE  WorkflowInv'
  BY <1>3, VisitStep
<1>4. ASSUME NEW t \in Tabs, Follow(t) PROVE WorkflowInv'
  BY <1>4, BeginSteps, WorkflowStep, GrantStep, ConsentStep, AcceptStep, ResetStep,
     RegenerateStep, SaveFactorStep, UnsavedSteps DEF Follow
<1>5. ASSUME NEW t \in Tabs, LogoutPost(t) \/ Fail(t) PROVE WorkflowInv'
  BY <1>5, LogoutStep, UnsavedSteps
<1> QED BY <1>1, <1>2, <1>3, <1>4, <1>5 DEF Next

\* The invariant, of every run of every number of tabs.
LEMMA WorkflowInvariant == Spec => []WorkflowInv
BY WorkflowInit, WorkflowNext, PTL DEF Spec

\* Whatever the tabs of a browser do in between, oidcAuthorize answers a client
\* with scopes and an audience only after the user accepted them together.
THEOREM ConsentPrecedesAnswer == Spec => []AnswersConsented
<1>1. WorkflowInv => AnswersConsented
  BY DEF WorkflowInv
<1> QED BY <1>1, WorkflowInvariant, PTL

\* The subject of an answer went through the factor that the client's policy asks
\* for, at the instant in the auth_time claim (AuthenticatedTime).
THEOREM AuthTimeIsSubjects == Spec => []AuthTimeOfSubject
<1>1. WorkflowInv => AuthTimeOfSubject
  BY DEF WorkflowInv
<1> QED BY <1>1, WorkflowInvariant, PTL

\* The session that a login handler saved is the one under the new id.
LEMMA SavedSession ==
    ASSUME WorkflowInv, NEW t \in Tabs, pc[t] = "respond"
    PROVE  GetSession(sid[t]) = copy[t] /\ copy[t].workflow # Nil
<1>1. copy[t].workflow # Nil /\ sid[t] # NoId
  BY Zenon DEF WorkflowInv, RequestsChecked, Checked
<1>2. store[sid[t]] = copy[t] /\ copy[t] \in Sessions
  BY Zenon DEF WorkflowInv, TypeOK, SavedIsCopy
<1> QED BY <1>1, <1>2, AbsentIsNoSession DEF GetSession

\* handleOIDCWorkflowResponse gets the session again, and finds the workflow that
\* the login handler saved.
THEOREM WorkflowIsThere == Spec => []WorkflowStillThere
<1>1. WorkflowInv => WorkflowStillThere
  BY SavedSession DEF WorkflowStillThere
<1> QED BY <1>1, WorkflowInvariant, PTL

\* It dereferences the workflow without a check, and never a nil one.
THEOREM NoNilDereference ==
    Spec => [](\A t \in Tabs : pc[t] = "respond" => GetSession(sid[t]).workflow # Nil)
<1>1. WorkflowInv => \A t \in Tabs : pc[t] = "respond" => GetSession(sid[t]).workflow # Nil
  BY SavedSession
<1> QED BY <1>1, WorkflowInvariant, PTL
=============================================================================
