---------------------------- MODULE AccessProofs ----------------------------
(***************************************************************************)
(* Who is let in and for how long. First the access control, for every     *)
(* configuration, subject and object; then for how long VerifyGet uses a   *)
(* session and its details, for any number of requests and any policies,   *)
(* intervals and latency.                                                  *)
(***************************************************************************)
EXTENDS AccessControl, Verify, WellFoundedInduction, TLAPS

-----------------------------------------------------------------------------
(***************************************************************************)
(* Which level a request needs.                                            *)
(***************************************************************************)

\* Matching is used on positions of rules: its minimum is one of them.
LEMMA MinOfPositions ==
    ASSUME NEW S, S \subseteq Nat, S # {}
    PROVE  Min(S) \in S /\ \A i \in S : Min(S) <= i
  <1> DEFINE R == {ss \in Nat \X Nat : ss[1] < ss[2]}
  <1>1. IsWellFoundedOn(R, Nat)
    BY Zenon, NatLessThanWellFounded DEF OpToRel
  <1>2. PICK x \in S : \A y \in S : ~(<<y, x>> \in R)
    <2> HIDE DEF R
    <2> QED
      BY <1>1, WFMin, Zenon
  <1>3. ASSUME NEW y \in S PROVE x <= y
    <2>1. x \in Nat /\ y \in Nat
      OBVIOUS
    <2>2. y < x => <<y, x>> \in R
      BY <2>1
    <2> QED
      BY <1>2, <2>1, <2>2
  <1>4. \E z \in S : \A y \in S : z <= y
    BY <1>3
  <1> QED
    BY <1>4, Zenon DEF Min

\* GetRequiredLevel returns the policy of a rule, or the default one.
LEMMA LevelComesFromPolicy ==
    ASSUME NEW acl, NEW subject, NEW object, DOMAIN acl.rules \subseteq Nat
    PROVE  \/ GetRequiredLevel(acl, subject, object) = PolicyToLevel(acl.default)
           \/ \E i \in DOMAIN acl.rules :
                 GetRequiredLevel(acl, subject, object)
                    = PolicyToLevel(acl.rules[i].policy)
  <1> DEFINE M == Matching(acl, subject, object)
  <1>1. M \subseteq DOMAIN acl.rules
    BY DEF Matching
  <1>2. CASE M = {}
    BY <1>2 DEF GetRequiredLevel
  <1>3. CASE M # {}
    <2>1. Min(M) \in DOMAIN acl.rules
      BY <1>1, <1>3, MinOfPositions
    <2>2. GetRequiredLevel(acl, subject, object) = PolicyToLevel(acl.rules[Min(M)].policy)
      BY <1>3 DEF GetRequiredLevel
    <2> QED
      BY <2>1, <2>2
  <1> QED
    BY <1>2, <1>3

\* Where IsSecondFactorEnabled is false nobody is asked for a second factor, so
\* LoginPortal is right not to offer one and Handle1FAResponse to redirect to
\* the default page.
THEOREM NoSecondFactorRequired ==
    ASSUME NEW acl, NEW subject, NEW object, DOMAIN acl.rules \subseteq Nat,
           ~IsSecondFactorEnabled(acl)
    PROVE  GetRequiredLevel(acl, subject, object) # TwoFactor
  BY LevelComesFromPolicy DEF IsSecondFactorEnabled

-----------------------------------------------------------------------------

\* Rules that name no users or groups in their domains match a user only if
\* they match an anonymous subject at the same address.
LEMMA MatchingShrinks ==
    ASSUME NEW acl, NEW subject, NEW anonymous, NEW object,
           IsAnonymous(anonymous), anonymous.ip = subject.ip,
           \A i \in DOMAIN acl.rules : \A d \in acl.rules[i].domains :
              d.kind \notin {"user", "group"}
    PROVE  Matching(acl, subject, object) \subseteq Matching(acl, anonymous, object)
  <1> SUFFICES ASSUME NEW i \in DOMAIN acl.rules,
                      IsMatch(acl, acl.rules[i], subject, object)
               PROVE  IsMatch(acl, acl.rules[i], anonymous, object)
    BY DEF Matching
  <1>1. isMatchForDomains(acl.rules[i], anonymous, object)
    BY Zenon DEF IsMatch, isMatchForDomains, DomainIsMatch
  <1>2. isMatchForNetworks(acl, acl.rules[i], anonymous)
    BY DEF IsMatch, isMatchForNetworks
  <1>3. isMatchForSubjects(acl.rules[i], anonymous)
    BY DEF isMatchForSubjects
  <1> QED
    BY <1>1, <1>2, <1>3 DEF IsMatch

\* A rule without subjects that matches the anonymous subject matches the user.
LEMMA BypassMatches ==
    ASSUME NEW acl, NEW subject, NEW anonymous, NEW object,
           anonymous.ip = subject.ip, NEW rule,
           \A d \in rule.domains : d.kind \notin {"user", "group"},
           rule.subjects = {},
           IsMatch(acl, rule, anonymous, object)
    PROVE  IsMatch(acl, rule, subject, object)
  <1>1. isMatchForDomains(rule, subject, object)
    BY Zenon DEF IsMatch, isMatchForDomains, DomainIsMatch
  <1>2. isMatchForNetworks(acl, rule, subject)
    BY DEF IsMatch, isMatchForNetworks
  <1>3. isMatchForSubjects(rule, subject)
    BY DEF isMatchForSubjects, schemaSubjectsToACL
  <1> QED
    BY <1>1, <1>2, <1>3 DEF IsMatch

\* A login never takes away what was open before: in a configuration that the
\* validator accepts, what an anonymous subject may see without authentication
\* every user at the same address may.  The rules of which domains are made
\* from the name or the groups of the user are excepted.
THEOREM BypassForEveryone ==
    ASSUME NEW acl, NEW subject, NEW anonymous, NEW object,
           DOMAIN acl.rules \subseteq Nat,
           ValidateAccessControl(acl),
           IsAnonymous(anonymous), anonymous.ip = subject.ip,
           \A i \in DOMAIN acl.rules : \A d \in acl.rules[i].domains :
              d.kind \notin {"user", "group"},
           GetRequiredLevel(acl, anonymous, object) = Bypass
    PROVE  GetRequiredLevel(acl, subject, object) = Bypass
  <1> DEFINE A == Matching(acl, anonymous, object)
             U == Matching(acl, subject, object)
  <1>1. U \subseteq A /\ A \subseteq DOMAIN acl.rules
    BY MatchingShrinks, Zenon DEF Matching
  <1>2. CASE A = {}
    BY <1>1, <1>2 DEF GetRequiredLevel
  <1>3. CASE A # {}
    <2>1. Min(A) \in A /\ \A i \in A : Min(A) <= i
      BY <1>1, <1>3, MinOfPositions
    <2>2. PolicyToLevel(acl.rules[Min(A)].policy) = Bypass
      BY <1>3 DEF GetRequiredLevel
    <2>3. acl.rules[Min(A)].policy = "bypass"
      BY <2>2 DEF PolicyToLevel, Bypass, OneFactor, TwoFactor, Denied
    <2>4. acl.rules[Min(A)].subjects = {}
      BY <1>1, <2>1, <2>3, Zenon DEF ValidateAccessControl, ValidateRule
    <2>5. Min(A) \in U
      BY <1>1, <2>1, <2>4, BypassMatches, Zenon DEF Matching
    <2>6. Min(U) \in U /\ \A i \in U : Min(U) <= i
      BY <1>1, <2>5, MinOfPositions
    <2>7. Min(U) = Min(A)
      BY <1>1, <2>1, <2>5, <2>6
    <2> QED
      BY <2>2, <2>5, <2>7 DEF GetRequiredLevel
  <1> QED
    BY <1>2, <1>3

-----------------------------------------------------------------------------
(***************************************************************************)
(* For how long a session and its details are used.                        *)
(***************************************************************************)

\* The steps at which a request has the session of a user it may still let in.
Holding == {"inactive", "profile", "refresh", "save", "decide"}

\* The details in session s are refreshed in time: its refreshTTL is at most
\* the interval i, and a request, after they were last right.
Known(s, i, last) ==
    s.user => /\ s.profile \in Profiles
              /\ i # 0 => s.refreshTTL <= last[s.profile] + i + Latency

\* The times of a request and of what it holds.
RequestInv(r) ==
    /\ pc[r] = "idle" => ~copy[r].user
    /\ pc[r] # "idle" => start[r] <= now /\ now <= start[r] + Latency
    /\ pc[r] \in Holding \cup {"mark"} => Known(copy[r], refreshInterval, current)
    /\ pc[r] \in Holding => copy[r].lastActivity <= active
    /\ pc[r] \in Holding \ {"decide"} => outcome[r] = "one_factor"
    /\ pc[r] = "save" => details[r] \in Profiles /\ start[r] <= current[details[r]]
    /\ pc[r] = "decide" /\ copy[r].user /\ outcome[r] = "one_factor" =>
          (RefreshProfile /\ ~failed[r] =>
             start[r] <= current[copy[r].profile] + refreshInterval + Latency)
    /\ pc[r] \in Holding \ {"inactive"} /\ copy[r].user /\ ~copy[r].keep =>
          (Inactivity # 0 /\ outcome[r] # "error" => start[r] <= active + Inactivity)

\* The session in the store.
SessionInv ==
    session # Absent => Known(session, refreshInterval, current) /\ session.lastActivity <= active

\* When the backend was last seen with which details.
BackendInv ==
    /\ \A p \in Profiles : current[p] <= now
    /\ backend # Gone => current[backend] = now

TimeInv == TypeOK /\ BackendInv /\ SessionInv /\ \A r \in Requests : RequestInv(r)

-----------------------------------------------------------------------------

\* The other requests do nothing in a step of r.
OthersKeep(r) ==
    \A q \in Requests \ {r} :
       /\ pc'[q] = pc[q] /\ start'[q] = start[q] /\ copy'[q] = copy[q]
       /\ details'[q] = details[q] /\ failed'[q] = failed[q]
       /\ outcome'[q] = outcome[q]

\* The last times at which the backend had given details, and at which the user
\* was active, only move on.
TimesGrow ==
    /\ refreshInterval' = refreshInterval
    /\ \A p \in Profiles : current[p] <= current'[p]
    /\ active <= active'

\* What was refreshed in time stays so while times move on.
LEMMA KnownStays ==
    ASSUME TimeInv, TypeOK', TimesGrow, NEW s \in Session,
           Known(s, refreshInterval, current)
    PROVE  Known(s, refreshInterval', current')
<1>1. ASSUME s.user, refreshInterval # 0
      PROVE  s.refreshTTL <= current'[s.profile] + refreshInterval + Latency
  <2>1. s.profile \in Profiles /\ s.refreshTTL \in Nat
        /\ s.refreshTTL <= current[s.profile] + refreshInterval + Latency
    BY <1>1 DEF Known, Session
  <2>2. current[s.profile] \in Nat /\ current'[s.profile] \in Nat /\ refreshInterval \in Nat
        /\ Latency \in Nat
    BY <2>1, VerifyAssumption DEF TimeInv, TypeOK
  <2> QED BY <2>1, <2>2 DEF TimesGrow
<1> QED BY <1>1 DEF Known, TimesGrow

\* So does what a request that takes no step holds, within its latency.
LEMMA RequestStays ==
    ASSUME TimeInv, TypeOK', TimesGrow, NEW r \in Requests, now <= now',
           pc[r] # "idle" => now' <= start[r] + Latency,
           pc'[r] = pc[r], start'[r] = start[r], copy'[r] = copy[r],
           details'[r] = details[r], failed'[r] = failed[r], outcome'[r] = outcome[r]
    PROVE  RequestInv(r)'
<1>1. RequestInv(r) /\ copy[r] \in Session /\ start[r] \in Nat /\ now \in Nat /\ now' \in Nat
      /\ active \in Nat /\ active' \in Nat /\ refreshInterval \in Nat
      /\ Latency \in Nat /\ Inactivity \in Nat
  BY VerifyAssumption DEF TimeInv, TypeOK
<1>2. \A p \in Profiles : current[p] \in Nat /\ current'[p] \in Nat /\ current[p] <= current'[p]
  BY DEF TimeInv, TypeOK, TimesGrow
<1>3. Known(copy[r], refreshInterval, current) => Known(copy[r], refreshInterval', current')
  BY <1>1, KnownStays
<1>4. pc[r] # "idle" => start[r] <= now' /\ now' <= start[r] + Latency
  BY <1>1 DEF RequestInv
<1>5. copy[r].lastActivity \in Nat
  BY <1>1 DEF Session
<1>6. pc[r] \in Holding => copy[r].lastActivity <= active'
  BY <1>1, <1>5 DEF RequestInv, TimesGrow
<1>7. pc[r] = "save" => details[r] \in Profiles /\ start[r] <= current'[details[r]]
  BY <1>1, <1>2 DEF RequestInv
<1>8. ASSUME pc[r] = "decide", copy[r].user, outcome[r] = "one_factor",
             RefreshProfile, ~failed[r]
      PROVE  start[r] <= current'[copy[r].profile] + refreshInterval + Latency
  <2>1. copy[r].profile \in Profiles
    BY <1>1, <1>8 DEF RequestInv, Known, Holding
  <2>2. start[r] <= current[copy[r].profile] + refreshInterval + Latency
    BY <1>1, <1>8 DEF RequestInv
  <2> QED BY <1>1, <1>2, <2>1, <2>2
<1>9. ASSUME pc[r] \in Holding \ {"inactive"}, copy[r].user, ~copy[r].keep,
             Inactivity # 0, outcome[r] # "error"
      PROVE  start[r] <= active' + Inactivity
  <2>1. start[r] <= active + Inactivity
    BY <1>1, <1>9 DEF RequestInv
  <2> QED BY <1>1, <2>1 DEF TimesGrow
<1>10. /\ pc[r] = "idle" => ~copy[r].user
       /\ pc[r] \in Holding \ {"decide"} => outcome[r] = "one_factor"
  BY <1>1 DEF RequestInv
<1>11. pc[r] \in Holding \cup {"mark"} => Known(copy[r], refreshInterval', current')
  BY <1>1, <1>3 DEF RequestInv
<1>12. refreshInterval' = refreshInterval
  BY DEF TimesGrow
<1> QED BY <1>4, <1>6, <1>7, <1>8, <1>9, <1>10, <1>11, <1>12 DEF RequestInv

\* In a step of a request only its own part, and the session, need a look.
LEMMA RequestMoves ==
    ASSUME TimeInv, NEW r \in Requests, UNCHANGED <<refreshInterval, world>>,
           TypeOK', active <= active', OthersKeep(r), SessionInv', RequestInv(r)'
    PROVE  TimeInv'
<1>1. UNCHANGED <<now, backend, current>> /\ now \in Nat /\ active \in Nat
      /\ current \in [Profiles -> Nat] /\ start \in [Requests -> Nat]
  BY DEF world, TimeInv, TypeOK
<1>2. TimesGrow
  BY <1>1 DEF TimesGrow
<1>3. ASSUME NEW q \in Requests \ {r}
      PROVE  RequestInv(q)'
  <2>1. pc[q] # "idle" => now' <= start[q] + Latency
    BY <1>1 DEF TimeInv, RequestInv
  <2>2. now <= now'
    BY <1>1
  <2> QED BY <1>2, <2>1, <2>2, RequestStays DEF OthersKeep
<1>4. BackendInv'
  BY <1>1 DEF TimeInv, BackendInv
<1> QED BY <1>3, <1>4 DEF TimeInv

\* So in a step that leaves the session alone, or takes it away, only its own.
LEMMA RequestMovesAlone ==
    ASSUME TimeInv, NEW r \in Requests, UNCHANGED <<refreshInterval, world, active>>,
           session' = session \/ session' = Absent,
           TypeOK', OthersKeep(r), RequestInv(r)'
    PROVE  TimeInv'
<1>1. SessionInv'
  BY DEF TimeInv, SessionInv, world
<1>2. active <= active'
  BY DEF TimeInv, TypeOK
<1> QED BY <1>1, <1>2, RequestMoves

\* What a request reads from the store.
LEMMA GotSession ==
    ASSUME TimeInv, NEW r \in Requests
    PROVE  /\ GetSession(r) \in Session
           /\ Known(GetSession(r), refreshInterval, current)
           /\ GetSession(r).lastActivity <= active
           /\ Anonymous \in Session /\ ~Anonymous.user /\ Anonymous.lastActivity <= active
<1>1. Anonymous \in Session /\ ~Anonymous.user /\ Anonymous.lastActivity <= active
  BY DEF Anonymous, Session, TimeInv, TypeOK
<1> QED BY <1>1 DEF GetSession, Known, TimeInv, TypeOK, SessionInv

-----------------------------------------------------------------------------

\* The session of a user who has just logged in is new in every respect.
LEMMA TimeInit == Init => TimeInv
<1> SUFFICES ASSUME Init PROVE TimeInv
  OBVIOUS
<1>1. Anonymous \in Session /\ ~Anonymous.user
  BY DEF Anonymous, Session
<1>2. PICK keep \in BOOLEAN :
         session = [user |-> TRUE, keep |-> keep, lastActivity |-> now,
                    profile |-> backend, refreshTTL |-> now + refreshInterval]
  BY Zenon DEF Init
<1>3. now \in Nat /\ refreshInterval \in Nat /\ Latency \in Nat /\ backend \in Profiles
  BY VerifyAssumption DEF Init
<1>4. session \in Session
  BY <1>2, <1>3 DEF Session
<1>5. TypeOK
  BY <1>1, <1>3, <1>4, VerifyAssumption DEF Init, TypeOK, Steps, Outcomes, Replies
<1>6. BackendInv
  BY <1>3 DEF Init, BackendInv
<1>7. SessionInv
  BY <1>2, <1>3 DEF Init, SessionInv, Known
<1>8. \A r \in Requests : RequestInv(r)
  BY <1>1, Zenon DEF Init, RequestInv, Holding
<1> QED BY <1>5, <1>6, <1>7, <1>8 DEF TimeInv

\* VerifyGet is called.
LEMMA ReceiveStep ==
    ASSUME TimeInv, NEW r \in Requests, Receive(r), UNCHANGED refreshInterval
    PROVE  TimeInv'
<1>1. TypeOK'
  BY DEF Receive, GoTo, TimeInv, TypeOK, world, Steps
<1>2. OthersKeep(r)
  BY DEF Receive, GoTo, TimeInv, TypeOK, OthersKeep
<1>3. RequestInv(r)'
  <2>1. pc'[r] = "get" /\ start'[r] = now /\ now' = now /\ now \in Nat /\ Latency \in Nat
    BY VerifyAssumption DEF Receive, GoTo, TimeInv, TypeOK, world
  <2>2. start'[r] <= now' /\ now' <= start'[r] + Latency
    BY <2>1
  <2> QED BY <2>1, <2>2, Zenon DEF RequestInv, Holding
<1>4. UNCHANGED <<refreshInterval, world, active>> /\ session' = session
  BY DEF Receive
<1> QED BY <1>1, <1>2, <1>3, <1>4, RequestMovesAlone

\* The handler reads the session, or gets the default one.
LEMMA GetStep ==
    ASSUME TimeInv, NEW r \in Requests, Get(r), UNCHANGED refreshInterval
    PROVE  TimeInv'
<1>1. UNCHANGED <<refreshInterval, world, active>>
      /\ UNCHANGED <<session, start, cookie, details, failed, reply>>
      /\ UNCHANGED <<now, backend, current>>
  BY DEF Get, world
<1>2. PICK s \in {GetSession(r), Anonymous} :
         /\ copy' = [copy EXCEPT ![r] = s]
         /\ GoTo(r, CASE ~s.user -> "decide"
                      [] s.user /\ s.keep -> "profile"
                      [] OTHER -> "inactive")
         /\ Return(r, IF s.user THEN "one_factor" ELSE "none")
  BY Zenon DEF Get
<1>3. s \in Session /\ Known(s, refreshInterval, current) /\ s.lastActivity <= active
  BY GotSession DEF Known
<1>4. /\ pc'[r] \in {"decide", "profile", "inactive"} /\ copy'[r] = s
      /\ IF s.user THEN pc'[r] # "decide" ELSE pc'[r] = "decide"
      /\ pc'[r] = "profile" => s.keep
  <2>1. s.user \in BOOLEAN /\ s.keep \in BOOLEAN
    BY <1>3 DEF Session
  <2>2. copy'[r] = s /\ pc'[r] = CASE ~s.user -> "decide"
                                  [] s.user /\ s.keep -> "profile"
                                  [] OTHER -> "inactive"
    BY <1>2 DEF GoTo, TimeInv, TypeOK
  <2>3. CASE ~s.user
    BY <2>2, <2>3
  <2>4. CASE s.user /\ s.keep
    BY <2>2, <2>4
  <2>5. CASE s.user /\ ~s.keep
    BY <2>2, <2>5
  <2> QED BY <2>1, <2>3, <2>4, <2>5
<1>5. outcome'[r] = IF s.user THEN "one_factor" ELSE "none"
  BY <1>2 DEF Return, TimeInv, TypeOK
<1>6. TypeOK'
  BY <1>1, <1>2, <1>3, <1>4 DEF GoTo, Return, TimeInv, TypeOK, Steps, Outcomes
<1>7. OthersKeep(r)
  BY <1>1, <1>2 DEF GoTo, Return, TimeInv, TypeOK, OthersKeep
<1>8. RequestInv(r)'
  BY <1>1, <1>3, <1>4, <1>5 DEF Get, TimeInv, RequestInv, Holding
<1> QED BY <1>1, <1>6, <1>7, <1>8, RequestMovesAlone

\* The session that was active at the check was active when it was read, or has
\* been since.
LEMMA StillActiveStep ==
    ASSUME TimeInv, NEW r \in Requests, StillActive(r), UNCHANGED refreshInterval
    PROVE  TimeInv'
<1>1. /\ pc[r] = "inactive" /\ pc' = [pc EXCEPT ![r] = "profile"]
      /\ UNCHANGED <<refreshInterval, world, active>> /\ session' = session
      /\ UNCHANGED <<start, cookie, copy, details, failed, outcome, reply>>
      /\ UNCHANGED <<now, backend, current>>
  BY DEF StillActive, GoTo, world, locals
<1>2. Inactivity # 0 => now - GetSession(r).lastActivity <= Inactivity
  BY GotSession, VerifyAssumption
     DEF StillActive, HasUserBeenInactiveTooLong, TimeInv, TypeOK, Session
<1>3. Inactivity # 0 => start[r] <= active + Inactivity
  <2>1. start[r] \in Nat /\ active \in Nat /\ now \in Nat /\ Inactivity \in Nat
        /\ GetSession(r).lastActivity \in Nat
    BY GotSession, VerifyAssumption DEF TimeInv, TypeOK, Session
  <2>2. start[r] <= now
    BY <1>1, Zenon DEF TimeInv, RequestInv
  <2> QED BY <1>2, <2>1, <2>2, GotSession
<1>4. TypeOK'
  BY <1>1 DEF TimeInv, TypeOK, Steps
<1>5. OthersKeep(r) /\ pc'[r] = "profile"
  BY <1>1 DEF TimeInv, TypeOK, OthersKeep
<1>6. RequestInv(r)'
  BY <1>1, <1>3, <1>5, Zenon DEF TimeInv, RequestInv, Holding
<1> QED BY <1>1, <1>4, <1>5, <1>6, RequestMovesAlone

\* The request of an inactive user ends with an error.
LEMMA InactiveStep ==
    ASSUME TimeInv, NEW r \in Requests, Inactive(r) \/ InactiveFails(r),
           UNCHANGED refreshInterval
    PROVE  TimeInv'
<1>1. /\ pc[r] = "inactive" /\ pc' = [pc EXCEPT ![r] = "decide"]
      /\ outcome' = [outcome EXCEPT ![r] = "error"]
      /\ UNCHANGED <<refreshInterval, world, active>>
      /\ session' = session \/ session' = Absent
      /\ copy' = copy \/ copy' = [copy EXCEPT ![r] = Anonymous]
      /\ cookie' = cookie \/ cookie' = [cookie EXCEPT ![r] = FALSE]
      /\ UNCHANGED <<start, details, failed, reply>>
      /\ UNCHANGED <<now, backend, current>>
  BY DEF Inactive, InactiveFails, DestroySession, Return, GoTo, world
<1>2. TypeOK'
  <2>1. Anonymous \in Session
    BY GotSession, Zenon
  <2>2. copy' \in [Requests -> Session] /\ cookie' \in [Requests -> BOOLEAN]
    BY <1>1, <2>1, Zenon DEF TimeInv, TypeOK
  <2>3. pc' \in [Requests -> Steps] /\ outcome' \in [Requests -> Outcomes]
    BY <1>1, Zenon DEF TimeInv, TypeOK, Steps, Outcomes
  <2> QED BY <1>1, <2>2, <2>3, Zenon DEF TimeInv, TypeOK
<1>3. OthersKeep(r) /\ pc'[r] = "decide" /\ outcome'[r] = "error"
      /\ copy'[r] \in {copy[r], Anonymous}
  BY <1>1 DEF TimeInv, TypeOK, OthersKeep
<1>4. RequestInv(r)'
  <2>1. ~Anonymous.user /\ Anonymous.lastActivity <= active
    BY GotSession
  <2> QED BY <1>1, <1>3, <2>1, Zenon DEF TimeInv, RequestInv, Holding, Known
<1> QED BY <1>1, <1>2, <1>3, <1>4, RequestMovesAlone

\* Details that are not refreshed now are not older than refreshInterval.
LEMMA UpToDateStep ==
    ASSUME TimeInv, NEW r \in Requests, UpToDate(r), UNCHANGED refreshInterval
    PROVE  TimeInv'
<1>1. /\ pc[r] = "profile"
      /\ pc' = [pc EXCEPT ![r] = IF NeedsRefresh(copy[r]) THEN "refresh" ELSE "decide"]
      /\ UNCHANGED <<refreshInterval, world, active>> /\ session' = session
      /\ UNCHANGED <<start, cookie, copy, details, failed, outcome, reply>>
      /\ UNCHANGED <<now, backend, current>>
  BY Zenon DEF UpToDate, GoTo, world, locals
<1>2. TypeOK'
  BY <1>1 DEF TimeInv, TypeOK, Steps
<1>3. OthersKeep(r) /\ pc'[r] = IF NeedsRefresh(copy[r]) THEN "refresh" ELSE "decide"
  BY <1>1 DEF TimeInv, TypeOK, OthersKeep
<1>4. ASSUME ~NeedsRefresh(copy[r]), copy[r].user, RefreshProfile
      PROVE  start[r] <= current[copy[r].profile] + refreshInterval + Latency
  <2>1. start[r] \in Nat /\ now \in Nat /\ refreshInterval \in Nat /\ Latency \in Nat
        /\ copy[r] \in Session /\ current \in [Profiles -> Nat]
    BY VerifyAssumption DEF TimeInv, TypeOK
  <2>2. start[r] <= now /\ Known(copy[r], refreshInterval, current)
    BY <1>1, Zenon DEF TimeInv, RequestInv, Holding
  <2>3. copy[r].refreshTTL \in Nat
    BY <2>1 DEF Session
  <2>4. refreshInterval # 0 /\ now < copy[r].refreshTTL
    BY <1>4, <2>1, <2>3 DEF NeedsRefresh
  <2>5. copy[r].profile \in Profiles
        /\ copy[r].refreshTTL <= current[copy[r].profile] + refreshInterval + Latency
    BY <1>4, <2>2, <2>4 DEF Known
  <2>6. current[copy[r].profile] \in Nat
    BY <2>1, <2>5
  <2> QED BY <2>1, <2>2, <2>3, <2>4, <2>5, <2>6
<1>5. RequestInv(r)'
  <2>1. pc'[r] # "idle" /\ pc'[r] # "save" /\ pc[r] \in Holding \ {"inactive", "decide"}
    BY <1>1, <1>3 DEF Holding
  <2>2. pc'[r] = "decide" => ~NeedsRefresh(copy[r])
    BY <1>3
  <2> QED BY <1>1, <1>4, <2>1, <2>2, Zenon DEF TimeInv, RequestInv
<1> QED BY <1>1, <1>2, <1>3, <1>5, RequestMovesAlone

\* The details are those the backend has now, after the request has started.
LEMMA GetDetailsStep ==
    ASSUME TimeInv, NEW r \in Requests, GetDetails(r), UNCHANGED refreshInterval
    PROVE  TimeInv'
<1>1. /\ pc[r] = "refresh" /\ backend # Gone
      /\ details' = [details EXCEPT ![r] = backend] /\ pc' = [pc EXCEPT ![r] = "save"]
      /\ UNCHANGED <<refreshInterval, world, active>> /\ session' = session
      /\ UNCHANGED <<start, cookie, copy, failed, outcome, reply>>
      /\ UNCHANGED <<now, backend, current>>
  BY DEF GetDetails, GoTo, world
<1>2. backend \in Profiles /\ start[r] <= current[backend]
  BY <1>1 DEF TimeInv, TypeOK, BackendInv, RequestInv
<1>3. TypeOK'
  BY <1>1, <1>2 DEF TimeInv, TypeOK, Steps
<1>4. OthersKeep(r) /\ pc'[r] = "save" /\ details'[r] = backend
  BY <1>1 DEF TimeInv, TypeOK, OthersKeep
<1>5. RequestInv(r)'
  BY <1>1, <1>2, <1>4, Zenon DEF TimeInv, RequestInv, Holding
<1> QED BY <1>1, <1>3, <1>4, <1>5, RequestMovesAlone

\* Without details the request has failed[r], or no level that is enough.
LEMMA NoDetailsStep ==
    ASSUME TimeInv, NEW r \in Requests, GetDetailsFails(r) \/ UserNotFound(r),
           UNCHANGED refreshInterval
    PROVE  TimeInv'
<1>1. /\ pc[r] = "refresh" /\ pc' = [pc EXCEPT ![r] = "decide"]
      /\ \/ failed' = [failed EXCEPT ![r] = TRUE] /\ outcome' = outcome
         \/ /\ failed' = failed
            /\ \E o \in {"none", "error"} : outcome' = [outcome EXCEPT ![r] = o]
      /\ UNCHANGED <<refreshInterval, world, active>>
      /\ session' = session \/ session' = Absent
      /\ cookie' = cookie \/ cookie' = [cookie EXCEPT ![r] = FALSE]
      /\ UNCHANGED <<start, copy, details, reply>>
      /\ UNCHANGED <<now, backend, current>>
  BY DEF GetDetailsFails, UserNotFound, DestroySession, Return, GoTo, world
<1>2. TypeOK'
  <2>1. outcome' \in [Requests -> Outcomes] /\ failed' \in [Requests -> BOOLEAN]
    BY <1>1, Zenon DEF TimeInv, TypeOK, Outcomes
  <2> QED BY <1>1, <2>1, Zenon DEF TimeInv, TypeOK, Steps
<1>3. OthersKeep(r) /\ pc'[r] = "decide"
      /\ \/ failed'[r] /\ outcome'[r] = outcome[r]
         \/ outcome'[r] \in {"none", "error"}
  BY <1>1 DEF TimeInv, TypeOK, OthersKeep
<1>4. RequestInv(r)'
  <2>1. start[r] <= now /\ now <= start[r] + Latency /\ copy[r].lastActivity <= active
        /\ Known(copy[r], refreshInterval, current)
    BY <1>1, Zenon DEF TimeInv, RequestInv, Holding
  <2>2. copy[r].user /\ ~copy[r].keep /\ Inactivity # 0 /\ outcome'[r] # "error" =>
           start[r] <= active + Inactivity
    BY <1>1, Zenon DEF TimeInv, RequestInv, Holding
  <2> QED BY <1>1, <1>3, <2>1, <2>2, Zenon DEF RequestInv, Holding
<1> QED BY <1>1, <1>2, <1>3, <1>4, RequestMovesAlone

\* A session with new details.
LEMMA RefreshedSession ==
    ASSUME TimeInv, NEW s \in Session, NEW p \in Profiles
    PROVE  LET t == Refreshed(s, p)
           IN  /\ t \in Session /\ t.user = s.user /\ t.keep = s.keep
               /\ t.lastActivity = s.lastActivity /\ t.profile = p
               /\ refreshInterval # 0 => t.refreshTTL = now + refreshInterval
<1>1. now + refreshInterval \in Nat
  BY VerifyAssumption DEF TimeInv, TypeOK
<1> DEFINE u == [s EXCEPT !.profile = p]
<1>2. /\ u \in Session /\ u.user = s.user /\ u.keep = s.keep
      /\ u.lastActivity = s.lastActivity /\ u.profile = p
  BY DEF Session
<1> HIDE DEF u
<1> DEFINE t == [u EXCEPT !.refreshTTL = now + refreshInterval]
<1>3. /\ t \in Session /\ t.user = u.user /\ t.keep = u.keep
      /\ t.lastActivity = u.lastActivity /\ t.profile = u.profile
      /\ t.refreshTTL = now + refreshInterval
  BY <1>1, <1>2 DEF Session
<1>4. Refreshed(s, p) = IF refreshInterval = 0 THEN u ELSE t
  BY DEF Refreshed, u
<1> HIDE DEF t
<1> QED BY <1>2, <1>3, <1>4

\* The new details were right after the request had started, so that their
\* refreshTTL is not too late even if other requests write it back.
LEMMA RefreshStep ==
    ASSUME TimeInv, NEW r \in Requests, Refresh(r), UNCHANGED refreshInterval
    PROVE  TimeInv'
<1> DEFINE s == Refreshed(copy[r], details[r])
<1>1. /\ pc[r] = "save" /\ pc' = [pc EXCEPT ![r] = "decide"]
      /\ copy' = [copy EXCEPT ![r] = s]
      /\ session' = s \/ session' = session
      /\ UNCHANGED <<refreshInterval, world, active>>
      /\ UNCHANGED <<start, cookie, details, failed, outcome, reply>>
      /\ UNCHANGED <<now, backend, current>>
  BY DEF Refresh, SaveSession, GoTo, world
<1>2. copy[r] \in Session /\ details[r] \in Profiles /\ start[r] <= current[details[r]]
      /\ copy[r].lastActivity <= active
      /\ start[r] <= now /\ now <= start[r] + Latency
  BY <1>1 DEF TimeInv, TypeOK, RequestInv, Holding
<1>3. start[r] \in Nat /\ now \in Nat /\ refreshInterval \in Nat /\ Latency \in Nat
      /\ current[details[r]] \in Nat /\ active \in Nat
  BY <1>2, VerifyAssumption DEF TimeInv, TypeOK
<1>4. /\ s \in Session /\ s.user = copy[r].user /\ s.keep = copy[r].keep
      /\ s.lastActivity = copy[r].lastActivity /\ s.profile = details[r]
      /\ refreshInterval # 0 => s.refreshTTL = now + refreshInterval
  BY <1>2, RefreshedSession, Zenon
<1> HIDE DEF s
<1>5. Known(s, refreshInterval, current)
  <2>1. now + refreshInterval <= current[details[r]] + refreshInterval + Latency
    <3> DEFINE last == current[details[r]]
               from == start[r]
    <3>1. from \in Nat /\ last \in Nat /\ from <= last /\ now <= from + Latency
      BY <1>2, <1>3, Zenon
    <3>2. now \in Nat /\ refreshInterval \in Nat /\ Latency \in Nat
      BY <1>3, Zenon
    <3> HIDE DEF last, from
    <3>3. now + refreshInterval <= last + refreshInterval + Latency
      BY <3>1, <3>2
    <3> QED BY <3>3, Zenon DEF last
  <2> QED BY <1>2, <1>4, <2>1, Zenon DEF Known
<1>6. TypeOK'
  BY <1>1, <1>4 DEF TimeInv, TypeOK, Steps
<1>7. OthersKeep(r) /\ pc'[r] = "decide" /\ copy'[r] = s
  BY <1>1 DEF TimeInv, TypeOK, OthersKeep
<1>8. start[r] <= current[s.profile] + refreshInterval + Latency
  <2> DEFINE last == current[details[r]]
             from == start[r]
  <2>1. from \in Nat /\ last \in Nat /\ from <= last /\ s.profile = details[r]
    BY <1>2, <1>3, <1>4, Zenon
  <2>2. refreshInterval \in Nat /\ Latency \in Nat
    BY <1>3, Zenon
  <2> HIDE DEF last, from
  <2>3. from <= last + refreshInterval + Latency
    BY <2>1, <2>2
  <2> QED BY <2>1, <2>3, Zenon DEF last, from
<1>9. s.user /\ ~s.keep /\ Inactivity # 0 => start[r] <= active + Inactivity
  BY <1>1, <1>4, Zenon DEF TimeInv, RequestInv, Holding
<1>10. RequestInv(r)'
  BY <1>1, <1>2, <1>4, <1>5, <1>7, <1>8, <1>9, Zenon DEF RequestInv, Holding
<1>11. SessionInv'
  BY <1>1, <1>2, <1>4, <1>5, Zenon DEF TimeInv, SessionInv
<1>12. active <= active'
  <2>1. active' = active /\ active \in Nat
    BY <1>1, <1>3, Zenon
  <2> QED BY <2>1
<1> QED BY <1>1, <1>6, <1>7, <1>10, <1>11, <1>12, RequestMoves

\* Once there is an answer the request holds nothing of the session.
LEMMA AnswerStep ==
    ASSUME TimeInv, NEW r \in Requests, NEW a \in Replies, Answer(r, a),
           UNCHANGED <<refreshInterval, world, active>>,
           session' = session \/ session' = Absent,
           cookie' = cookie \/ cookie' = [cookie EXCEPT ![r] = FALSE],
           NEW n \in Nat, start' = [start EXCEPT ![r] = n], n <= now, now <= n + Latency
    PROVE  TimeInv'
<1> DEFINE k == [Anonymous EXCEPT !.user = copy[r].user]
<1>1. k \in Session
  <2>1. copy[r].user \in BOOLEAN
    BY DEF TimeInv, TypeOK, Session
  <2> QED BY <2>1, Zenon DEF Anonymous, Session
<1>2. copy' = [copy EXCEPT ![r] = k]
  BY DEF Answer
<1> HIDE DEF k
<1>3. TypeOK'
  <2>1. /\ start' \in [Requests -> Nat] /\ cookie' \in [Requests -> BOOLEAN]
        /\ copy' \in [Requests -> Session]
    BY <1>1, <1>2, Zenon DEF TimeInv, TypeOK
  <2>2. /\ pc' \in [Requests -> Steps] /\ details' \in [Requests -> Profiles \cup {NoProfile}]
        /\ failed' \in [Requests -> BOOLEAN] /\ outcome' \in [Requests -> Outcomes]
        /\ reply' \in [Requests -> Replies]
    BY DEF Answer, TimeInv, TypeOK, Steps, Outcomes
  <2> QED BY <2>1, <2>2 DEF TimeInv, TypeOK, world
<1>4. OthersKeep(r) /\ pc'[r] = "touch" /\ start'[r] = n
  BY <1>2 DEF Answer, TimeInv, TypeOK, OthersKeep
<1>5. RequestInv(r)'
  BY <1>4 DEF RequestInv, Holding, world
<1> QED BY <1>3, <1>4, <1>5, RequestMovesAlone

\* The answers there are.
LEMMA AuthorizedReplies ==
    ASSUME NEW s, NEW l
    PROVE  IsTargetURLAuthorized(s, l) \in Replies /\ "unauthorized" \in Replies
BY DEF IsTargetURLAuthorized, Replies

\* The end of VerifyGet, with or without the Session-Username it asks for.
LEMMA DecideStep ==
    ASSUME TimeInv, NEW r \in Requests, Mismatch(r) \/ Decide(r),
           UNCHANGED refreshInterval
    PROVE  TimeInv'
<1>1. PICK a \in Replies : Answer(r, a)
  BY AuthorizedReplies, Zenon DEF Mismatch, Decide
<1>2. /\ pc[r] = "decide" /\ UNCHANGED <<refreshInterval, world, active>>
      /\ session' = session \/ session' = Absent
      /\ cookie' = cookie \/ cookie' = [cookie EXCEPT ![r] = FALSE]
      /\ start' = start
  BY Zenon DEF Mismatch, Decide, DestroySession
<1>3. start[r] \in Nat /\ start' = [start EXCEPT ![r] = start[r]]
  BY <1>2 DEF TimeInv, TypeOK
<1>4. start[r] <= now /\ now <= start[r] + Latency
  BY <1>2, Zenon DEF TimeInv, RequestInv
<1> QED BY <1>1, <1>2, <1>3, <1>4, AnswerStep, Zenon

\* Basic authentication holds no session at all.
LEMMA BasicAuthStep ==
    ASSUME TimeInv, NEW r \in Requests, BasicAuth(r), UNCHANGED refreshInterval
    PROVE  TimeInv'
<1>1. PICK a \in Replies : Answer(r, a)
  BY AuthorizedReplies DEF BasicAuth
<1>2. /\ UNCHANGED <<refreshInterval, world, active>> /\ session' = session
      /\ cookie' = cookie /\ start' = [start EXCEPT ![r] = now]
  BY DEF BasicAuth
<1>3. now \in Nat /\ now <= now /\ now <= now + Latency
  BY VerifyAssumption DEF TimeInv, TypeOK
<1> QED BY <1>1, <1>2, <1>3, AnswerStep, Zenon

\* A request that is over keeps nothing.
LEMMA LeaveStep ==
    ASSUME TimeInv, NEW r \in Requests, Leave(r), UNCHANGED <<refreshInterval, world>>,
           active' \in Nat, active <= active', session' \in Session \cup {Absent},
           SessionInv'
    PROVE  TimeInv'
<1>1. Anonymous \in Session /\ ~Anonymous.user
  BY GotSession
<1>2. TypeOK'
  BY <1>1 DEF Leave, TimeInv, TypeOK, Steps, Outcomes, Replies, world
<1>3. OthersKeep(r) /\ pc'[r] = "idle" /\ copy'[r] = Anonymous
  BY DEF Leave, TimeInv, TypeOK, OthersKeep
<1>4. RequestInv(r)'
  BY <1>1, <1>3, Zenon DEF RequestInv, Holding
<1> QED BY <1>2, <1>3, <1>4, RequestMoves, Zenon

\* There is no activity to mark, or it is not saved.
LEMMA NoMarkStep ==
    ASSUME TimeInv, NEW r \in Requests, NoTouch(r) \/ MarkFails(r),
           UNCHANGED refreshInterval
    PROVE  TimeInv'
<1>1. Leave(r) /\ UNCHANGED <<refreshInterval, world>> /\ UNCHANGED <<session, active>>
  BY DEF NoTouch, MarkFails
<1>2. SessionInv' /\ active' \in Nat /\ active <= active' /\ session' \in Session \cup {Absent}
  BY <1>1 DEF TimeInv, TypeOK, SessionInv, world
<1> QED BY <1>1, <1>2, LeaveStep

\* updateActivityTimestamp reads the session once more, as it is by then ...
LEMMA TouchStep ==
    ASSUME TimeInv, NEW r \in Requests, Touch(r), UNCHANGED refreshInterval
    PROVE  TimeInv'
<1> DEFINE g == GetSession(r)
           s == [g EXCEPT !.lastActivity = now]
<1>1. /\ pc[r] = "touch" /\ pc' = [pc EXCEPT ![r] = "mark"]
      /\ copy' = [copy EXCEPT ![r] = s] /\ reply' = [reply EXCEPT ![r] = "none"]
      /\ UNCHANGED <<refreshInterval, world, active>> /\ session' = session
      /\ UNCHANGED <<start, cookie, details, failed, outcome>>
      /\ UNCHANGED <<now, backend, current>>
  BY DEF Touch, GoTo, world
<1>2. g \in Session /\ Known(g, refreshInterval, current) /\ now \in Nat
  BY GotSession DEF TimeInv, TypeOK
<1> HIDE DEF g
<1>3. /\ s \in Session /\ s.user = g.user /\ s.profile = g.profile
      /\ s.refreshTTL = g.refreshTTL
  BY <1>2 DEF Session
<1> HIDE DEF s
<1>4. TypeOK'
  BY <1>1, <1>3, Zenon DEF TimeInv, TypeOK, Steps, Replies
<1>5. OthersKeep(r) /\ pc'[r] = "mark" /\ copy'[r] = s
  BY <1>1 DEF TimeInv, TypeOK, OthersKeep
<1>6. RequestInv(r)'
  BY <1>1, <1>2, <1>3, <1>5, Zenon DEF TimeInv, RequestInv, Holding, Known
<1> QED BY <1>1, <1>4, <1>5, <1>6, RequestMovesAlone

\* ... and its save counts as activity if it reaches the session of the user.
LEMMA MarkStep ==
    ASSUME TimeInv, NEW r \in Requests, Mark(r), UNCHANGED refreshInterval
    PROVE  TimeInv'
<1>1. /\ pc[r] = "mark" /\ Leave(r) /\ UNCHANGED <<refreshInterval, world>>
      /\ UNCHANGED <<now, backend, current>>
      /\ session' = IF cookie[r] THEN copy[r] ELSE session
      /\ active' = IF cookie[r] /\ copy[r].lastActivity > active
                   THEN copy[r].lastActivity ELSE active
  BY Zenon DEF Mark, SaveSession, world
<1>2. copy[r] \in Session /\ copy[r].lastActivity \in Nat /\ active \in Nat
      /\ Known(copy[r], refreshInterval, current) /\ session \in Session \cup {Absent}
  BY <1>1 DEF TimeInv, TypeOK, RequestInv, Session
<1>3. active' \in Nat /\ active <= active' /\ session' \in Session \cup {Absent}
  <2>0. session' = copy[r] \/ session' = session
    BY <1>1, Zenon
  <2>1. CASE cookie[r] /\ copy[r].lastActivity > active
    <3>1. active' = copy[r].lastActivity
      BY <1>1, <2>1, Zenon
    <3>2. copy[r].lastActivity \in Nat /\ copy[r].lastActivity > active /\ active \in Nat
      BY <1>2, <2>1, Zenon
    <3>3. active' \in Nat /\ active <= active'
      BY <3>1, <3>2
    <3> QED BY <1>2, <2>0, <3>3, Zenon
  <2>2. CASE ~(cookie[r] /\ copy[r].lastActivity > active)
    <3>1. active' = active
      BY <1>1, <2>2, Zenon
    <3>2. active \in Nat
      BY <1>2, Zenon
    <3>3. active' \in Nat /\ active <= active'
      BY <3>1, <3>2
    <3> QED BY <1>2, <2>0, <3>3, Zenon
  <2> QED BY <2>1, <2>2, Zenon
<1>4. SessionInv'
  <2>1. refreshInterval' = refreshInterval /\ current' = current
    BY <1>1, Zenon
  <2>2. CASE cookie[r]
    <3>1. copy[r].lastActivity <= active'
      <4>1. CASE copy[r].lastActivity > active
        <5>1. active' = copy[r].lastActivity
          BY <1>1, <2>2, <4>1, Zenon
        <5> QED BY <1>2, <5>1
      <4>2. CASE ~(copy[r].lastActivity > active)
        <5>1. active' = active
          BY <1>1, <4>2, Zenon
        <5> QED BY <1>2, <4>2, <5>1
      <4> QED BY <4>1, <4>2, Zenon
    <3>2. session' = copy[r]
      BY <1>1, <2>2, Zenon
    <3> QED BY <1>2, <2>1, <3>1, <3>2, Zenon DEF SessionInv
  <2>3. CASE ~cookie[r]
    <3>1. session' = session /\ active' = active
      BY <1>1, <2>3, Zenon
    <3> QED BY <2>1, <3>1, Zenon DEF TimeInv, SessionInv
  <2> QED BY <2>2, <2>3, Zenon
<1> QED BY <1>1, <1>3, <1>4, LeaveStep, Zenon

\* The rest of the world changes no request and no session, and only moves the
\* times on; the clock waits for the requests.
LEMMA WorldMoves ==
    ASSUME TimeInv, TypeOK', BackendInv', now <= now',
           \A r \in Requests : pc[r] # "idle" => now' <= start[r] + Latency,
           \A p \in Profiles : current[p] <= current'[p],
           session' = session \/ session' = Absent,
           UNCHANGED <<refreshInterval, active, pc, locals>>
    PROVE  TimeInv'
<1>1. UNCHANGED <<refreshInterval, active, pc, start, copy, details, failed, outcome>>
  BY Zenon DEF locals
<1>2. TimesGrow
  BY <1>1 DEF TimesGrow, TimeInv, TypeOK
<1>3. ASSUME NEW r \in Requests
      PROVE  RequestInv(r)'
  BY <1>1, <1>2, RequestStays
<1>4. SessionInv'
  <2>1. CASE session' = Absent
    BY <2>1 DEF SessionInv
  <2>2. CASE session' = session /\ session # Absent
    <3>1. session \in Session /\ Known(session, refreshInterval, current)
          /\ session.lastActivity <= active
      BY <2>2 DEF TimeInv, TypeOK, SessionInv
    <3>2. Known(session, refreshInterval', current')
      BY <1>2, <3>1, KnownStays
    <3> QED BY <1>1, <2>2, <3>1, <3>2 DEF SessionInv
  <2> QED BY <2>1, <2>2
<1> QED BY <1>3, <1>4, Zenon DEF TimeInv

\* The backend changes the details or deletes the user.
LEMMA ChangeStep ==
    ASSUME TimeInv, NEW p \in Profiles \cup {Gone}, Change(p), UNCHANGED refreshInterval
    PROVE  TimeInv'
<1>1. /\ backend' = p
      /\ current' = IF p = Gone THEN current ELSE [current EXCEPT ![p] = now]
      /\ UNCHANGED <<refreshInterval, active, pc, locals>> /\ session' = session
      /\ now' = now
  BY DEF Change
<1>2. current \in [Profiles -> Nat] /\ now \in Nat /\ \A q \in Profiles : current[q] <= now
  BY DEF TimeInv, TypeOK, BackendInv
<1>3. current' \in [Profiles -> Nat] /\ \A q \in Profiles : current[q] <= current'[q]
  BY <1>1, <1>2
<1>4. TypeOK'
  BY <1>1, <1>3 DEF TimeInv, TypeOK, locals
<1>5. BackendInv'
  BY <1>1, <1>2 DEF BackendInv
<1>6. now <= now' /\ \A r \in Requests : pc[r] # "idle" => now' <= start[r] + Latency
  <2>1. now <= now'
    BY <1>1, <1>2
  <2> QED BY <1>1, <2>1, Zenon DEF TimeInv, RequestInv
<1> QED BY <1>1, <1>3, <1>4, <1>5, <1>6, WorldMoves, Zenon

\* The session is gone.
LEMMA EndStep ==
    ASSUME TimeInv, End, UNCHANGED refreshInterval
    PROVE  TimeInv'
<1>1. /\ session' = Absent /\ UNCHANGED <<now, backend, current>>
      /\ UNCHANGED <<refreshInterval, active, pc, locals>>
  BY DEF End, world
<1>2. TypeOK' /\ BackendInv'
  BY <1>1 DEF TimeInv, TypeOK, BackendInv, locals
<1>3. /\ now <= now' /\ \A r \in Requests : pc[r] # "idle" => now' <= start[r] + Latency
      /\ \A p \in Profiles : current[p] <= current'[p]
  BY <1>1 DEF TimeInv, TypeOK, RequestInv
<1> QED BY <1>1, <1>2, <1>3, WorldMoves, Zenon

\* A second passes.
LEMMA TickStep ==
    ASSUME TimeInv, Tick, UNCHANGED refreshInterval
    PROVE  TimeInv'
<1>1. /\ now' = now + 1
      /\ current' = IF backend = Gone THEN current ELSE [current EXCEPT ![backend] = now + 1]
      /\ backend' = backend /\ session' = session
      /\ UNCHANGED <<refreshInterval, active, pc, locals>>
      /\ \A r \in Requests : pc[r] # "idle" => now < start[r] + Latency
  BY Zenon DEF Tick
<1>2. /\ current \in [Profiles -> Nat] /\ now \in Nat /\ backend \in Profiles \cup {Gone}
      /\ \A q \in Profiles : current[q] <= now
  BY DEF TimeInv, TypeOK, BackendInv
<1>3. /\ current' \in [Profiles -> Nat]
      /\ \A q \in Profiles : current[q] <= current'[q] /\ current'[q] <= now + 1
      /\ backend # Gone => current'[backend] = now + 1
  <2>1. CASE backend = Gone
    BY <1>1, <1>2, <2>1
  <2>2. CASE backend # Gone
    <3>1. current' = [current EXCEPT ![backend] = now + 1]
      BY <1>1, <2>2, Zenon
    <3>2. now + 1 \in Nat /\ backend \in Profiles
      BY <1>2, <2>2
    <3> QED BY <1>2, <3>1, <3>2
  <2> QED BY <2>1, <2>2
<1>4. TypeOK'
  BY <1>1, <1>2, <1>3 DEF TimeInv, TypeOK, locals
<1>5. BackendInv'
  BY <1>1, <1>3 DEF BackendInv
<1>6. now <= now' /\ \A r \in Requests : pc[r] # "idle" => now' <= start[r] + Latency
  BY <1>1, <1>2, VerifyAssumption DEF TimeInv, TypeOK
<1> QED BY <1>1, <1>3, <1>4, <1>5, <1>6, WorldMoves, Zenon

\* Every step keeps the invariant.
LEMMA TimeStep ==
    ASSUME TimeInv, [Next]_vars
    PROVE  TimeInv'
<1>1. CASE UNCHANGED vars
  BY <1>1, Zenon DEF vars, world, locals, TimeInv, TypeOK, BackendInv, SessionInv, RequestInv
<1>2. CASE Next
  <2>1. ASSUME NEW r \in Requests, Receive(r) \/ BasicAuth(r) \/ Handle(r),
               UNCHANGED refreshInterval
        PROVE  TimeInv'
    BY <2>1, ReceiveStep, BasicAuthStep, GetStep, StillActiveStep, InactiveStep,
       UpToDateStep, GetDetailsStep, NoDetailsStep, RefreshStep, DecideStep, NoMarkStep,
       TouchStep, MarkStep, Zenon DEF Handle
  <2> QED BY <1>2, <2>1, ChangeStep, EndStep, TickStep, Zenon DEF Next
<1> QED BY <1>1, <1>2

\* So it always holds.
LEMMA TimeInvariant == Spec => []TimeInv
BY TimeInit, TimeStep, PTL DEF Spec

-----------------------------------------------------------------------------

\* A user with a session is let in by the decision at the end of VerifyGet only:
\* basic authentication does without the session.
LEMMA OnlyDecide ==
    ASSUME TimeInv, Next, NEW r \in Requests, Authorizes(r), copy[r].user
    PROVE  /\ pc[r] = "decide" /\ outcome[r] # "error"
           /\ IsTargetURLAuthorized(copy[r], outcome[r]) = "authorized"
<1>1. reply \in [Requests -> Replies] /\ reply[r] = "none" /\ reply'[r] = "authorized"
      /\ pc[r] # "idle"
  BY DEF TimeInv, TypeOK, RequestInv, Authorizes
<1>2. reply' # reply
  BY <1>1, Zenon
<1>3. PICK q \in Requests : Receive(q) \/ BasicAuth(q) \/ Handle(q)
  BY <1>2, Zenon DEF Next, Change, End, Tick, locals
<1>4. \A a : Answer(q, a) => q = r /\ a = "authorized"
  BY <1>1 DEF Answer
<1>5. ~Leave(q)
  BY <1>1 DEF Leave
<1>6. ~Receive(q) /\ ~Get(q) /\ ~StillActive(q) /\ ~Inactive(q) /\ ~InactiveFails(q)
      /\ ~UpToDate(q) /\ ~GetDetails(q) /\ ~GetDetailsFails(q) /\ ~UserNotFound(q)
      /\ ~Refresh(q)
  BY <1>2 DEF Receive, Get, StillActive, Inactive, InactiveFails, UpToDate, GetDetails,
              GetDetailsFails, UserNotFound, Refresh, locals
<1>7. ~Touch(q)
  BY <1>1 DEF Touch
<1>8. ~BasicAuth(q)
  BY <1>1, <1>4, Zenon DEF BasicAuth
<1>9. ~Mismatch(q) /\ ~NoTouch(q) /\ ~Mark(q) /\ ~MarkFails(q)
  <2>1. ~Answer(q, "unauthorized")
    BY <1>4
  <2> QED BY <1>5, <2>1, Zenon DEF Mismatch, NoTouch, Mark, MarkFails
<1>10. Decide(q)
  BY <1>3, <1>6, <1>7, <1>8, <1>9, Zenon DEF Handle
<1> DEFINE a == IF outcome[q] = "error" THEN "unauthorized"
                ELSE IsTargetURLAuthorized(copy[q], outcome[q])
<1>11. pc[q] = "decide" /\ Answer(q, a)
  BY <1>10, Zenon DEF Decide
<1>12. q = r /\ a = "authorized"
  BY <1>4, <1>11
<1> QED BY <1>11, <1>12

\* The details of a user who is let in were right at most refreshInterval and
\* two requests ago, whatever overlapping requests have written back.
THEOREM DecisionsAreFresh == Spec => FreshDecision
<1> DEFINE Fresh(r) ==
             /\ Authorizes(r) /\ copy[r].user /\ Required[copy[r].profile] # "bypass"
             /\ RefreshProfile /\ ~failed[r]
             => now <= current[copy[r].profile] + refreshInterval + 2 * Latency
<1>1. ASSUME TimeInv, Next, NEW r \in Requests
      PROVE  Fresh(r)
  <2> SUFFICES ASSUME Authorizes(r), copy[r].user, Required[copy[r].profile] # "bypass",
                      RefreshProfile, ~failed[r]
               PROVE  now <= current[copy[r].profile] + refreshInterval + 2 * Latency
    OBVIOUS
  <2>1. pc[r] = "decide" /\ IsTargetURLAuthorized(copy[r], outcome[r]) = "authorized"
    BY <1>1, OnlyDecide
  <2>2. outcome[r] = "one_factor"
    BY <2>1 DEF IsTargetURLAuthorized
  <2>3. start[r] <= current[copy[r].profile] + refreshInterval + Latency
        /\ now <= start[r] + Latency /\ copy[r].profile \in Profiles
    BY <1>1, <2>1, <2>2, Zenon DEF TimeInv, RequestInv, Holding, Known
  <2>4. start[r] \in Nat /\ now \in Nat /\ refreshInterval \in Nat /\ Latency \in Nat
        /\ current[copy[r].profile] \in Nat
    BY <1>1, <2>3, VerifyAssumption DEF TimeInv, TypeOK
  <2> QED BY <2>3, <2>4
<1>2. ASSUME TimeInv, [Next]_vars
      PROVE  [\A r \in Requests : Fresh(r)]_vars
  BY <1>1, <1>2
<1> QED BY <1>2, TimeInvariant, PTL DEF Spec, FreshDecision

\* A user who was not active for Inactivity, and one request, is let in nowhere
\* with the session, whatever overlapping requests have written back.
THEOREM IdleSessionsOpenNothing == Spec => IdleSessionOpensNothing
<1> DEFINE Awake(r) ==
             Authorizes(r) /\ copy[r].user /\ ~copy[r].keep /\ Inactivity # 0 =>
                now <= active + Inactivity + Latency
<1>1. ASSUME TimeInv, Next, NEW r \in Requests
      PROVE  Awake(r)
  <2> SUFFICES ASSUME Authorizes(r), copy[r].user, ~copy[r].keep, Inactivity # 0
               PROVE  now <= active + Inactivity + Latency
    OBVIOUS
  <2>1. pc[r] = "decide" /\ outcome[r] # "error"
    BY <1>1, OnlyDecide
  <2>2. start[r] <= active + Inactivity /\ now <= start[r] + Latency
    BY <1>1, <2>1, Zenon DEF TimeInv, RequestInv, Holding
  <2>3. start[r] \in Nat /\ now \in Nat /\ active \in Nat /\ Latency \in Nat
        /\ Inactivity \in Nat
    BY <1>1, VerifyAssumption DEF TimeInv, TypeOK
  <2> QED BY <2>2, <2>3
<1>2. ASSUME TimeInv, [Next]_vars
      PROVE  [\A r \in Requests : Awake(r)]_vars
  BY <1>1, <1>2
<1> QED BY <1>2, TimeInvariant, PTL DEF Spec, IdleSessionOpensNothing
=============================================================================
