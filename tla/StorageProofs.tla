--------------------------- MODULE StorageProofs ----------------------------
(***************************************************************************)
(* Proofs about what the storage is asked to tell: the attempts that the   *)
(* regulator counts, for any users, times and bounds; and the user         *)
(* information, for any users, requests and methods.                       *)
(***************************************************************************)
EXTENDS Regulation, UserInfo, FiniteSetTheorems, TLAPS


-----------------------------------------------------------------------------
(***************************************************************************)
(* Type correctness, and the instants Regulate reports.                    *)
(***************************************************************************)

\* Everything the requests and the log know of time is past.
Past ==
    /\ \A i \in DOMAIN log : log[i].time <= now
    /\ \A r \in Requests : at[r] <= now

\* Only an enabled regulator queries the log, and a request that is being
\* handled has not been answered.
Pending ==
    \A r \in Requests :
        /\ pc[r] = "load" => enabled
        /\ pc[r] # "idle" => reply[r].kind # "banned"

ClockInv == TypeOK /\ Past /\ Pending /\ BannedUntilIsAhead

\* The log is empty and no request is being handled.
LEMMA ClockInit == Init => ClockInv
  BY RegulationAssumption
  DEF Init, ClockInv, TypeOK, Past, Pending, BannedUntilIsAhead, Steps, Replies,
      NoReply

\* The rows of an answer, when Regulate counts them.
LEMMA LatestAttemptsTyped ==
    ASSUME ClockInv, enabled, NEW u \in Users, NEW from \in Int,
           NEW s \in LatestAttempts(u, from), NEW i \in 1..MaxRetries
    PROVE  /\ 1 \in 1..MaxRetries /\ MaxRetries \in 1..MaxRetries
           /\ s[i] \in DOMAIN log
           /\ log[s[i]] \in Attempt
           /\ log[s[i]].username = u
           /\ log[s[i]].time \in Nat
           /\ log[s[i]].time > from
           /\ log[s[i]].time <= now
  <1>1. 1 \in 1..MaxRetries /\ MaxRetries \in 1..MaxRetries
    BY RegulationAssumption DEF enabled
  <1>2. s[i] \in AuthenticationLogs(u, from)
    BY DEF LatestAttempts
  <1>3. s[i] \in DOMAIN log /\ log[s[i]] \in Attempt
    BY <1>2 DEF AuthenticationLogs, ClockInv, TypeOK
  <1> QED
    BY <1>1, <1>2, <1>3 DEF AuthenticationLogs, ClockInv, Past, Attempt

\* Every step keeps the times of the rows and of the bans.
LEMMA ClockStep == ClockInv /\ [Next]_vars => ClockInv'
  <1> SUFFICES ASSUME ClockInv, [Next]_vars PROVE ClockInv'
    OBVIOUS
  <1> USE RegulationAssumption
  <1> USE DEF ClockInv
  <1>1. ASSUME NEW r \in Requests, NEW u \in Users, Start(r, u) PROVE ClockInv'
    <2>1. TypeOK'
      BY <1>1 DEF TypeOK, Start, Steps, Replies, NoReply
    <2> QED
      BY <1>1, <2>1 DEF TypeOK, Start, NoReply, Past, Pending, BannedUntilIsAhead
  <1>2. ASSUME NEW r \in Requests, LoadFails(r) \/ LoadFew(r) \/ LoadNotBanned(r)
        PROVE  ClockInv'
    <2>1. /\ pc' = [pc EXCEPT ![r] = "check"] /\ pc[r] = "load"
          /\ UNCHANGED <<now, log, user, at, correct, reply, told>>
          /\ errors' \in 0..MaxErrors
      BY <1>2 DEF TypeOK, LoadFails, LoadFew, LoadNotBanned, Pass
    <2>2. TypeOK'
      BY <2>1 DEF TypeOK, Steps
    <2> QED
      BY <2>1, <2>2 DEF TypeOK, Past, Pending, BannedUntilIsAhead
  <1>3. ASSUME NEW r \in Requests, LoadBanned(r) PROVE ClockInv'
    <2>1. PICK s \in LatestAttempts(user[r], at[r] - BanTime) :
             /\ reply' = [reply EXCEPT ![r] =
                            [kind |-> "banned", until |-> bannedUntil(s)]]
             /\ told' = [told EXCEPT ![user[r]] =
                           IF bannedUntil(s) > @ THEN bannedUntil(s) ELSE @]
      BY Zenon, <1>3 DEF LoadBanned
    <2>2. enabled
      BY <1>3 DEF LoadBanned, Pending
    <2>3. /\ user[r] \in Users
          /\ at[r] - BanTime \in Int
          /\ 1 \in 1..MaxRetries
      BY <2>2 DEF TypeOK, enabled
    <2>4. /\ bannedUntil(s) \in Nat
          /\ at[r] < bannedUntil(s)
          /\ bannedUntil(s) <= now + BanTime
      <3>1. /\ log[s[1]].time \in Nat
            /\ log[s[1]].time > at[r] - BanTime
            /\ log[s[1]].time <= now
        BY <2>2, <2>3, LatestAttemptsTyped
      <3>2. at[r] \in Nat /\ now \in Nat /\ BanTime \in Nat
        BY RegulationAssumption DEF TypeOK
      <3> QED
        BY <3>1, <3>2 DEF bannedUntil
    <2>5. reply' \in [Requests -> Replies]
      BY <2>1, <2>4 DEF TypeOK, Replies
    <2>6. told' \in [Users -> Nat]
      BY <2>1, <2>4 DEF TypeOK
    <2>7. TypeOK'
      BY <1>3, <2>5, <2>6 DEF TypeOK, LoadBanned, Steps
    <2>8. Past' /\ Pending'
      BY <1>3, <2>1 DEF TypeOK, LoadBanned, Past, Pending
    <2>9. BannedUntilIsAhead'
      BY <1>3, <2>1, <2>4 DEF TypeOK, LoadBanned, BannedUntilIsAhead
    <2> QED
      BY <2>7, <2>8, <2>9
  <1>4. ASSUME NEW r \in Requests, Check(r) PROVE ClockInv'
    <2>1. TypeOK'
      BY <1>4 DEF TypeOK, Check, Steps
    <2> QED
      BY <1>4, <2>1 DEF TypeOK, Check, Past, Pending, BannedUntilIsAhead
  <1>5. ASSUME NEW r \in Requests, Mark(r) PROVE ClockInv'
    <2> DEFINE row == [username |-> user[r], successful |-> correct[r],
                       time |-> at[r]]
    <2>1. row \in Attempt /\ log' = Append(log, row) /\ log \in Seq(Attempt)
      BY <1>5 DEF Mark, Attempt, TypeOK
    <2>2. /\ log' \in Seq(Attempt)
          /\ \A i \in DOMAIN log' : log'[i].time <= now
      BY SMTT(60), <2>1 DEF Past, TypeOK, Attempt
    <2>3. reply' \in [Requests -> Replies] /\ reply'[r].kind # "banned"
      BY <1>5 DEF Mark, Answer, Replies, TypeOK
    <2>4. TypeOK'
      BY <1>5, <2>2, <2>3 DEF TypeOK, Mark, Answer, Steps
    <2>5. Past' /\ Pending'
      BY <1>5, <2>2, <2>3 DEF Mark, Answer, TypeOK, Past, Pending
    <2>6. BannedUntilIsAhead'
      BY <1>5, <2>3 DEF Mark, Answer, TypeOK, BannedUntilIsAhead
    <2> QED
      BY <2>4, <2>5, <2>6
  <1>6. ASSUME NEW r \in Requests, MarkFails(r) PROVE ClockInv'
    <2>1. TypeOK'
      BY <1>6 DEF TypeOK, MarkFails, Answer, Steps, Replies
    <2> QED
      BY <1>6, <2>1 DEF TypeOK, MarkFails, Answer, Past, Pending, BannedUntilIsAhead
  <1>7. ASSUME Tick PROVE ClockInv'
    <2>1. now' = now + 1 /\ now \in Nat
      BY <1>7 DEF Tick, TypeOK
    <2>2. TypeOK'
      BY <1>7, <2>1 DEF TypeOK, Tick
    <2>3. Past'
      <3>1. \A i \in DOMAIN log : log[i] \in Attempt
        BY DEF TypeOK
      <3>2. \A i \in DOMAIN log : log[i].time \in Nat
        BY <3>1 DEF Attempt
      <3>3. \A r \in Requests : at[r] \in Nat
        BY DEF TypeOK
      <3> QED
        BY <1>7, <2>1, <3>2, <3>3 DEF Tick, Past
    <2>4. Pending'
      BY <1>7 DEF Tick, Pending
    <2>5. BannedUntilIsAhead'
      <3>1. \A r \in Requests : reply[r].kind = "banned" => reply[r].until \in Nat
        BY DEF TypeOK, Replies
      <3> QED
        BY <1>7, <2>1, <3>1 DEF TypeOK, Tick, BannedUntilIsAhead
    <2> QED
      BY <2>2, <2>3, <2>4, <2>5
  <1>8. CASE UNCHANGED vars
    BY <1>8 DEF vars, TypeOK, Past, Pending, BannedUntilIsAhead
  <1> QED
    BY <1>1, <1>2, <1>3, <1>4, <1>5, <1>6, <1>7, <1>8 DEF Next, Handle

\* Type correctness of the log, the clock and the requests.
THEOREM TypeCorrect == Spec => []TypeOK
  <1>1. ClockInv => TypeOK
    BY DEF ClockInv
  <1> QED
    BY <1>1, ClockInit, ClockStep, PTL DEF Spec

\* The instant a refused request is told is later than the one Regulate read
\* from the clock and at most BanTime ahead.
THEOREM BannedUntilAhead == Spec => []BannedUntilIsAhead
  <1>1. ClockInv => BannedUntilIsAhead
    BY DEF ClockInv
  <1> QED
    BY <1>1, ClockInit, ClockStep, PTL DEF Spec

-----------------------------------------------------------------------------
(***************************************************************************)
(* The bound on failed attempts.  A window is [t, t + FindTime).  Besides  *)
(* the failures it holds the invariant counts the requests that Regulate   *)
(* has let pass and that may still add one.                                *)
(***************************************************************************)

WindowFailures(u, t) == Failures(u, t, t + FindTime)

WindowSuccesses(u, t) == Successes(u, t, t + FindTime)

InFlight(u, t) ==
    {r \in Requests :
        /\ user[r] = u
        /\ \/ pc[r] = "check" /\ now < t + FindTime
           \/ /\ pc[r] = "append"
              /\ ~correct[r]
              /\ t <= at[r] /\ at[r] < t + FindTime}

Bounded(u, t) ==
    WindowSuccesses(u, t) = {} =>
        Cardinality(WindowFailures(u, t)) + Cardinality(InFlight(u, t))
            <= MaxRetries - 1 + Cardinality(Requests) + errors

BoundInv == \A u \in Users, t \in Nat : Bounded(u, t)

\* The rows of the log are attempts.
LEMMA RowsTyped ==
    ASSUME TypeOK
    PROVE  /\ DOMAIN log = 1..Len(log)
           /\ Len(log) \in Nat
           /\ \A i \in DOMAIN log : /\ log[i] \in Attempt
                                    /\ log[i].time \in Nat
                                    /\ log[i].successful \in BOOLEAN
  <1>1. log \in Seq(Attempt)
    BY DEF TypeOK
  <1>2. \A i \in DOMAIN log : log[i] \in Attempt
    BY <1>1
  <1> QED
    BY <1>1, <1>2 DEF Attempt

\* There are finitely many of them ...
LEMMA LogFinite ==
    ASSUME TypeOK
    PROVE  IsFiniteSet(1..Len(log))
  BY RowsTyped, FS_Interval

\* ... so that what is counted of them is a number.
LEMMA CountsTyped ==
    ASSUME TypeOK, NEW u \in Users, NEW t \in Nat
    PROVE  /\ IsFiniteSet(WindowFailures(u, t))
           /\ Cardinality(WindowFailures(u, t)) \in Nat
           /\ IsFiniteSet(InFlight(u, t))
           /\ Cardinality(InFlight(u, t)) \in Nat
           /\ Cardinality(Requests) \in Nat
           /\ Cardinality(InFlight(u, t)) <= Cardinality(Requests)
  <1>1. IsFiniteSet(1..Len(log))
    BY LogFinite
  <1>2. WindowFailures(u, t) \in SUBSET (1..Len(log))
    BY RowsTyped DEF WindowFailures, Failures
  <1>3. InFlight(u, t) \in SUBSET Requests
    BY DEF InFlight
  <1>4. IsFiniteSet(WindowFailures(u, t))
    BY <1>1, <1>2, FS_Subset
  <1>5. /\ IsFiniteSet(InFlight(u, t))
        /\ Cardinality(InFlight(u, t)) <= Cardinality(Requests)
    BY <1>3, FS_Subset, RegulationAssumption
  <1> QED
    BY <1>4, <1>5, FS_CardinalityType, RegulationAssumption

\* A window that already holds MaxRetries failures, and no success, when its
\* end is still ahead: Regulate lets nobody pass.
LEMMA PassMeansRoom ==
    ASSUME ClockInv, enabled, NEW r \in Requests, NEW t \in Nat,
           now < t + FindTime, WindowSuccesses(user[r], t) = {},
           LoadFew(r) \/ LoadNotBanned(r)
    PROVE  Cardinality(WindowFailures(user[r], t)) <= MaxRetries - 1
  <1> DEFINE u == user[r]
             from == at[r] - BanTime
             F == WindowFailures(u, t)
  <1>a. /\ TypeOK /\ u \in Users /\ now \in Nat /\ at[r] \in Nat
        /\ at[r] <= now /\ from \in Int /\ MaxRetries \in Nat /\ MaxRetries >= 1
        /\ FindTime \in Nat /\ BanTime \in Nat /\ FindTime <= BanTime
    BY RegulationAssumption DEF ClockInv, TypeOK, Past, enabled
  <1>b. IsFiniteSet(F) /\ Cardinality(F) \in Nat
    BY <1>a, CountsTyped
  <1>c. \A k \in AuthenticationLogs(u, from) : log[k].time >= t => k \in F
    <2>1. \A k \in DOMAIN log :
             log[k].time \in Nat /\ log[k].time <= now
      BY <1>a, RowsTyped DEF ClockInv, Past
    <2> QED
      BY <1>a, <2>1 DEF AuthenticationLogs, WindowFailures, Failures,
                        WindowSuccesses, Successes
  <1>d. F \subseteq AuthenticationLogs(u, from)
    <2> SUFFICES ASSUME NEW k \in F PROVE k \in AuthenticationLogs(u, from)
      OBVIOUS
    <2>1. /\ k \in DOMAIN log
          /\ log[k].username = u
          /\ t <= log[k].time
      BY DEF WindowFailures, Failures
    <2>2. log[k].time \in Nat
      BY <1>a, <2>1, RowsTyped
    <2>3. log[k].time > from
      BY <1>a, <2>1, <2>2
    <2> QED
      BY <2>1, <2>3 DEF AuthenticationLogs
  <1>1. CASE LoadFew(r)
    <2>1. IsFiniteSet(AuthenticationLogs(u, from))
      <3>1. AuthenticationLogs(u, from) \in SUBSET (1..Len(log))
        BY <1>a, RowsTyped DEF AuthenticationLogs
      <3>2. IsFiniteSet(1..Len(log))
        BY <1>a, LogFinite
      <3> QED
        BY <3>1, <3>2, FS_Subset
    <2>2. Cardinality(F) <= Cardinality(AuthenticationLogs(u, from))
      BY <1>d, <2>1, FS_Subset
    <2>3. Cardinality(AuthenticationLogs(u, from)) \in Nat
      BY <2>1, FS_CardinalityType
    <2>4. Cardinality(AuthenticationLogs(u, from)) < MaxRetries
      BY <1>1 DEF LoadFew
    <2> QED
      BY <1>a, <1>b, <2>2, <2>3, <2>4
  <1>2. CASE LoadNotBanned(r)
    <2>1. PICK s \in LatestAttempts(u, from) : ~IsBanned(s)
      BY <1>2 DEF LoadNotBanned
    <2>2. /\ 1 \in 1..MaxRetries
          /\ MaxRetries \in 1..MaxRetries
          /\ \A i \in 1..MaxRetries : /\ s[i] \in AuthenticationLogs(u, from)
                                      /\ log[s[i]].time \in Nat
                                      /\ log[s[i]].time <= now
      <3>1. \A i \in 1..MaxRetries : s[i] \in AuthenticationLogs(u, from)
        BY DEF LatestAttempts
      <3> QED
        BY <1>a, <3>1, LatestAttemptsTyped
    <2>3. log[s[MaxRetries]].time < t
      <3> SUFFICES ASSUME log[s[MaxRetries]].time >= t PROVE FALSE
        BY <1>a, <2>2
      <3>1. \A i \in 1..MaxRetries : log[s[i]].time >= log[s[MaxRetries]].time
        BY <1>a, <2>2 DEF LatestAttempts
      <3>2. \A i \in 1..MaxRetries : s[i] \in F
        BY <1>a, <1>c, <2>2, <3>1
      <3>3. \A i \in 1..MaxRetries : ~log[s[i]].successful
        BY <3>2 DEF WindowFailures, Failures
      <3>4. log[s[1]].time - log[s[MaxRetries]].time < FindTime
        BY <1>a, <2>2
      <3> QED
        BY <2>1, <3>3, <3>4 DEF IsBanned
    <2>4. \A k \in F : \E i \in 1..(MaxRetries - 1) : s[i] = k
      <3> SUFFICES ASSUME NEW k \in F PROVE \E i \in 1..(MaxRetries - 1) : s[i] = k
        OBVIOUS
      <3>1. log[k].time >= t /\ log[k].time \in Nat
        BY <1>a, RowsTyped DEF WindowFailures, Failures
      <3>2. \/ \E i \in 1..MaxRetries : s[i] = k
            \/ log[k].time <= log[s[MaxRetries]].time
        BY <1>d DEF LatestAttempts
      <3>3. PICK i \in 1..MaxRetries : s[i] = k
        BY <1>a, <2>2, <2>3, <3>1, <3>2
      <3>4. i # MaxRetries
        BY <1>a, <2>2, <2>3, <3>1, <3>3
      <3> QED
        BY <1>a, <3>3, <3>4
    <2>5. SUFFICES ASSUME Cardinality(F) > MaxRetries - 1 PROVE FALSE
      BY <1>a, <1>b
    <2> DEFINE T == 1..(MaxRetries - 1)
               f == [k \in F |-> CHOOSE i \in T : s[i] = k]
    <2>6. \A k \in F : f[k] \in T /\ s[f[k]] = k
      BY <2>4
    <2>7. IsFiniteSet(T) /\ Cardinality(T) = MaxRetries - 1
      <3>1. 1 \in Int /\ MaxRetries - 1 \in Int /\ ~(1 > MaxRetries - 1 + 1)
        BY <1>a
      <3>2. Cardinality(T) = IF 1 > MaxRetries - 1 THEN 0
                             ELSE (MaxRetries - 1) - 1 + 1
        BY Zenon, <3>1, FS_Interval
      <3>3. IsFiniteSet(T)
        BY <3>1, FS_Interval
      <3> QED
        BY <1>a, <3>2, <3>3
    <2>8. f \in [F -> T]
      BY <2>6
    <2>9. \E x, y \in F : x # y /\ f[x] = f[y]
      <3> HIDE DEF T, f, F
      <3> QED
        BY <1>b, <2>5, <2>7, <2>8, FS_PigeonHole
    <2> QED
      BY <2>6, <2>9
  <1> QED
    BY <1>1, <1>2

\* A step that adds no row and lets nobody pass.
LEMMA ShrinkKeepsBounded ==
    ASSUME TypeOK, TypeOK', NEW u \in Users, NEW t \in Nat, Bounded(u, t),
           UNCHANGED log, errors <= errors', InFlight(u, t)' \subseteq InFlight(u, t)
    PROVE  Bounded(u, t)'
  <1>1. /\ WindowFailures(u, t)' = WindowFailures(u, t)
        /\ WindowSuccesses(u, t)' = WindowSuccesses(u, t)
    BY DEF WindowFailures, WindowSuccesses, Failures, Successes
  <1>2. Cardinality(InFlight(u, t)') <= Cardinality(InFlight(u, t))
    BY CountsTyped, FS_Subset
  <1>3. /\ Cardinality(InFlight(u, t)') \in Nat
        /\ Cardinality(InFlight(u, t)) \in Nat
        /\ Cardinality(WindowFailures(u, t)) \in Nat
        /\ Cardinality(Requests) \in Nat
    <2>1. IsFiniteSet(InFlight(u, t)')
      BY CountsTyped, FS_Subset
    <2> QED
      BY <2>1, CountsTyped, FS_CardinalityType
  <1>4. errors \in Nat /\ errors' \in Nat /\ MaxRetries \in Nat
    BY RegulationAssumption DEF TypeOK
  <1> QED
    BY <1>1, <1>2, <1>3, <1>4 DEF Bounded

\* A row that AppendAuthenticationLog adds is the last one, and the only new one.
LEMMA AppendIndexes ==
    ASSUME NEW S, NEW q \in Seq(S), NEW e \in S
    PROVE  /\ Len(q) + 1 \notin DOMAIN q
           /\ DOMAIN Append(q, e) = DOMAIN q \cup {Len(q) + 1}
           /\ \A i \in DOMAIN q : Append(q, e)[i] = q[i]
           /\ Append(q, e)[Len(q) + 1] = e
OBVIOUS

\* While one more failure would not ban, all requests may be in flight.
LEMMA RoomForEveryRequest ==
    ASSUME NEW w \in Nat, NEW k \in Nat, NEW m \in Nat, NEW e \in Nat, NEW max \in Nat,
           w <= max - 1, k <= m
    PROVE  w + k <= max - 1 + m + e
OBVIOUS

\* Every step keeps the count within the bound.
LEMMA BoundStep ==
    ASSUME enabled, ClockInv, BoundInv, [Next]_vars
    PROVE  BoundInv'
  <1> SUFFICES ASSUME NEW u \in Users, NEW t \in Nat PROVE Bounded(u, t)'
    BY DEF BoundInv
  <1>t. TypeOK /\ TypeOK' /\ Bounded(u, t)
    BY ClockStep DEF ClockInv, BoundInv
  <1>n. /\ now \in Nat /\ errors \in Nat /\ errors' \in Nat /\ MaxRetries \in Nat
        /\ FindTime \in Nat
    BY <1>t, RegulationAssumption DEF TypeOK
  <1>e. errors' \in {errors, errors + 1} => errors <= errors'
    BY <1>n
  <1>1. ASSUME NEW r \in Requests, NEW v \in Users, Start(r, v) PROVE Bounded(u, t)'
    <2>1. InFlight(u, t)' \subseteq InFlight(u, t)
      BY <1>1, <1>t DEF Start, InFlight, TypeOK
    <2> QED
      <3>1. log' = log /\ errors' \in {errors, errors + 1}
        BY <1>1, Zenon DEF Start
      <3> QED BY <1>t, <1>e, <2>1, <3>1, ShrinkKeepsBounded, Zenon
  <1>2. ASSUME NEW r \in Requests, LoadFails(r) \/ LoadFew(r) \/ LoadNotBanned(r)
        PROVE  Bounded(u, t)'
    <2>1. /\ pc[r] = "load"
          /\ pc' = [pc EXCEPT ![r] = "check"]
          /\ UNCHANGED <<now, log, user, at, correct, reply, told>>
      BY <1>2, Zenon DEF LoadFails, LoadFew, LoadNotBanned, Pass
    <2>2. /\ InFlight(u, t)' \subseteq InFlight(u, t) \cup {r}
          /\ r \in InFlight(u, t)' => user[r] = u /\ now < t + FindTime
          /\ errors <= errors'
      <3>1. errors' = errors \/ errors' = errors + 1
        BY <1>2, Zenon DEF LoadFails, LoadFew, LoadNotBanned
      <3>2. errors <= errors'
        BY <1>n, <3>1
      <3>3. pc'[r] = "check" /\ \A q \in Requests \ {r} : pc'[q] = pc[q]
        BY <1>t, <2>1, Zenon DEF TypeOK
      <3>4. \A q \in Requests \ {r} : q \in InFlight(u, t)' => q \in InFlight(u, t)
        BY <2>1, <3>3, Zenon DEF InFlight
      <3>5. r \in InFlight(u, t)' => user[r] = u /\ now < t + FindTime
        BY <2>1, <3>3, Zenon DEF InFlight
      <3>6. InFlight(u, t)' \subseteq Requests
        BY Zenon DEF InFlight
      <3> QED BY <3>2, <3>4, <3>5, <3>6, Zenon
    <2>3. CASE r \notin InFlight(u, t)'
      <3>1. InFlight(u, t)' \subseteq InFlight(u, t)
        BY <2>2, <2>3
      <3> QED
        BY <1>t, <2>1, <2>2, <3>1, ShrinkKeepsBounded, Zenon
    <2>4. CASE r \in InFlight(u, t)'
      <3>1. /\ WindowFailures(u, t)' = WindowFailures(u, t)
            /\ WindowSuccesses(u, t)' = WindowSuccesses(u, t)
        BY <2>1 DEF WindowFailures, WindowSuccesses, Failures, Successes
      <3>2. /\ IsFiniteSet(InFlight(u, t)) /\ Cardinality(InFlight(u, t)) \in Nat
            /\ Cardinality(WindowFailures(u, t)) \in Nat
            /\ Cardinality(Requests) \in Nat
        BY <1>t, CountsTyped
      <3>3. /\ Cardinality(InFlight(u, t)') \in Nat
            /\ Cardinality(InFlight(u, t)') <= Cardinality(Requests)
        <4>1. InFlight(u, t)' \in SUBSET Requests
          BY DEF InFlight
        <4> QED
          BY <4>1, FS_Subset, FS_CardinalityType, RegulationAssumption
      <3>4. CASE LoadFails(r)
        <4>1. Cardinality(InFlight(u, t)') <= Cardinality(InFlight(u, t)) + 1
          <5>1. /\ IsFiniteSet(InFlight(u, t) \cup {r})
                /\ Cardinality(InFlight(u, t) \cup {r})
                       <= Cardinality(InFlight(u, t)) + 1
            BY SMTT(60), <3>2, FS_AddElement
          <5>2. Cardinality(InFlight(u, t)') <= Cardinality(InFlight(u, t) \cup {r})
            BY <2>2, <5>1, FS_Subset
          <5>3. Cardinality(InFlight(u, t) \cup {r}) \in Nat
            BY <5>1, FS_CardinalityType
          <5> QED
            BY <3>2, <3>3, <5>1, <5>2, <5>3
        <4>2. errors' = errors + 1
          BY <3>4 DEF LoadFails
        <4> QED
          BY <1>t, <1>n, <3>1, <3>2, <3>3, <4>1, <4>2 DEF Bounded
      <3>5. CASE LoadFew(r) \/ LoadNotBanned(r)
        <4>1. WindowSuccesses(u, t) = {} =>
                 Cardinality(WindowFailures(u, t)) <= MaxRetries - 1
          BY <2>2, <2>4, <3>5, PassMeansRoom
        <4> DEFINE w == Cardinality(WindowFailures(u, t))
                   k == Cardinality(InFlight(u, t)')
                   m == Cardinality(Requests)
        <4>2. w \in Nat /\ k \in Nat /\ m \in Nat /\ k <= m
          BY <3>2, <3>3, Zenon
        <4>3. WindowSuccesses(u, t) = {} => w <= MaxRetries - 1
          BY <4>1, Zenon
        <4> HIDE DEF w, k, m
        <4>4. w <= MaxRetries - 1 => w + k <= MaxRetries - 1 + m + errors'
          BY <1>n, <4>2, RoomForEveryRequest, Zenon
        <4> QED
          BY <3>1, <4>3, <4>4, Zenon DEF Bounded, w, k, m
      <3> QED
        BY <1>2, <3>4, <3>5
    <2> QED
      BY <2>3, <2>4
  <1>3. ASSUME NEW r \in Requests, LoadBanned(r) PROVE Bounded(u, t)'
    <2>1. InFlight(u, t)' \subseteq InFlight(u, t)
      BY <1>3, <1>t, Zenon DEF LoadBanned, InFlight, TypeOK
    <2> QED
      <3>1. log' = log /\ errors' \in {errors, errors + 1}
        BY <1>3, Zenon DEF LoadBanned
      <3> QED BY <1>t, <1>e, <2>1, <3>1, ShrinkKeepsBounded, Zenon
  <1>4. ASSUME NEW r \in Requests, Check(r) PROVE Bounded(u, t)'
    <2>1. InFlight(u, t)' \subseteq InFlight(u, t)
      BY <1>4, <1>t DEF Check, InFlight, TypeOK
    <2> QED
      <3>1. log' = log /\ errors' \in {errors, errors + 1}
        BY <1>4, Zenon DEF Check
      <3> QED BY <1>t, <1>e, <2>1, <3>1, ShrinkKeepsBounded, Zenon
  <1>5. ASSUME NEW r \in Requests, Mark(r) PROVE Bounded(u, t)'
    <2> DEFINE row == [username |-> user[r], successful |-> correct[r],
                       time |-> at[r]]
               n == Len(log) + 1
    <2>1. /\ pc[r] = "append"
          /\ log' = Append(log, row) /\ log \in Seq(Attempt) /\ row \in Attempt
          /\ UNCHANGED <<now, user, errors>>
          /\ pc' = [pc EXCEPT ![r] = "idle"]
          /\ correct' = [correct EXCEPT ![r] = FALSE]
          /\ at' = [at EXCEPT ![r] = 0]
      BY <1>5, <1>t DEF Mark, Answer, TypeOK, Attempt
    <2>2. /\ n \notin DOMAIN log
          /\ DOMAIN log' = DOMAIN log \cup {n}
          /\ \A i \in DOMAIN log : log'[i] = log[i]
          /\ log'[n] = row
      <3> HIDE DEF row
      <3>0. log \in Seq(Attempt) /\ row \in Attempt
        BY <2>1, Zenon
      <3>1. /\ Len(log) + 1 \notin DOMAIN log
            /\ DOMAIN Append(log, row) = DOMAIN log \cup {Len(log) + 1}
            /\ \A i \in DOMAIN log : Append(log, row)[i] = log[i]
            /\ Append(log, row)[Len(log) + 1] = row
        BY <3>0, AppendIndexes
      <3>2. log' = Append(log, row)
        BY <2>1, Zenon
      <3> QED BY <3>1, <3>2, Zenon
    <2>3. InFlight(u, t)' \subseteq InFlight(u, t) \ {r}
      BY <1>t, <2>1, Zenon DEF InFlight, TypeOK
    <2>4. WindowSuccesses(u, t) \subseteq WindowSuccesses(u, t)'
      BY <2>2, Zenon DEF WindowSuccesses, Successes
    <2>5. /\ WindowFailures(u, t)' \subseteq WindowFailures(u, t) \cup {n}
          /\ n \in WindowFailures(u, t)' => r \in InFlight(u, t)
      <3>1. row.username = user[r] /\ row.successful = correct[r] /\ row.time = at[r]
        BY Zenon
      <3> HIDE DEF row, n
      <3>2. ASSUME NEW i \in WindowFailures(u, t)', i # n PROVE i \in WindowFailures(u, t)
        BY <2>2, <3>2, Zenon DEF WindowFailures, Failures
      <3>3. ASSUME n \in WindowFailures(u, t)' PROVE r \in InFlight(u, t)
        <4>1. row.username = u /\ ~row.successful /\ t <= row.time /\ row.time < t + FindTime
          BY <2>2, <3>3, Zenon DEF WindowFailures, Failures
        <4> QED BY <2>1, <3>1, <4>1, Zenon DEF InFlight
      <3> QED BY <3>2, <3>3, Zenon
    <2>6. /\ IsFiniteSet(InFlight(u, t)) /\ Cardinality(InFlight(u, t)) \in Nat
          /\ IsFiniteSet(WindowFailures(u, t))
          /\ Cardinality(WindowFailures(u, t)) \in Nat
          /\ Cardinality(Requests) \in Nat
      BY <1>t, CountsTyped
    <2>7. /\ IsFiniteSet(InFlight(u, t) \ {r})
          /\ Cardinality(InFlight(u, t) \ {r}) =
                IF r \in InFlight(u, t) THEN Cardinality(InFlight(u, t)) - 1
                                        ELSE Cardinality(InFlight(u, t))
      BY <2>6, FS_RemoveElement
    <2>8. /\ Cardinality(InFlight(u, t)') <= Cardinality(InFlight(u, t) \ {r})
          /\ Cardinality(InFlight(u, t)') \in Nat
      BY <2>3, <2>7, FS_Subset, FS_CardinalityType
    <2>9. ASSUME n \in WindowFailures(u, t)'
          PROVE  Cardinality(WindowFailures(u, t)') + Cardinality(InFlight(u, t)')
                     <= Cardinality(WindowFailures(u, t)) + Cardinality(InFlight(u, t))
                 /\ Cardinality(WindowFailures(u, t)') \in Nat
      <3>1. /\ IsFiniteSet(WindowFailures(u, t) \cup {n})
            /\ Cardinality(WindowFailures(u, t) \cup {n})
                  <= Cardinality(WindowFailures(u, t)) + 1
        <4> DEFINE W == WindowFailures(u, t)
        <4>1. IsFiniteSet(W) /\ Cardinality(W) \in Nat
          BY <2>6
        <4> HIDE DEF n, W
        <4>2. /\ IsFiniteSet(W \cup {n})
              /\ \/ Cardinality(W \cup {n}) = Cardinality(W)
                 \/ Cardinality(W \cup {n}) = Cardinality(W) + 1
          BY <4>1, FS_AddElement
        <4> QED
          BY <4>1, <4>2 DEF W
      <3>2. /\ Cardinality(WindowFailures(u, t)')
                  <= Cardinality(WindowFailures(u, t) \cup {n})
            /\ Cardinality(WindowFailures(u, t)') \in Nat
            /\ Cardinality(WindowFailures(u, t) \cup {n}) \in Nat
        BY <2>5, <3>1, FS_Subset, FS_CardinalityType
      <3> DEFINE w1 == Cardinality(WindowFailures(u, t)')
                 w2 == Cardinality(WindowFailures(u, t) \cup {n})
                 w == Cardinality(WindowFailures(u, t))
                 f1 == Cardinality(InFlight(u, t)')
                 f2 == Cardinality(InFlight(u, t) \ {r})
                 f == Cardinality(InFlight(u, t))
      <3>3. /\ w1 \in Nat /\ w2 \in Nat /\ w \in Nat /\ f1 \in Nat /\ f \in Nat
            /\ w1 <= w2 /\ w2 <= w + 1 /\ f1 <= f2 /\ f2 = f - 1
        BY <2>5, <2>6, <2>7, <2>8, <2>9, <3>1, <3>2, Zenon
      <3> HIDE DEF w1, w2, w, f1, f2, f
      <3>4. w1 + f1 <= w + f /\ w1 \in Nat
        BY <3>3
      <3> QED BY <3>4 DEF w1, w, f1, f
    <2>10. ASSUME n \notin WindowFailures(u, t)'
          PROVE  Cardinality(WindowFailures(u, t)') + Cardinality(InFlight(u, t)')
                     <= Cardinality(WindowFailures(u, t)) + Cardinality(InFlight(u, t))
                 /\ Cardinality(WindowFailures(u, t)') \in Nat
      <3>1. WindowFailures(u, t)' \subseteq WindowFailures(u, t)
        BY <2>5, <2>10
      <3>2. /\ Cardinality(WindowFailures(u, t)') <= Cardinality(WindowFailures(u, t))
            /\ Cardinality(WindowFailures(u, t)') \in Nat
        BY <2>6, <3>1, FS_Subset, FS_CardinalityType
      <3> QED
        BY <2>6, <2>7, <2>8, <3>2
    <2>11. WindowSuccesses(u, t)' = {} => WindowSuccesses(u, t) = {}
      BY <2>4
    <2>12. UNCHANGED errors
      BY <2>1
    <2>13. /\ Cardinality(WindowFailures(u, t)') + Cardinality(InFlight(u, t)')
                 <= Cardinality(WindowFailures(u, t)) + Cardinality(InFlight(u, t))
           /\ Cardinality(WindowFailures(u, t)') \in Nat
      BY <2>9, <2>10, Zenon
    <2>14. ASSUME WindowSuccesses(u, t)' = {}
           PROVE  Cardinality(WindowFailures(u, t)) + Cardinality(InFlight(u, t))
                     <= MaxRetries - 1 + Cardinality(Requests) + errors
      BY <1>t, <2>11, <2>14, Zenon DEF Bounded
    <2>15. ASSUME WindowSuccesses(u, t)' = {}
           PROVE  Cardinality(WindowFailures(u, t)') + Cardinality(InFlight(u, t)')
                     <= MaxRetries - 1 + Cardinality(Requests) + errors
      <3> DEFINE new == Cardinality(WindowFailures(u, t)') + Cardinality(InFlight(u, t)')
                 old == Cardinality(WindowFailures(u, t)) + Cardinality(InFlight(u, t))
                 bound == MaxRetries - 1 + Cardinality(Requests) + errors
      <3>1. new \in Nat /\ old \in Nat /\ bound \in Int
        BY <1>n, <2>6, <2>8, <2>13
      <3>2. new <= old /\ old <= bound
        BY <2>13, <2>14, <2>15, Zenon
      <3> HIDE DEF new, old, bound
      <3>3. new <= bound
        BY <3>1, <3>2
      <3> QED BY <3>3 DEF new, bound
    <2> QED BY <2>12, <2>15, Zenon DEF Bounded
  <1>6. ASSUME NEW r \in Requests, MarkFails(r) PROVE Bounded(u, t)'
    <2>1. InFlight(u, t)' \subseteq InFlight(u, t)
      BY <1>6, <1>t, Zenon DEF MarkFails, Answer, InFlight, TypeOK
    <2> QED
      <3>1. log' = log /\ errors' \in {errors, errors + 1}
        BY <1>6, Zenon DEF MarkFails
      <3> QED BY <1>t, <1>e, <2>1, <3>1, ShrinkKeepsBounded, Zenon
  <1>7. ASSUME Tick PROVE Bounded(u, t)'
    <2>1. InFlight(u, t)' \subseteq InFlight(u, t)
      <3>1. now' = now + 1 /\ UNCHANGED <<pc, user, at, correct>>
        BY <1>7, Zenon DEF Tick
      <3>2. now' < t + FindTime => now < t + FindTime
        BY <1>n, <3>1
      <3> QED BY <3>1, <3>2, Zenon DEF InFlight
    <2> QED
      <3>1. log' = log /\ errors' \in {errors, errors + 1}
        BY <1>7, Zenon DEF Tick
      <3> QED BY <1>t, <1>e, <2>1, <3>1, ShrinkKeepsBounded, Zenon
  <1>8. CASE UNCHANGED vars
    <2>1. InFlight(u, t)' \subseteq InFlight(u, t)
      BY <1>8, Zenon DEF vars, InFlight
    <2> QED
      <3>1. log' = log /\ errors' \in {errors, errors + 1}
        BY <1>8, Zenon DEF vars
      <3> QED BY <1>t, <1>e, <2>1, <3>1, ShrinkKeepsBounded, Zenon
  <1> QED
    BY <1>1, <1>2, <1>3, <1>4, <1>5, <1>6, <1>7, <1>8 DEF Next, Handle

\* The regulator's promise under concurrency: whatever the limits and however
\* the requests interleave, a window of FindTime without a success holds at
\* most MaxRetries - 1 failures of a user plus one per concurrent request and
\* one per failed query.
THEOREM FailedAttemptsBounded == Spec => []AttemptsBounded
  <1> DEFINE Inv == ClockInv /\ (enabled => BoundInv)
  <1>1. Init => Inv
    <2> SUFFICES ASSUME Init, enabled PROVE BoundInv
      BY ClockInit
    <2> SUFFICES ASSUME NEW u \in Users, NEW t \in Nat PROVE Bounded(u, t)
      BY DEF BoundInv
    <2>1. WindowFailures(u, t) = {} /\ InFlight(u, t) = {}
      BY DEF Init, WindowFailures, Failures, InFlight
    <2>2. Cardinality(Requests) \in Nat
      BY RegulationAssumption, FS_CardinalityType
    <2>3. errors = 0 /\ MaxRetries \in Nat /\ MaxRetries > 0
      BY RegulationAssumption DEF Init, enabled
    <2> QED
      BY <2>1, <2>2, <2>3, FS_EmptySet DEF Bounded
  <1>2. Inv /\ [Next]_vars => Inv'
    BY ClockStep, BoundStep DEF enabled
  <1>3. Inv => AttemptsBounded
    <2> SUFFICES ASSUME Inv, enabled, NEW u \in Users, NEW t \in 0..now,
                        Successes(u, t, t + FindTime) = {}
                 PROVE  Cardinality(Failures(u, t, t + FindTime))
                          <= MaxRetries - 1 + Cardinality(Requests) + errors
      BY DEF AttemptsBounded
    <2>1. t \in Nat /\ TypeOK /\ errors \in Nat /\ MaxRetries \in Nat
      BY RegulationAssumption DEF ClockInv, TypeOK
    <2>2. Bounded(u, t)
      BY <2>1 DEF BoundInv
    <2>3. /\ Cardinality(WindowFailures(u, t)) \in Nat
          /\ Cardinality(InFlight(u, t)) \in Nat
          /\ Cardinality(Requests) \in Nat
      BY <2>1, CountsTyped
    <2> QED
      BY <2>1, <2>2, <2>3 DEF Bounded, WindowFailures, WindowSuccesses
  <1> QED
    BY <1>1, <1>2, <1>3, PTL DEF Spec

-----------------------------------------------------------------------------
(***************************************************************************)
(* The causes of a refusal.                                                *)
(***************************************************************************)

\* The rows that make IsBanned true are MaxRetries failures within FindTime, and
\* the rows of the user between the newest and the oldest are among them.
LEMMA BanHasCause ==
    ASSUME ClockInv, enabled, NEW u \in Users, NEW from \in Int,
           NEW s \in LatestAttempts(u, from), IsBanned(s)
    PROVE  LET last == log[s[1]].time
               t == log[s[MaxRetries]].time
           IN /\ last \in Nat
              /\ t \in (from + 1)..last
              /\ last - t < FindTime
              /\ Cardinality(Failures(u, t, last + 1)) >= MaxRetries
              /\ Successes(u, t + 1, last) = {}
  <1> DEFINE last == log[s[1]].time
             t == log[s[MaxRetries]].time
             F == Failures(u, t, last + 1)
             N == 1..MaxRetries
  <1>1. /\ TypeOK /\ MaxRetries \in Nat /\ MaxRetries >= 1 /\ FindTime \in Nat
        /\ 1 \in N /\ MaxRetries \in N
    BY RegulationAssumption DEF ClockInv, enabled
  <1>2. \A i \in N : /\ s[i] \in DOMAIN log
                     /\ log[s[i]].username = u
                     /\ log[s[i]].time \in Nat
                     /\ log[s[i]].time > from
    BY LatestAttemptsTyped
  <1>3. \A i \in N : t <= log[s[i]].time /\ log[s[i]].time <= last
    <2>1. \A i, j \in N : i < j => log[s[i]].time >= log[s[j]].time
      BY DEF LatestAttempts
    <2> SUFFICES ASSUME NEW i \in N PROVE t <= log[s[i]].time /\ log[s[i]].time <= last
      OBVIOUS
    <2>2. (i = 1 \/ 1 < i) /\ (i = MaxRetries \/ i < MaxRetries)
      BY <1>1
    <2> QED BY <1>1, <1>2, <2>1, <2>2
  <1>4. last \in Nat /\ t \in Nat /\ t > from /\ t <= last
    BY <1>1, <1>2, <1>3
  <1>5. last - t < FindTime /\ \A i \in N : ~log[s[i]].successful
    BY DEF IsBanned
  <1>6. \A i \in N : s[i] \in F
    <2> SUFFICES ASSUME NEW i \in N PROVE s[i] \in F
      OBVIOUS
    <2> DEFINE time == log[s[i]].time
    <2>1. time \in Nat /\ last \in Nat /\ t <= time /\ time <= last
      BY <1>2, <1>3, <1>4, Zenon
    <2> HIDE DEF time, last, t
    <2>2. time < last + 1
      BY <2>1
    <2> QED BY <1>2, <1>5, <2>1, <2>2, Zenon DEF Failures, time
  <1>7. \A i, j \in N : i # j => s[i] # s[j]
    <2>1. \A i, j \in N : i < j => s[i] # s[j]
      BY DEF LatestAttempts
    <2>2. \A i, j \in N : i # j => i < j \/ j < i
      BY <1>1
    <2> QED BY <2>1, <2>2
  <1>8. IsFiniteSet(F)
    <2>1. F \in SUBSET (1..Len(log))
      BY <1>1, RowsTyped DEF Failures
    <2> QED BY <1>1, <2>1, LogFinite, FS_Subset
  <1>9. Cardinality(F) >= MaxRetries
    <2>1. Cardinality(F) \in Nat
      BY <1>8, FS_CardinalityType
    <2>2. IsFiniteSet(N) /\ Cardinality(N) = MaxRetries
      <3>1. 1 \in Int /\ MaxRetries \in Int
        BY <1>1
      <3>2. Cardinality(N) = IF 1 > MaxRetries THEN 0 ELSE MaxRetries - 1 + 1
        BY <3>1, Zenon, FS_Interval
      <3>3. IsFiniteSet(N)
        BY <3>1, FS_Interval
      <3> QED BY <1>1, <3>2, <3>3
    <2> DEFINE f == [i \in N |-> s[i]]
    <2>3. f \in [N -> F] /\ \A i \in N : f[i] = s[i]
      BY <1>6
    <2> SUFFICES ASSUME Cardinality(F) < MaxRetries PROVE FALSE
      BY <1>1, <2>1
    <2>4. \E i, j \in N : i # j /\ f[i] = f[j]
      <3> HIDE DEF f, F, N
      <3> QED BY <1>8, <2>2, <2>3, FS_PigeonHole
    <2> QED BY <1>7, <2>3, <2>4
  <1>10. Successes(u, t + 1, last) = {}
    <2> SUFFICES ASSUME NEW k \in Successes(u, t + 1, last) PROVE FALSE
      OBVIOUS
    <2>1. /\ k \in DOMAIN log /\ log[k].username = u /\ log[k].successful
          /\ t + 1 <= log[k].time
      BY DEF Successes
    <2>2. log[k].time \in Nat
      BY <1>1, <2>1, RowsTyped
    <2>3. k \in AuthenticationLogs(u, from) /\ ~(log[k].time <= t)
      BY <1>4, <2>1, <2>2 DEF AuthenticationLogs
    <2>4. \E i \in N : s[i] = k
      BY <2>3 DEF LatestAttempts
    <2> QED BY <1>5, <2>1, <2>4
  <1> HIDE DEF F, N
  <1>11. t \in (from + 1)..last
    BY <1>4
  <1> QED BY <1>4, <1>5, <1>9, <1>10, <1>11, Zenon DEF F

\* A step that leaves the answers, or gives one that is no refusal, refuses
\* nobody.
LEMMA OnlyLoadBannedRefuses ==
    ASSUME ClockInv, [Next]_vars, NEW r \in Requests,
           reply'[r].kind = "banned", reply[r].kind # "banned"
    PROVE  LoadBanned(r)
  <1>1. reply \in [Requests -> Replies]
    BY DEF ClockInv, TypeOK
  <1>2. ASSUME NEW q \in Requests, NEW v,
               reply' = [reply EXCEPT ![q] = v], v.kind # "banned"
        PROVE  FALSE
    BY <1>1, <1>2
  <1>3. ASSUME NEW q \in Requests, NEW u \in Users, Start(q, u) PROVE FALSE
    <2>1. reply' = [reply EXCEPT ![q] = NoReply] /\ NoReply.kind # "banned"
      BY <1>3 DEF Start, NoReply
    <2> QED BY <1>2, <2>1
  <1>4. ASSUME NEW q \in Requests, Mark(q) \/ MarkFails(q) PROVE FALSE
    <2>1. PICK kind \in {"ok", "failed"} :
             reply' = [reply EXCEPT ![q] = [kind |-> kind, until |-> 0]]
      BY <1>4 DEF Mark, MarkFails, Answer
    <2> QED BY <1>2, <2>1
  <1>5. ASSUME NEW q \in Requests, LoadBanned(q) PROVE q = r
    <2>1. \E v : reply' = [reply EXCEPT ![q] = v]
      BY <1>5, Zenon DEF LoadBanned
    <2> QED BY <1>1, <2>1
  <1>6. reply' # reply
    OBVIOUS
  <1> QED
    BY <1>3, <1>4, <1>5, <1>6, Zenon
    DEF Next, Handle, LoadFails, LoadFew, LoadNotBanned, Pass, Check, Tick, vars

\* A refusal is never groundless: the user has MaxRetries failures within
\* FindTime, all in the last BanTime, and no success among them.
THEOREM RefusalsHaveCause == Spec => RefusalHasCause
  <1> DEFINE Cause(r) ==
        LET last == reply'[r].until - BanTime
        IN \E t \in (at[r] - BanTime + 1)..last :
              /\ last - t < FindTime
              /\ Cardinality(Failures(user[r], t, last + 1)) >= MaxRetries
              /\ Successes(user[r], t + 1, last) = {}
  <1> DEFINE A == \A r \in Requests :
                     reply'[r].kind = "banned" /\ reply[r].kind # "banned" => Cause(r)
  <1>1. ASSUME ClockInv, [Next]_vars PROVE A
    <2> SUFFICES ASSUME NEW r \in Requests,
                        reply'[r].kind = "banned", reply[r].kind # "banned"
                 PROVE  Cause(r)
      OBVIOUS
    <2>1. LoadBanned(r)
      BY <1>1, OnlyLoadBannedRefuses
    <2>2. enabled /\ user[r] \in Users /\ at[r] - BanTime \in Int /\ BanTime \in Nat
      BY <1>1, <2>1, RegulationAssumption DEF ClockInv, TypeOK, Pending, LoadBanned
    <2>3. PICK s \in LatestAttempts(user[r], at[r] - BanTime) :
             /\ IsBanned(s)
             /\ reply' = [reply EXCEPT ![r] = [kind |-> "banned", until |-> bannedUntil(s)]]
      BY <2>1, Zenon DEF LoadBanned
    <2>4. reply'[r].until = bannedUntil(s)
      BY <1>1, <2>3 DEF ClockInv, TypeOK
    <2> DEFINE last == log[s[1]].time
               t == log[s[MaxRetries]].time
    <2>5. /\ last \in Nat
          /\ t \in (at[r] - BanTime + 1)..last
          /\ last - t < FindTime
          /\ Cardinality(Failures(user[r], t, last + 1)) >= MaxRetries
          /\ Successes(user[r], t + 1, last) = {}
      BY <1>1, <2>2, <2>3, BanHasCause, Zenon
    <2>6. reply'[r].until - BanTime = last
      <3>1. reply'[r].until = last + BanTime /\ last \in Nat /\ BanTime \in Nat
        BY <2>2, <2>4, <2>5, Zenon DEF bannedUntil
      <3> HIDE DEF last
      <3> QED BY <3>1
    <2> HIDE DEF last, t
    <2> QED BY <2>5, <2>6
  <1>2. Spec => [][ClockInv /\ [Next]_vars]_vars
    BY ClockInit, ClockStep, PTL DEF Spec
  <1> QED BY <1>1, <1>2, PTL DEF RefusalHasCause

-----------------------------------------------------------------------------
(***************************************************************************)
(* The user information tells the truth.  A load that failed leaves either *)
(* a goroutine that has yet to append, or a slice that is not empty: an    *)
(* append that overwrites another one stores an element all the same.  A   *)
(* load that succeeded has read a row the user had during the request.     *)
(***************************************************************************)

Goroutines == [pc : {"load", "append", "store", "done"}, errors : Nat]

Infos == [pc : {"idle", "loading", "posted", "ok", "error"},
          user : InfoUsers, errors : Nat, reply : [InfoTables -> Values]]

AllContents == UNION {Contents(t) : t \in InfoTables}

InfoTypes ==
    /\ table \in [InfoTables -> [InfoUsers -> AllContents]]
    /\ \A t \in InfoTables, u \in InfoUsers : table[t][u] \in Contents(t)
    /\ info \in [InfoRequests -> Infos]
    /\ goroutine \in [InfoRequests -> [InfoTables -> Goroutines]]
    /\ rowsSeen \in [InfoRequests -> [InfoTables -> SUBSET AllContents]]
    /\ \A r \in InfoRequests, t \in InfoTables : rowsSeen[r][t] \subseteq Contents(t)
    /\ failed \in [InfoRequests -> BOOLEAN]

\* A request that is i, with the goroutines g and the histories s and f, while
\* tab has the rows.
Truthful(i, g, s, f, tab) ==
    /\ i.pc \in {"idle", "posted"} => \A t \in InfoTables : s[t] = {}
    /\ i.pc # "loading" => \A t \in InfoTables : g[t].pc = "done"
    /\ i.pc = "loading" => \A t \in InfoTables : tab[t][i.user] \in s[t]
    /\ \A t \in InfoTables : g[t].pc \in {"append", "store"} => f
    /\ f => \/ i.pc = "error"
            \/ /\ i.pc = "loading"
               /\ i.errors > 0 \/ \E t \in InfoTables : g[t].pc \in {"append", "store"}
    /\ \A t \in InfoTables :
          i.pc \in {"loading", "ok"} /\ g[t].pc = "done" /\ s[t] # {} /\ ~f =>
              \E row \in s[t] : i.reply[t] = Loaded(t, row)

InfoInv ==
    /\ InfoTypes
    /\ \A r \in InfoRequests :
          Truthful(info[r], goroutine[r], rowsSeen[r], failed[r], table)

\* A load makes a value of a row.
LEMMA LoadedIsValue ==
    ASSUME NEW t \in InfoTables, NEW row \in Contents(t)
    PROVE  Loaded(t, row) \in Values
<1>1. CASE t = "method"
  BY <1>1, InfoAssumption, Zenon DEF Loaded, Contents, Values
<1>2. CASE t # "method"
  <2>1. (row # NoRow) \in BOOLEAN
    BY Zenon
  <2> QED BY <1>2, <2>1, Zenon DEF Loaded, Values
<1> QED BY <1>1, <1>2

\* No goroutine runs and no row was rowsSeen before the request begins.
LEMMA InfoInvInit ==
    InfoInit => InfoInv
<1> SUFFICES ASSUME InfoInit PROVE InfoInv
  OBVIOUS
<1>1. InfoTypes
  <2>1. FALSE \in Values
    BY Zenon DEF Values
  <2>2. Done \in Goroutines
    BY DEF Done, Goroutines
  <2>3. \A t \in InfoTables : NoRow \in Contents(t)
    BY DEF Contents
  <2>4. NoRow \in AllContents
    BY <2>3 DEF AllContents, InfoTables
  <2>5. info \in [InfoRequests -> Infos]
    <3> DEFINE F == [t \in InfoTables |-> FALSE]
               I == {[pc |-> "idle", user |-> u, errors |-> 0, reply |-> F] : u \in InfoUsers}
    <3>1. F \in [InfoTables -> Values]
      BY <2>1, Zenon
    <3>2. info \in [InfoRequests -> I]
      BY Zenon DEF InfoInit
    <3> HIDE DEF F
    <3>3. I \subseteq Infos
      <4> SUFFICES ASSUME NEW u \in InfoUsers
                   PROVE  [pc |-> "idle", user |-> u, errors |-> 0, reply |-> F] \in Infos
        BY Zenon
      <4>1. 0 \in Nat
        OBVIOUS
      <4> QED BY <3>1, <4>1, Zenon DEF Infos
    <3> HIDE DEF I
    <3> QED BY <3>2, <3>3
  <2>6. \A t \in InfoTables, u \in InfoUsers : table[t][u] = NoRow
    BY Zenon DEF InfoInit
  <2>7. table \in [InfoTables -> [InfoUsers -> AllContents]]
    <3>1. table \in [InfoTables -> [InfoUsers -> {NoRow}]]
      BY Zenon DEF InfoInit
    <3>2. [InfoUsers -> {NoRow}] \subseteq [InfoUsers -> AllContents]
      BY <2>4, Zenon
    <3> QED BY <3>1, <3>2, Zenon
  <2> QED BY <2>2, <2>3, <2>5, <2>6, <2>7, Zenon DEF InfoInit, InfoTypes
<1>2. ASSUME NEW r \in InfoRequests
      PROVE  Truthful(info[r], goroutine[r], rowsSeen[r], failed[r], table)
  <2>1. info[r].pc = "idle" /\ ~failed[r] /\ \A t \in InfoTables : rowsSeen[r][t] = {} /\ goroutine[r][t].pc = "done"
    <3>1. info[r].pc = "idle"
      <4> DEFINE F == [t \in InfoTables |-> FALSE]
      <4>1. PICK u \in InfoUsers :
               info[r] = [pc |-> "idle", user |-> u, errors |-> 0, reply |-> F]
        BY Zenon DEF InfoInit
      <4> HIDE DEF F
      <4>2. [pc |-> "idle", user |-> u, errors |-> 0, reply |-> F].pc = "idle"
        BY Zenon
      <4> QED BY <4>1, <4>2, Zenon
    <3> QED BY <3>1, Zenon DEF InfoInit, Done
  <2> QED BY <2>1, Zenon DEF Truthful
<1> QED BY <1>1, <1>2 DEF InfoInv

\* What one request does to its own record, with the rows as they were.
LEMMA OneRequestMoves ==
    ASSUME InfoInv, NEW r \in InfoRequests, NEW i \in Infos,
           NEW g \in [InfoTables -> Goroutines], NEW s \in [InfoTables -> SUBSET AllContents], NEW f \in BOOLEAN,
           \A t \in InfoTables : s[t] \subseteq Contents(t),
           info' = [info EXCEPT ![r] = i],
           goroutine' = [goroutine EXCEPT ![r] = g],
           rowsSeen' = [rowsSeen EXCEPT ![r] = s],
           failed' = [failed EXCEPT ![r] = f],
           table' = table,
           Truthful(i, g, s, f, table)
    PROVE  InfoInv'
<1>1. InfoTypes'
  BY DEF InfoInv, InfoTypes
<1>2. ASSUME NEW q \in InfoRequests
      PROVE  Truthful(info'[q], goroutine'[q], rowsSeen'[q], failed'[q], table')
  <2>1. CASE q = r
    <3>1. info'[q] = i /\ goroutine'[q] = g /\ rowsSeen'[q] = s /\ failed'[q] = f
      BY <2>1 DEF InfoInv, InfoTypes
    <3> QED BY <3>1
  <2>2. CASE q # r
    <3>1. info'[q] = info[q] /\ goroutine'[q] = goroutine[q] /\ rowsSeen'[q] = rowsSeen[q] /\ failed'[q] = failed[q]
      BY <2>2 DEF InfoInv, InfoTypes
    <3> QED BY <3>1, Zenon DEF InfoInv
  <2> QED BY <2>1, <2>2
<1> QED BY <1>1, <1>2, Zenon DEF InfoInv

\* A row is written: a request of its user that is loading sees it too.
LEMMA UpsertKeepsTruth ==
    ASSUME InfoInv, NEW t \in InfoTables, NEW u \in InfoUsers, NEW row \in Contents(t),
           Upsert(t, u, row), NEW q \in InfoRequests
    PROVE  /\ Truthful(info[q], goroutine[q], rowsSeen'[q], failed[q], table')
           /\ info[q].pc # "loading" => rowsSeen'[q] = rowsSeen[q]
<1> DEFINE i == info[q]
           g == goroutine[q]
           s == rowsSeen[q]
           f == failed[q]
<1>0. Truthful(i, g, s, f, table) /\ i \in Infos /\ s \in [InfoTables -> SUBSET AllContents]
  BY DEF InfoInv, InfoTypes
<1>1. \A x \in InfoTables, y \in InfoUsers :
         table'[x][y] = IF x = t /\ y = u THEN row ELSE table[x][y]
  BY DEF Upsert, InfoInv, InfoTypes
<1>2. CASE i.pc = "loading" /\ i.user = u
  <2>1. rowsSeen'[q] = [s EXCEPT ![t] = @ \cup {row}]
    BY <1>2 DEF Upsert
  <2> HIDE DEF i, g, s, f
  <2>2. \A x \in InfoTables : s[x] \subseteq rowsSeen'[q][x]
    BY <1>0, <2>1
  <2>3. row \in rowsSeen'[q][t]
    BY <1>0, <2>1, Zenon
  <2>4. i.user \in InfoUsers
    BY <1>0 DEF Infos
  <2>5. \A x \in InfoTables : table'[x][i.user] \in rowsSeen'[q][x]
    <3> SUFFICES ASSUME NEW x \in InfoTables PROVE table'[x][i.user] \in rowsSeen'[q][x]
      OBVIOUS
    <3>1. CASE x = t
      <4>1. table'[t][u] = row
        BY <1>1, Zenon
      <4> QED BY <1>2, <2>3, <3>1, <4>1, Zenon
    <3>2. CASE x # t
      <4>1. table'[x][i.user] = table[x][i.user]
        BY <1>1, <2>4, <3>2, Zenon
      <4>2. table[x][i.user] \in s[x]
        BY <1>0, <1>2, Zenon DEF Truthful
      <4> QED BY <2>2, <4>1, <4>2, Zenon
    <3> QED BY <3>1, <3>2, Zenon
  <2>6. \A x \in InfoTables :
          g[x].pc = "done" /\ ~f =>
              \E y \in rowsSeen'[q][x] : i.reply[x] = Loaded(x, y)
    <3> SUFFICES ASSUME NEW x \in InfoTables, g[x].pc = "done", ~f
                 PROVE  \E y \in rowsSeen'[q][x] : i.reply[x] = Loaded(x, y)
      OBVIOUS
    <3>1. s[x] # {}
      BY <1>0, <1>2, Zenon DEF Truthful
    <3>2. PICK y \in s[x] : i.reply[x] = Loaded(x, y)
      BY <1>0, <1>2, <3>1, Zenon DEF Truthful
    <3> QED BY <2>2, <3>2, Zenon
  <2>7. Truthful(i, g, rowsSeen'[q], f, table')
    BY <1>0, <1>2, <2>5, <2>6, Zenon DEF Truthful
  <2> QED BY <1>2, <2>7, Zenon DEF i, g, s, f
<1>3. CASE ~(i.pc = "loading" /\ i.user = u)
  <2>1. rowsSeen'[q] = s
    BY <1>3 DEF Upsert
  <2>2. i.user \in InfoUsers
    BY <1>0, Zenon DEF Infos
  <2>3. i.pc = "loading" => \A x \in InfoTables : table'[x][i.user] = table[x][i.user]
    BY <1>1, <1>3, <2>2, Zenon
  <2> HIDE DEF i, g, s, f
  <2>4. Truthful(i, g, s, f, table')
    BY <1>0, <2>3, Zenon DEF Truthful
  <2> QED BY <2>1, <2>4, Zenon DEF i, g, s, f
<1> QED BY <1>2, <1>3, Zenon

\* The types after a row is written.
LEMMA UpsertKeepsTypes ==
    ASSUME InfoInv, NEW t \in InfoTables, NEW u \in InfoUsers, NEW row \in Contents(t),
           Upsert(t, u, row)
    PROVE  /\ table' \in [InfoTables -> [InfoUsers -> AllContents]]
           /\ \A x \in InfoTables, y \in InfoUsers : table'[x][y] \in Contents(x)
           /\ rowsSeen' \in [InfoRequests -> [InfoTables -> SUBSET AllContents]]
           /\ \A r \in InfoRequests, x \in InfoTables : rowsSeen'[r][x] \subseteq Contents(x)
<1>1. row \in AllContents
  BY DEF AllContents
<1>2. table' \in [InfoTables -> [InfoUsers -> AllContents]]
  BY <1>1 DEF Upsert, InfoInv, InfoTypes
<1>3. \A x \in InfoTables, y \in InfoUsers : table'[x][y] \in Contents(x)
  BY DEF Upsert, InfoInv, InfoTypes
<1>4. ASSUME NEW r \in InfoRequests
      PROVE  /\ rowsSeen'[r] \in [InfoTables -> SUBSET AllContents]
             /\ \A x \in InfoTables : rowsSeen'[r][x] \subseteq Contents(x)
  BY <1>1 DEF Upsert, InfoInv, InfoTypes
<1>5. rowsSeen' \in [InfoRequests -> [InfoTables -> SUBSET AllContents]]
  BY <1>4 DEF Upsert
<1> QED BY <1>2, <1>3, <1>4, <1>5

\* Each step of the requests, their goroutines and the other handlers keeps the
\* invariant.
LEMMA InfoInvStep ==
    InfoInv /\ [InfoNext]_infoVars => InfoInv'
<1> SUFFICES ASSUME InfoInv, [InfoNext]_infoVars PROVE InfoInv'
  OBVIOUS
<1>1. CASE UNCHANGED infoVars
  BY <1>1 DEF infoVars, InfoInv, InfoTypes
<1>0. ASSUME NEW r \in InfoRequests
      PROVE  /\ info[r] \in Infos /\ goroutine[r] \in [InfoTables -> Goroutines]
             /\ rowsSeen[r] \in [InfoTables -> SUBSET AllContents] /\ failed[r] \in BOOLEAN
             /\ \A t \in InfoTables : rowsSeen[r][t] \subseteq Contents(t)
             /\ Truthful(info[r], goroutine[r], rowsSeen[r], failed[r], table)
             /\ info[r].user \in InfoUsers /\ info[r].errors \in Nat
             /\ info[r].reply \in [InfoTables -> Values]
             /\ info = [info EXCEPT ![r] = info[r]] /\ goroutine = [goroutine EXCEPT ![r] = goroutine[r]]
             /\ rowsSeen = [rowsSeen EXCEPT ![r] = rowsSeen[r]] /\ failed = [failed EXCEPT ![r] = failed[r]]
  BY <1>0 DEF InfoInv, InfoTypes, Infos
<1>2. ASSUME NEW r \in InfoRequests, UserInfoGet(r) PROVE InfoInv'
  <2> DEFINE i == [info[r] EXCEPT !.pc = "loading"]
             g == [t \in InfoTables |-> [pc |-> "load", errors |-> 0]]
             s == [t \in InfoTables |-> {table[t][info[r].user]}]
             f == failed[r]
  <2>1. i \in Infos /\ i.pc = "loading" /\ i.user = info[r].user
    BY <1>0 DEF Infos
  <2>2. g \in [InfoTables -> Goroutines] /\ \A t \in InfoTables : g[t].pc = "load"
    BY DEF Goroutines
  <2>3. \A t \in InfoTables : table[t][info[r].user] \in Contents(t) /\ table[t][info[r].user] \in AllContents
    <3>1. /\ info[r].user \in InfoUsers /\ table \in [InfoTables -> [InfoUsers -> AllContents]]
          /\ \A t \in InfoTables, u \in InfoUsers : table[t][u] \in Contents(t)
      BY <1>0, <1>2, Zenon DEF InfoInv, InfoTypes
    <3>2. \A t \in InfoTables, u \in InfoUsers : table[t][u] \in AllContents
      BY <3>1
    <3> QED BY <3>1, <3>2
  <2>4. s \in [InfoTables -> SUBSET AllContents]
    BY <2>3
  <2>5. \A t \in InfoTables : s[t] \subseteq Contents(t) /\ table[t][i.user] \in s[t]
    BY <2>1, <2>3
  <2>6. ~f
    BY <1>0, <1>2 DEF Truthful, UserInfoGet
  <2>7. /\ info' = [info EXCEPT ![r] = i] /\ goroutine' = [goroutine EXCEPT ![r] = g]
        /\ rowsSeen' = [rowsSeen EXCEPT ![r] = s] /\ failed' = [failed EXCEPT ![r] = f] /\ table' = table
    BY <1>2, <1>0 DEF UserInfoGet
  <2>8. f \in BOOLEAN
    BY <1>0
  <2> HIDE DEF i, g, s, f
  <2>9. Truthful(i, g, s, f, table)
    BY <2>1, <2>2, <2>5, <2>6, Zenon DEF Truthful
  <2> QED BY <2>1, <2>2, <2>4, <2>5, <2>7, <2>8, <2>9, OneRequestMoves, Zenon
<1>3. ASSUME NEW r \in InfoRequests, Wait(r) \/ ReplyOK(r) PROVE InfoInv'
  <2> DEFINE e == IF info[r].pc = "loading" /\ info[r].errors > 0 THEN "error" ELSE "ok"
             i == [info[r] EXCEPT !.pc = e]
             g == goroutine[r]
             s == rowsSeen[r]
             f == failed[r]
  <2>0. /\ info' = [info EXCEPT ![r].pc = e]
        /\ \/ info[r].pc = "loading" /\ \A t \in InfoTables : goroutine[r][t].pc = "done"
           \/ info[r].pc = "posted"
    BY <1>3 DEF Wait, ReplyOK
  <2>a. e \in {"error", "ok"} /\ (e = "ok" => info[r].pc # "loading" \/ ~(info[r].errors > 0))
    OBVIOUS
  <2>b. info[r].pc = "posted" => e = "ok"
    OBVIOUS
  <2> HIDE DEF e
  <2>1. /\ i \in Infos /\ i.user = info[r].user /\ i.errors = info[r].errors /\ i.reply = info[r].reply
        /\ i.pc = e
    BY <1>0, <2>a DEF Infos
  <2>2. info' = [info EXCEPT ![r] = i]
    BY <1>0, <2>0
  <2>3. /\ goroutine' = [goroutine EXCEPT ![r] = g]
        /\ rowsSeen' = [rowsSeen EXCEPT ![r] = s] /\ failed' = [failed EXCEPT ![r] = f] /\ table' = table
    BY <1>0, <1>3 DEF Wait, ReplyOK
  <2>4. /\ g \in [InfoTables -> Goroutines] /\ s \in [InfoTables -> SUBSET AllContents] /\ f \in BOOLEAN
        /\ \A t \in InfoTables : s[t] \subseteq Contents(t)
    BY <1>0
  <2> HIDE DEF i
  <2>5. Truthful(i, g, s, f, table)
    BY <1>0, <2>0, <2>1, <2>a, <2>b DEF Truthful
  <2> HIDE DEF g, s, f
  <2> QED BY <2>1, <2>2, <2>3, <2>4, <2>5, OneRequestMoves, Zenon
<1>4. ASSUME NEW r \in InfoRequests, NEW t \in InfoTables, Load(r, t) PROVE InfoInv'
  <2> DEFINE row == table[t][info[r].user]
             i == [info[r] EXCEPT !.reply = [info[r].reply EXCEPT ![t] = Loaded(t, row)]]
             g == [goroutine[r] EXCEPT ![t] = Done]
             s == rowsSeen[r]
             f == failed[r]
  <2>0. info[r].pc = "loading"
    BY <1>0, <1>4 DEF Truthful, Load
  <2>1. row \in Contents(t) /\ row \in s[t]
    BY <1>0, <2>0, Zenon DEF Truthful, InfoInv, InfoTypes
  <2>2. Loaded(t, row) \in Values
    BY <2>1, LoadedIsValue, Zenon
  <2>3. /\ info' = [info EXCEPT ![r] = i] /\ goroutine' = [goroutine EXCEPT ![r] = g]
        /\ rowsSeen' = [rowsSeen EXCEPT ![r] = s] /\ failed' = [failed EXCEPT ![r] = f] /\ table' = table
    BY <1>4, <1>0 DEF Load
  <2> HIDE DEF row
  <2>4. /\ i \in Infos /\ i.pc = "loading" /\ i.user = info[r].user /\ i.errors = info[r].errors
        /\ i.reply[t] = Loaded(t, row)
        /\ \A x \in InfoTables : x # t => i.reply[x] = info[r].reply[x]
    BY <1>0, <2>0, <2>2 DEF Infos
  <2>5. /\ g \in [InfoTables -> Goroutines] /\ g[t].pc = "done"
        /\ \A x \in InfoTables : x # t => g[x] = goroutine[r][x]
    BY <1>0 DEF Done, Goroutines
  <2>6. /\ s \in [InfoTables -> SUBSET AllContents] /\ f \in BOOLEAN
        /\ \A x \in InfoTables : s[x] \subseteq Contents(x)
    BY <1>0
  <2>7. goroutine[r][t].pc = "load"
    BY <1>4 DEF Load
  <2> HIDE DEF i, g
  <2>8. Truthful(i, g, s, f, table)
    <3>1. \A x \in InfoTables : table[x][i.user] \in s[x]
      BY <1>0, <2>0, <2>4, Zenon DEF Truthful
    <3>2. f => i.errors > 0 \/ \E x \in InfoTables : g[x].pc \in {"append", "store"}
      BY <1>0, <2>0, <2>4, <2>5, <2>7, Zenon DEF Truthful
    <3>3. ASSUME NEW x \in InfoTables, g[x].pc = "done", s[x] # {}, ~f
          PROVE  \E y \in s[x] : i.reply[x] = Loaded(x, y)
      <4>1. CASE x = t
        BY <2>1, <2>4, <4>1, Zenon
      <4>2. CASE x # t
        <5>1. g[x] = goroutine[r][x] /\ i.reply[x] = info[r].reply[x]
          BY <2>4, <2>5, <4>2, Zenon
        <5>2. Truthful(info[r], goroutine[r], s, f, table)
          BY <1>0, Zenon
        <5>3. /\ info[r].pc \in {"loading", "ok"} /\ goroutine[r][x].pc = "done"
              /\ s[x] # {} /\ ~f
          BY <2>0, <3>3, <5>1, Zenon
        <5>4. \E y \in s[x] : info[r].reply[x] = Loaded(x, y)
          BY <5>2, <5>3, Zenon DEF Truthful
        <5> QED BY <5>1, <5>4, Zenon
      <4> QED BY <4>1, <4>2, Zenon
    <3>4. \A x \in InfoTables : g[x].pc \in {"append", "store"} => f
      BY <1>0, <2>5, Zenon DEF Truthful
    <3> QED BY <2>4, <3>1, <3>2, <3>3, <3>4, Zenon DEF Truthful
  <2> HIDE DEF s, f
  <2> QED BY <2>3, <2>4, <2>5, <2>6, <2>8, OneRequestMoves, Zenon
<1>5. ASSUME NEW r \in InfoRequests, NEW t \in InfoTables, LoadInfoFails(r, t) PROVE InfoInv'
  <2> DEFINE i == info[r]
             g == [goroutine[r] EXCEPT ![t] = [goroutine[r][t] EXCEPT !.pc = "append"]]
             s == rowsSeen[r]
             f == TRUE
  <2>0. info[r].pc = "loading"
    BY <1>0, <1>5 DEF Truthful, LoadInfoFails
  <2>3. /\ info' = [info EXCEPT ![r] = i] /\ goroutine' = [goroutine EXCEPT ![r] = g]
        /\ rowsSeen' = [rowsSeen EXCEPT ![r] = s] /\ failed' = [failed EXCEPT ![r] = f] /\ table' = table
    BY <1>5, <1>0 DEF LoadInfoFails
  <2>5. g \in [InfoTables -> Goroutines] /\ g[t].pc = "append"
    BY <1>0 DEF Goroutines
  <2>6. /\ i \in Infos /\ s \in [InfoTables -> SUBSET AllContents] /\ f \in BOOLEAN
        /\ \A x \in InfoTables : s[x] \subseteq Contents(x)
    BY <1>0
  <2> HIDE DEF g
  <2>8. Truthful(i, g, s, f, table)
    BY <1>0, <2>0, <2>5, Zenon DEF Truthful
  <2> HIDE DEF i, s, f
  <2> QED BY <2>3, <2>5, <2>6, <2>8, OneRequestMoves, Zenon
<1>6. ASSUME NEW r \in InfoRequests, NEW t \in InfoTables, AppendReads(r, t) PROVE InfoInv'
  <2> DEFINE i == info[r]
             g == [goroutine[r] EXCEPT ![t] = [pc |-> "store", errors |-> info[r].errors]]
             s == rowsSeen[r]
             f == failed[r]
  <2>0. info[r].pc = "loading"
    BY <1>0, <1>6, Zenon DEF Truthful, AppendReads
  <2>2. f
    BY <1>0, <1>6, Zenon DEF AppendReads, Truthful
  <2>3. /\ info' = [info EXCEPT ![r] = i] /\ goroutine' = [goroutine EXCEPT ![r] = g]
        /\ rowsSeen' = [rowsSeen EXCEPT ![r] = s] /\ failed' = [failed EXCEPT ![r] = f] /\ table' = table
    BY <1>6, <1>0, Zenon DEF AppendReads
  <2>5. /\ g \in [InfoTables -> Goroutines] /\ g[t].pc = "store"
        /\ \A x \in InfoTables : x # t => g[x] = goroutine[r][x]
    BY <1>0 DEF Goroutines
  <2>6. /\ i \in Infos /\ s \in [InfoTables -> SUBSET AllContents] /\ f \in BOOLEAN
        /\ \A x \in InfoTables : s[x] \subseteq Contents(x)
    BY <1>0
  <2> HIDE DEF g
  <2>8. Truthful(i, g, s, f, table)
    BY <1>0, <2>0, <2>2, <2>5, Zenon DEF Truthful
  <2> HIDE DEF i, s, f
  <2> QED BY <2>3, <2>5, <2>6, <2>8, OneRequestMoves, Zenon
<1>7. ASSUME NEW r \in InfoRequests, NEW t \in InfoTables, AppendStores(r, t) PROVE InfoInv'
  <2> DEFINE n == WithOneError(goroutine[r][t].errors)
             i == [info[r] EXCEPT !.errors = n]
             g == [goroutine[r] EXCEPT ![t] = Done]
             s == rowsSeen[r]
             f == failed[r]
  <2>0. info[r].pc = "loading"
    BY <1>0, <1>7 DEF Truthful, AppendStores
  <2>1. n \in Nat /\ n > 0
    BY <1>0 DEF WithOneError, Goroutines
  <2>2. f
    BY <1>0, <1>7 DEF AppendStores, Truthful
  <2>3. /\ info' = [info EXCEPT ![r] = i] /\ goroutine' = [goroutine EXCEPT ![r] = g]
        /\ rowsSeen' = [rowsSeen EXCEPT ![r] = s] /\ failed' = [failed EXCEPT ![r] = f] /\ table' = table
    BY <1>7, <1>0 DEF AppendStores
  <2> HIDE DEF n
  <2>4. /\ i \in Infos /\ i.pc = "loading" /\ i.user = info[r].user /\ i.errors = n
        /\ i.reply = info[r].reply
    BY <1>0, <2>0, <2>1 DEF Infos
  <2>5. /\ g \in [InfoTables -> Goroutines] /\ g[t].pc = "done"
        /\ \A x \in InfoTables : x # t => g[x] = goroutine[r][x]
    BY <1>0 DEF Done, Goroutines
  <2>6. /\ s \in [InfoTables -> SUBSET AllContents] /\ f \in BOOLEAN
        /\ \A x \in InfoTables : s[x] \subseteq Contents(x)
    BY <1>0
  <2> HIDE DEF i, g
  <2>8. Truthful(i, g, s, f, table)
    BY <1>0, <2>0, <2>1, <2>2, <2>4, <2>5, Zenon DEF Truthful
  <2> HIDE DEF s, f
  <2> QED BY <2>3, <2>4, <2>5, <2>6, <2>8, OneRequestMoves, Zenon
<1>8. ASSUME NEW r \in InfoRequests, NEW m \in PossibleMethods \cup {UnknownMethod},
             MethodPreferencePost(r, m)
      PROVE  InfoInv'
  <2>0. info[r].pc = "idle" /\ goroutine' = goroutine /\ failed' = failed
    BY <1>8 DEF MethodPreferencePost
  <2>1. CASE /\ info' = [info EXCEPT ![r].pc = "error"]
             /\ UNCHANGED <<table, rowsSeen>>
    <3> DEFINE i == [info[r] EXCEPT !.pc = "error"]
               g == goroutine[r]
               s == rowsSeen[r]
               f == failed[r]
    <3>1. i \in Infos /\ i.pc = "error"
      BY <1>0 DEF Infos
    <3>2. Truthful(i, g, s, f, table)
      BY <1>0, <2>0, <3>1 DEF Truthful
    <3>3. /\ info' = [info EXCEPT ![r] = i] /\ goroutine' = [goroutine EXCEPT ![r] = g]
          /\ rowsSeen' = [rowsSeen EXCEPT ![r] = s] /\ failed' = [failed EXCEPT ![r] = f] /\ table' = table
      BY <1>0, <2>0, <2>1
    <3>4. /\ g \in [InfoTables -> Goroutines] /\ s \in [InfoTables -> SUBSET AllContents] /\ f \in BOOLEAN
          /\ \A t \in InfoTables : s[t] \subseteq Contents(t)
      BY <1>0
    <3> HIDE DEF i, g, s, f
    <3> QED BY <3>1, <3>2, <3>3, <3>4, OneRequestMoves, Zenon
  <2>2. CASE /\ m \in PossibleMethods
             /\ Upsert("method", info[r].user, m)
             /\ info' = [info EXCEPT ![r].pc = "posted"]
    <3>1. "method" \in InfoTables /\ m \in Contents("method") /\ info[r].user \in InfoUsers
      BY <1>0, <2>2 DEF InfoTables, Contents
    <3>2. \A q \in InfoRequests :
             /\ Truthful(info[q], goroutine[q], rowsSeen'[q], failed[q], table')
             /\ info[q].pc # "loading" => rowsSeen'[q] = rowsSeen[q]
      BY <2>2, <3>1, UpsertKeepsTruth, Zenon
    <3>3. /\ table' \in [InfoTables -> [InfoUsers -> AllContents]]
          /\ \A x \in InfoTables, y \in InfoUsers : table'[x][y] \in Contents(x)
          /\ rowsSeen' \in [InfoRequests -> [InfoTables -> SUBSET AllContents]]
          /\ \A q \in InfoRequests, x \in InfoTables : rowsSeen'[q][x] \subseteq Contents(x)
      BY <2>2, <3>1, UpsertKeepsTypes, Zenon
    <3> DEFINE i == [info[r] EXCEPT !.pc = "posted"]
    <3>4. i \in Infos /\ i.pc = "posted"
      BY <1>0 DEF Infos
    <3>5. info' = [info EXCEPT ![r] = i]
      BY <2>2
    <3> HIDE DEF i
    <3>6. InfoTypes'
      BY <2>0, <3>3, <3>4, <3>5 DEF InfoTypes, InfoInv
    <3>7. ASSUME NEW q \in InfoRequests
          PROVE  Truthful(info'[q], goroutine'[q], rowsSeen'[q], failed'[q], table')
      <4>1. CASE q = r
        <5>1. info'[q] = i
          BY <3>5, <4>1 DEF InfoInv, InfoTypes
        <5>2. rowsSeen'[q] = rowsSeen[q] /\ info[q].pc = "idle"
          BY <2>0, <3>2, <4>1, Zenon
        <5>3. /\ ~failed[q]
              /\ \A t \in InfoTables : rowsSeen[q][t] = {} /\ goroutine[q][t].pc = "done"
          BY <1>0, <5>2, Zenon DEF Truthful
        <5> QED BY <2>0, <3>4, <5>1, <5>2, <5>3, Zenon DEF Truthful
      <4>2. CASE q # r
        <5>1. info'[q] = info[q]
          BY <3>5, <4>2 DEF InfoInv, InfoTypes
        <5> QED BY <2>0, <3>2, <5>1, Zenon
      <4> QED BY <4>1, <4>2, Zenon
    <3> QED BY <3>6, <3>7, Zenon DEF InfoInv
  <2> QED BY <1>8, <2>1, <2>2 DEF MethodPreferencePost
<1>9. ASSUME NEW t \in InfoTables, NEW u \in InfoUsers, Register(t, u) PROVE InfoInv'
  <2>0. Upsert(t, u, Row) /\ UNCHANGED <<info, goroutine, failed>> /\ Row \in Contents(t)
    BY <1>9 DEF Register, Contents
  <2>1. \A q \in InfoRequests : Truthful(info[q], goroutine[q], rowsSeen'[q], failed[q], table')
    BY <2>0, UpsertKeepsTruth, Zenon
  <2>2. /\ table' \in [InfoTables -> [InfoUsers -> AllContents]]
        /\ \A x \in InfoTables, y \in InfoUsers : table'[x][y] \in Contents(x)
        /\ rowsSeen' \in [InfoRequests -> [InfoTables -> SUBSET AllContents]]
        /\ \A q \in InfoRequests, x \in InfoTables : rowsSeen'[q][x] \subseteq Contents(x)
    BY <2>0, UpsertKeepsTypes, Zenon
  <2>3. InfoTypes'
    BY <2>0, <2>2 DEF InfoTypes, InfoInv
  <2> QED BY <2>0, <2>1, <2>3, Zenon DEF InfoInv
<1> QED
  BY <1>1, <1>2, <1>3, <1>4, <1>5, <1>6, <1>7, <1>8, <1>9 DEF InfoNext

\* UserInfoGet answers with what was true while the request ran, and not at all
\* if a load failed, however the appends of loadInfo race and whatever other
\* requests write meanwhile.
THEOREM InfoTellsTheTruth ==
    InfoSpec => []InfoWasTrue
<1>1. InfoInv => InfoWasTrue
  <2> SUFFICES ASSUME InfoInv, NEW r \in InfoRequests, Replied(r)
               PROVE  /\ ~failed[r]
                      /\ \E m \in rowsSeen[r]["method"] :
                            info[r].reply["method"] = IF m = NoRow THEN FirstMethod ELSE m
                      /\ \A t \in {"u2f", "totp"} :
                            info[r].reply[t] \in {row = Row : row \in rowsSeen[r][t]}
    BY Zenon DEF InfoWasTrue
  <2>1. Truthful(info[r], goroutine[r], rowsSeen[r], failed[r], table) /\ info[r].pc = "ok"
    BY Zenon DEF InfoInv, Replied
  <2>2. ~failed[r] /\ \A t \in InfoTables : goroutine[r][t].pc = "done" /\ rowsSeen[r][t] # {}
    BY <2>1, Zenon DEF Truthful, Replied
  <2>3. \A t \in InfoTables : \E row \in rowsSeen[r][t] : info[r].reply[t] = Loaded(t, row)
    BY <2>1, <2>2, Zenon DEF Truthful
  <2>4. \E m \in rowsSeen[r]["method"] :
           info[r].reply["method"] = IF m = NoRow THEN FirstMethod ELSE m
    BY <2>3, Zenon DEF InfoTables, Loaded
  <2>5. ASSUME NEW t \in {"u2f", "totp"}
        PROVE  info[r].reply[t] \in {row = Row : row \in rowsSeen[r][t]}
    <3>1. t \in InfoTables /\ t # "method"
      BY DEF InfoTables
    <3>2. PICK row \in rowsSeen[r][t] : info[r].reply[t] = Loaded(t, row)
      BY <2>3, <3>1
    <3>3. row \in {NoRow, Row}
      BY <3>1 DEF InfoInv, InfoTypes, Contents
    <3>4. (row # NoRow) = (row = Row)
      BY <3>3, InfoAssumption, Zenon
    <3>5. info[r].reply[t] = (row = Row)
      BY <3>1, <3>2, <3>4, Zenon DEF Loaded
    <3> QED BY <3>5, Zenon
  <2> QED BY <2>2, <2>4, <2>5, Zenon
<1> QED BY <1>1, InfoInvInit, InfoInvStep, PTL DEF InfoSpec

=============================================================================
