----------------------------- MODULE Regulation -----------------------------
(***************************************************************************)
(* The regulation of first factor attempts: the Regulator                  *)
(* (internal/regulation/regulator.go), the authentication log it reads and *)
(* appends to (internal/storage), and the part of FirstFactorPost          *)
(* (internal/handlers/handler_firstfactor.go) that asks for a verdict,     *)
(* checks the password and marks the attempt.                              *)
(*                                                                         *)
(* Every request runs in a goroutine of its own and nothing is locked      *)
(* across the three calls, so a request is a small process: Start reads    *)
(* the clock for Regulate, Load queries the log and decides, Check asks    *)
(* the user provider and stamps the attempt, Append writes it.  The log    *)
(* keeps whole seconds (AppendAuthenticationLog stores Time.Unix()), so    *)
(* the clock counts seconds.                                               *)
(***************************************************************************)
EXTENDS Integers, FiniteSets, Sequences

CONSTANTS
    Users,              \* usernames that attempts are made for
    Requests,           \* slots for requests that are handled concurrently
    MaxRetries,         \* regulation.max_retries; 0 disables regulation
    FindTime,           \* regulation.find_time, in seconds
    BanTime,            \* regulation.ban_time, in seconds
    MaxTime,            \* bound: no request starts after this instant
    MaxLog,             \* bound: no request starts once the log is this long
    MaxErrors           \* bound: how many queries of the log may fail

\* NewRegulator panics when find_time > ban_time.
ASSUME RegulationAssumption ==
    /\ MaxRetries \in Nat
    /\ FindTime \in Nat
    /\ BanTime \in Nat
    /\ FindTime <= BanTime
    /\ IsFiniteSet(Requests)
    /\ MaxTime \in Nat
    /\ MaxLog \in Nat
    /\ MaxErrors \in Nat

VARIABLES
    now,        \* the clock, in seconds
    log,        \* the rows of authentication_logs, in the order of insertion
    pc,         \* pc[r]: the next call of request r
    user,       \* user[r]: bodyJSON.Username
    at,         \* at[r]: the instant the request read from the clock last
    correct,    \* correct[r]: the user provider accepted the password
    reply,      \* reply[r]: the answer of r's last attempt
    told,       \* told[u]: the latest bannedUntil Regulate returned for u
    errors      \* how many queries of the log have failed

vars == <<now, log, pc, user, at, correct, reply, told, errors>>

Attempt == [username : Users, successful : BOOLEAN, time : Nat]

Steps == {"idle", "load", "check", "append"}

Replies == [kind : {"none", "ok", "failed"}, until : {0}]
             \cup [kind : {"banned"}, until : Nat]

NoReply == [kind |-> "none", until |-> 0]

enabled == MaxRetries > 0

TypeOK ==
    /\ now \in Nat
    /\ log \in Seq(Attempt)
    /\ pc \in [Requests -> Steps]
    /\ user \in [Requests -> Users]
    /\ at \in [Requests -> Nat]
    /\ correct \in [Requests -> BOOLEAN]
    /\ reply \in [Requests -> Replies]
    /\ told \in [Users -> Nat]
    /\ errors \in 0..MaxErrors

-----------------------------------------------------------------------------
(***************************************************************************)
(* The authentication log.                                                 *)
(***************************************************************************)

\* Mutant: the window includes its oldest instant.
AuthenticationLogsInclusive(u, from) ==
    {i \in DOMAIN log : log[i].username = u /\ log[i].time >= from}

\* WHERE time > from AND username = u
AuthenticationLogs(u, from) ==
    {i \in DOMAIN log : log[i].username = u /\ log[i].time > from}

\* The first MaxRetries rows of the answer, ORDER BY time DESC; rows of one
\* second come in any order.  There is none when the answer is shorter.
LatestAttempts(u, from) ==
    {s \in [1..MaxRetries -> AuthenticationLogs(u, from)] :
        /\ \A i, j \in 1..MaxRetries :
              i < j => s[i] # s[j] /\ log[s[i]].time >= log[s[j]].time
        /\ \A k \in AuthenticationLogs(u, from) :
              \/ \E i \in 1..MaxRetries : s[i] = k
              \/ log[k].time <= log[s[MaxRetries]].time}

\* Mutant: successes are not told from failures.
IsBannedAnyOutcome(s) ==
    log[s[1]].time - log[s[MaxRetries]].time < FindTime

\* Mutant: only failures of one second count.
IsBannedSameSecond(s) ==
    /\ \A i \in 1..MaxRetries : ~log[s[i]].successful
    /\ log[s[1]].time - log[s[MaxRetries]].time < FindTime - 1

\* MaxRetries failures come before the first success, and the newest and the
\* oldest of them lie within FindTime.
IsBanned(s) ==
    /\ \A i \in 1..MaxRetries : ~log[s[i]].successful
    /\ log[s[1]].time - log[s[MaxRetries]].time < FindTime

bannedUntil(s) == log[s[1]].time + BanTime

-----------------------------------------------------------------------------
(***************************************************************************)
(* One request of FirstFactorPost.                                         *)
(***************************************************************************)

Init ==
    /\ now = 0
    /\ log = <<>>
    /\ pc = [r \in Requests |-> "idle"]
    /\ user \in [Requests -> Users]
    /\ at = [r \in Requests |-> 0]
    /\ correct = [r \in Requests |-> FALSE]
    /\ reply = [r \in Requests |-> NoReply]
    /\ told = [u \in Users |-> 0]
    /\ errors = 0

\* The request is read and Regulate looks at the clock; a disabled regulator
\* returns at once.
Start(r, u) ==
    /\ pc[r] = "idle"
    /\ now <= MaxTime
    /\ Len(log) < MaxLog
    /\ pc' = [pc EXCEPT ![r] = IF enabled THEN "load" ELSE "check"]
    /\ user' = [user EXCEPT ![r] = u]
    /\ at' = [at EXCEPT ![r] = now]
    /\ reply' = [reply EXCEPT ![r] = NoReply]
    /\ UNCHANGED <<now, log, correct, told, errors>>

\* Regulate returns no error: the password is checked next.
Pass(r) ==
    /\ pc' = [pc EXCEPT ![r] = "check"]
    /\ UNCHANGED <<now, log, user, at, correct, reply, told>>

\* The query fails, and Regulate lets the attempt pass.
LoadFails(r) ==
    /\ pc[r] = "load"
    /\ errors < MaxErrors
    /\ errors' = errors + 1
    /\ Pass(r)

\* Fewer than MaxRetries attempts in the last BanTime.
LoadFew(r) ==
    /\ pc[r] = "load"
    /\ Cardinality(AuthenticationLogs(user[r], at[r] - BanTime)) < MaxRetries
    /\ Pass(r)
    /\ UNCHANGED errors

LoadNotBanned(r) ==
    /\ pc[r] = "load"
    /\ \E s \in LatestAttempts(user[r], at[r] - BanTime) : ~IsBanned(s)
    /\ Pass(r)
    /\ UNCHANGED errors

\* ErrUserIsBanned: the attempt is refused and is not marked.
LoadBanned(r) ==
    /\ pc[r] = "load"
    /\ \E s \in LatestAttempts(user[r], at[r] - BanTime) :
          /\ IsBanned(s)
          /\ reply' = [reply EXCEPT ![r] =
                         [kind |-> "banned", until |-> bannedUntil(s)]]
          /\ told' = [told EXCEPT ![user[r]] =
                        IF bannedUntil(s) > @ THEN bannedUntil(s) ELSE @]
    /\ pc' = [pc EXCEPT ![r] = "idle"]
    /\ UNCHANGED <<now, log, user, at, correct, errors>>

\* CheckUserPassword; an error of the provider counts as a wrong password.
\* Mark reads the clock for the row it is going to append.
Check(r) ==
    /\ pc[r] = "check"
    /\ \E ok \in BOOLEAN : correct' = [correct EXCEPT ![r] = ok]
    /\ at' = [at EXCEPT ![r] = now]
    /\ pc' = [pc EXCEPT ![r] = "append"]
    /\ UNCHANGED <<now, log, user, reply, told, errors>>

Answer(r, kind) ==
    /\ reply' = [reply EXCEPT ![r] = [kind |-> kind, until |-> 0]]
    /\ correct' = [correct EXCEPT ![r] = FALSE]
    /\ at' = [at EXCEPT ![r] = 0]
    /\ pc' = [pc EXCEPT ![r] = "idle"]

\* Mark appends the row.
Mark(r) ==
    /\ pc[r] = "append"
    /\ log' = Append(log, [username |-> user[r], successful |-> correct[r],
                           time |-> at[r]])
    /\ Answer(r, IF correct[r] THEN "ok" ELSE "failed")
    /\ UNCHANGED <<now, user, told, errors>>

\* Mark fails: a wrong password is answered as ever and leaves no row, a right
\* one is refused.
MarkFails(r) ==
    /\ pc[r] = "append"
    /\ errors < MaxErrors
    /\ errors' = errors + 1
    /\ Answer(r, "failed")
    /\ UNCHANGED <<now, log, user, told>>

\* Time passes.  Once nobody is being served the clock goes on for BanTime.
Tick ==
    /\ now <= MaxTime + (IF \A r \in Requests : pc[r] = "idle"
                         THEN BanTime ELSE 0)
    /\ now' = now + 1
    /\ UNCHANGED <<log, pc, user, at, correct, reply, told, errors>>

Handle(r) ==
    \/ LoadFails(r)
    \/ LoadFew(r)
    \/ LoadNotBanned(r)
    \/ LoadBanned(r)
    \/ Check(r)
    \/ Mark(r)
    \/ MarkFails(r)

Next ==
    \/ \E r \in Requests, u \in Users : Start(r, u)
    \/ \E r \in Requests : Handle(r)
    \/ Tick

Spec == Init /\ [][Next]_vars

-----------------------------------------------------------------------------
(***************************************************************************)
(* Properties.                                                             *)
(***************************************************************************)

Failures(u, from, to) ==
    {i \in DOMAIN log : /\ log[i].username = u
                        /\ ~log[i].successful
                        /\ from <= log[i].time /\ log[i].time < to}

Successes(u, from, to) ==
    {i \in DOMAIN log : /\ log[i].username = u
                        /\ log[i].successful
                        /\ from <= log[i].time /\ log[i].time < to}

\* What regulation is for: in any FindTime window without a success the log
\* holds at most MaxRetries failures of a user, plus one for every other
\* request that Regulate had already let pass when the last of them was
\* marked, plus one for every query that failed.  Regulate and Mark are
\* separate calls of FirstFactorPost, so MaxRetries alone is no bound.
AttemptsBounded ==
    enabled =>
        \A u \in Users : \A t \in 0..now :
            Successes(u, t, t + FindTime) = {} =>
                Cardinality(Failures(u, t, t + FindTime))
                    <= MaxRetries - 1 + Cardinality(Requests) + errors

\* The instant Regulate returns with ErrUserIsBanned is later than the one it
\* was called at, and at most BanTime ahead, whatever was marked between its
\* reading of the clock and its query.
BannedUntilIsAhead ==
    \A r \in Requests :
        reply[r].kind = "banned" =>
            at[r] < reply[r].until /\ reply[r].until <= now + BanTime

\* FirstFactorPost refuses an attempt as banned only if the user really has
\* MaxRetries failures within FindTime that no later success separates from
\* the newest one, all of them in the last BanTime.  Refused attempts are not
\* marked, so a ban ends however often the user tries.
RefusalHasCause ==
    [][\A r \in Requests :
         reply'[r].kind = "banned" /\ reply[r].kind # "banned" =>
            LET last == reply'[r].until - BanTime
            IN \E t \in (at[r] - BanTime + 1)..last :
                  /\ last - t < FindTime
                  /\ Cardinality(Failures(user[r], t, last + 1)) >= MaxRetries
                  /\ Successes(user[r], t + 1, last) = {}]_vars

\* What the comment on Regulator.banTime (internal/regulation/types.go:18) and
\* the description of ban_time (docs/configuration/regulation.md) say: a user
\* who was told bannedUntil is refused until then.
BanLastsBanTime ==
    [][\A r \in Requests :
         pc[r] = "load" /\ pc'[r] = "check" => told[user[r]] <= at[r]]_vars
=============================================================================
