--------------------------- MODULE NotifierProofs ---------------------------
(***************************************************************************)
(* Proofs about Notifier, for any number of calls and of failing commands, *)
(* whatever the mail server offers and the configuration asks for.         *)
(***************************************************************************)
EXTENDS Notifier, TLAPS

-----------------------------------------------------------------------------
(***************************************************************************)
(* The password of the SMTP account is never sent in the clear.            *)
(***************************************************************************)

\* Every connection is a whole record, so that a command changes the fields it
\* names and no others; the password goes where TLS or the local host is.
EncryptionInv ==
    /\ server \in Servers
    /\ conn \in [Callers -> Conns]
    /\ \A s \in Callers : conn[s].auth => conn[s].tls \/ server.local

\* A connection on which the password may have been sent only if it is safe.
Safe(k) == k \in Conns /\ (k.auth => k.tls \/ server.local)

\* What net/smtp does before a command neither ends TLS nor authenticates.
LEMMA ReadyIsSafe ==
    ASSUME NEW k, Safe(k)
    PROVE  Safe(Ready(k)) /\ Ready(k).tls = k.tls
BY Zenon DEF Safe, Ready, Writing, Conns

\* Whoever makes a safe connection of one keeps the invariant; without a
\* connection of that name nothing changes.
LEMMA OneConnectionChanges ==
    ASSUME EncryptionInv, NEW x, NEW k, server' = server,
           conn' = [conn EXCEPT ![x] = k], x \in Callers => Safe(k)
    PROVE  EncryptionInv'
<1>1. conn' \in [Callers -> Conns]
  BY Zenon DEF EncryptionInv, Safe
<1>2. ASSUME NEW s \in Callers
      PROVE  conn'[s].auth => conn'[s].tls \/ server'.local
  <2>1. CASE s = x
    BY <2>1 DEF EncryptionInv, Safe
  <2>2. CASE s # x
    BY <2>2 DEF EncryptionInv
  <2> QED BY <2>1, <2>2
<1> QED BY <1>1, <1>2 DEF EncryptionInv

\* A command is one on n.client.
LEMMA CommandIsSafe ==
    ASSUME EncryptionInv, NEW k, Command(k), client \in Callers => Safe(k)
    PROVE  EncryptionInv'
BY OneConnectionChanges, Zenon DEF Command

\* A refused command leaves what net/smtp does before it.
LEMMA RefusesIsSafe ==
    ASSUME EncryptionInv, NEW s, Refuses(s)
    PROVE  EncryptionInv'
<1> DEFINE k == IF conn[client].open THEN Ready(conn[client]) ELSE conn[client]
<1>1. Command(k)
  BY DEF Refuses
<1>2. client \in Callers => Safe(k)
  <2> SUFFICES ASSUME client \in Callers PROVE Safe(k)
    OBVIOUS
  <2>1. Safe(conn[client])
    BY DEF EncryptionInv, Safe
  <2> QED BY <2>1, ReadyIsSafe
<1> HIDE DEF k
<1> QED BY <1>1, <1>2, CommandIsSafe

\* The steps that leave the connections alone.
LEMMA SameConnections ==
    ASSUME EncryptionInv, UNCHANGED <<server, conn>>
    PROVE  EncryptionInv'
BY DEF EncryptionInv

\* Init: nothing is dialled.
LEMMA EncryptionInit ==
    SMTPInit => EncryptionInv
BY DEF SMTPInit, EncryptionInv, Closed, Conns

\* Each step of Send, StartupCheck and the server keeps the invariant.
LEMMA EncryptionStep ==
    EncryptionInv /\ [SMTPNext]_smtpVars => EncryptionInv'
<1> SUFFICES ASSUME EncryptionInv, [SMTPNext]_smtpVars PROVE EncryptionInv'
  OBVIOUS
<1> DEFINE k == conn[client]
<1>0. client \in Callers => Safe(k) /\ Safe(Ready(k)) /\ Ready(k).tls = k.tls /\ Ready(k) \in Conns
  <2> SUFFICES ASSUME client \in Callers
               PROVE  Safe(k) /\ Safe(Ready(k)) /\ Ready(k).tls = k.tls /\ Ready(k) \in Conns
    OBVIOUS
  <2>1. Safe(k)
    BY DEF EncryptionInv, Safe
  <2> HIDE DEF k
  <2>2. Safe(Ready(k)) /\ Ready(k).tls = k.tls
    BY <2>1, ReadyIsSafe
  <2> QED BY <2>1, <2>2 DEF Safe
<1> HIDE DEF k
<1>1. CASE UNCHANGED smtpVars
  BY <1>1, SameConnections DEF smtpVars
<1>2. ASSUME NEW s \in Callers, Begin(s) PROVE EncryptionInv'
  BY <1>2, SameConnections DEF Begin
<1>3. ASSUME NEW s \in Callers, dial(s) PROVE EncryptionInv'
  <2> DEFINE e == [Closed EXCEPT !.open = TRUE, !.tls = server.smtps]
  <2>1. Safe(e)
    BY <1>3, Zenon DEF Safe, Closed, Conns, EncryptionInv, Servers
  <2>2. server' = server /\ conn' = [conn EXCEPT ![s] = e]
    BY <1>3 DEF dial
  <2> HIDE DEF e
  <2> QED BY <2>1, <2>2, OneConnectionChanges, Zenon
<1>4. ASSUME NEW s \in Callers, Hello(s) PROVE EncryptionInv'
  <2>1. CASE conn[client].hello
    BY <1>4, <2>1, SameConnections DEF Hello
  <2>2. CASE ~conn[client].hello
    BY <1>0, <1>4, <2>2, CommandIsSafe DEF Hello, k
  <2> QED BY <2>1, <2>2
<1>5. ASSUME NEW s \in Callers, tlsState(s) \/ authState(s) \/ dataState(s) PROVE EncryptionInv'
  BY <1>5, SameConnections DEF tlsState, authState, dataState
<1>6. ASSUME NEW s \in Callers, startTLS(s) PROVE EncryptionInv'
  <2> DEFINE e == [Ready(k) EXCEPT !.tls = TRUE, !.from = FALSE, !.rcpts = {}]
  <2>1. client \in Callers => Safe(e)
    BY <1>0, Zenon DEF Safe, Conns
  <2>2. CASE Command(e)
    <3> HIDE DEF e
    <3> QED BY <2>1, <2>2, CommandIsSafe
  <2>3. CASE Refuses(s)
    BY <2>3, RefusesIsSafe
  <2>4. CASE conn' = [conn EXCEPT ![client].hello = TRUE] /\ server' = server
    <3> DEFINE h == [k EXCEPT !.hello = TRUE]
    <3>1. client \in Callers => Safe(h)
      BY <1>0, Zenon DEF Safe, Conns
    <3>2. conn' = [conn EXCEPT ![client] = h]
      BY <2>4 DEF k
    <3> HIDE DEF h
    <3> QED BY <2>4, <3>1, <3>2, OneConnectionChanges, Zenon
  <2> QED BY <1>6, <2>2, <2>3, <2>4 DEF startTLS, k
<1>7. ASSUME NEW s \in Callers, auth(s) PROVE EncryptionInv'
  <2> DEFINE e == [Ready(k) EXCEPT !.auth = TRUE]
  <2> DEFINE f == [Ready(k) EXCEPT !.open = FALSE]
  <2>1. CASE UNCHANGED <<server, conn>>
    BY <2>1, SameConnections
  <2>2. CASE Refuses(s)
    BY <2>2, RefusesIsSafe
  <2>3. CASE loginAuthStart(k) /\ Command(e)
    <3>1. client \in Callers => Safe(e)
      BY <1>0, <2>3, Zenon DEF loginAuthStart, Safe, Conns
    <3> HIDE DEF e
    <3> QED BY <2>3, <3>1, CommandIsSafe
  <2>4. CASE Command(f)
    <3>1. client \in Callers => Safe(f)
      BY <1>0, Zenon DEF Safe, Conns
    <3> HIDE DEF f
    <3> QED BY <2>4, <3>1, CommandIsSafe
  <2> QED BY <1>7, <2>1, <2>2, <2>3, <2>4 DEF auth, k
<1>8. ASSUME NEW s \in Callers, Mail(s) PROVE EncryptionInv'
  <2> DEFINE e == [Ready(k) EXCEPT !.from = TRUE, !.rcpts = {}]
  <2>1. client \in Callers => Safe(e)
    BY <1>0, Zenon DEF Safe, Conns
  <2>2. CASE Command(e)
    <3> HIDE DEF e
    <3> QED BY <2>1, <2>2, CommandIsSafe
  <2>3. CASE Refuses(s)
    BY <2>3, RefusesIsSafe
  <2> QED BY <1>8, <2>2, <2>3 DEF Mail, k
<1>9. ASSUME NEW s \in Callers, Rcpt(s) PROVE EncryptionInv'
  <2> DEFINE e == [Ready(k) EXCEPT !.rcpts = @ \cup {s}]
  <2>1. client \in Callers => Safe(e)
    BY <1>0 DEF Safe, Conns
  <2>2. CASE Command(e)
    <3> HIDE DEF e
    <3> QED BY <2>1, <2>2, CommandIsSafe
  <2>3. CASE Refuses(s)
    BY <2>3, RefusesIsSafe
  <2> QED BY <1>9, <2>2, <2>3 DEF Rcpt, k
<1>10. ASSUME NEW s \in Callers, Data(s) PROVE EncryptionInv'
  <2> DEFINE e == [Ready(k) EXCEPT !.data = s]
  <2>1. client \in Callers => Safe(e)
    BY <1>0 DEF Safe, Conns
  <2>2. CASE Command(e)
    <3> HIDE DEF e
    <3> QED BY <2>1, <2>2, CommandIsSafe
  <2>3. CASE Refuses(s)
    BY <2>3, RefusesIsSafe
  <2> QED BY <1>10, <2>2, <2>3 DEF Data, k
<1>11. ASSUME NEW s \in Callers, Body(s) PROVE EncryptionInv'
  <2> DEFINE x == sending[s].wc
  <2> DEFINE e == [conn[x] EXCEPT !.data = NoClient, !.from = FALSE, !.rcpts = {}]
  <2>0. x \in Callers => Safe(conn[x])
    BY DEF EncryptionInv, Safe
  <2>1. x \in Callers => Safe(e)
    BY <2>0, Zenon DEF Safe, Conns
  <2>2. server' = server /\ (conn' = [conn EXCEPT ![x] = e] \/ conn' = conn)
    BY <1>11 DEF Body
  <2> HIDE DEF e, x
  <2> QED BY <2>1, <2>2, OneConnectionChanges, SameConnections
<1>12. ASSUME NEW s \in Callers, Reset(s) PROVE EncryptionInv'
  <2> DEFINE e == [Ready(k) EXCEPT !.from = FALSE, !.rcpts = {}]
  <2>1. client \in Callers => Safe(e)
    BY <1>0, Zenon DEF Safe, Conns
  <2>2. CASE Command(e)
    <3> HIDE DEF e
    <3> QED BY <2>1, <2>2, CommandIsSafe
  <2>3. CASE Refuses(s)
    BY <2>3, RefusesIsSafe
  <2> QED BY <1>12, <2>2, <2>3 DEF Reset, k
<1>13. ASSUME NEW s \in Callers, cleanup(s) PROVE EncryptionInv'
  <2> DEFINE e == IF k.open THEN [Ready(k) EXCEPT !.open = FALSE] ELSE k
  <2>1. client \in Callers => Safe(e)
    BY <1>0, Zenon DEF Safe, Conns
  <2>2. Command(e)
    BY <1>13 DEF cleanup, k
  <2> HIDE DEF e
  <2> QED BY <2>1, <2>2, CommandIsSafe
<1>14. ASSUME NEW s \in Callers, Fails(s) PROVE EncryptionInv'
  <2> DEFINE x == sending[s].wc
  <2> DEFINE e == [conn[x] EXCEPT !.open = FALSE, !.data = NoClient]
  <2>0. x \in Callers => Safe(conn[x])
    BY DEF EncryptionInv, Safe
  <2>1. x \in Callers => Safe(e)
    BY <2>0, Zenon DEF Safe, Conns
  <2>2. server' = server /\ (conn' = [conn EXCEPT ![x] = e] \/ conn' = conn)
    BY <1>14 DEF Fails
  <2> HIDE DEF e, x
  <2> QED BY <2>1, <2>2, OneConnectionChanges, SameConnections
<1>15. ASSUME NEW s \in Callers, TruncateNotes(s) \/ WriteNote(s) PROVE EncryptionInv'
  BY <1>15, SameConnections DEF TruncateNotes, WriteNote
<1> QED
  BY <1>1, <1>2, <1>3, <1>4, <1>5, <1>6, <1>7, <1>8, <1>9, <1>10, <1>11, <1>12,
     <1>13, <1>14, <1>15 DEF SMTPNext, Send

\* The password of the SMTP account is sent over encrypted connections only, or
\* to the local host, whatever n.client is when a Send reads it again
\* (SMTPNotifier.auth, loginAuth.Start).
THEOREM PasswordStaysEncrypted ==
    SMTPSpec => []PasswordIsEncrypted
<1>1. EncryptionInv => PasswordIsEncrypted
  BY DEF EncryptionInv, PasswordIsEncrypted
<1> QED BY <1>1, EncryptionInit, EncryptionStep, PTL DEF SMTPSpec


-----------------------------------------------------------------------------
(***************************************************************************)
(* A call that nothing overlaps has the connection to itself: n.client is  *)
(* its own from dial to QUIT, and nobody touches that connection later.    *)
(***************************************************************************)

\* The steps of a call that has dialled.
Dialled == SMTPSteps \ {"idle", "dial", "write", "done"}

\* A call that is not running and that no other one has overlapped, when the
\* calls are S and those in A are alone.
Settled(s, S, A) == A[s] /\ S[s].pc \in {"idle", "done"}

NotifierTypes ==
    /\ server \in Servers
    /\ client \in Callers \cup {NoClient}
    /\ conn \in [Callers -> Conns]
    /\ sending \in [Callers -> Sendings]
    /\ smtpErrors \in Nat
    /\ mails \subseteq Mails
    /\ notes \in Seq(Callers)
    /\ alone \in [Callers -> BOOLEAN]

\* What a lone call demands of the server.
Works(v) ==
    /\ v.smtps \/ v.starttls \/ v.disableRequireTLS
    /\ v.password => (v.smtps \/ v.starttls) /\ v.auth

\* The steps before the recipient is known, and those after.
Opening == {"hello", "tlsState", "starttls", "authState", "auth", "mail"}
Addressed == {"dataState", "data", "body"}
Talking == Opening \cup {"rcpt", "reset"} \cup Addressed

\* The lone call s is p, its connection k, n.client is x, the server has
\* accepted M, which is v, and e commands have failed.
OwnConnection(s, p, k, x, v) ==
    /\ p.pc \in {"idle", "dial"} => k = Closed /\ ~p.error
    /\ p.pc \in Talking => k.open /\ ~p.error /\ x = s
    /\ p.pc \in (Talking \ {"body"}) \cup {"quit"} => ~Writing(k) /\ x = s
    /\ p.pc = "hello" => ~k.hello
    /\ p.pc \in Opening => k.rcpts = {} /\ ~k.from
    /\ p.pc \in {"hello", "tlsState", "starttls", "authState", "auth"} => ~k.auth
    /\ p.pc \in {"hello", "tlsState"} => (k.tls <=> v.smtps)
    /\ p.pc = "starttls" => ~k.tls /\ ~v.smtps
    /\ p.pc \in {"authState", "auth"} =>
          /\ k.tls <=> v.smtps \/ v.starttls
          /\ k.tls \/ v.disableRequireTLS
    /\ p.pc = "auth" => v.password /\ k.tls
    /\ p.pc \in {"mail", "rcpt", "reset"} \cup Addressed =>
          Works(v) /\ (k.tls <=> v.smtps \/ v.starttls)
    /\ p.pc = "rcpt" => k.from /\ k.rcpts = {}
    /\ p.pc \in Addressed => k.rcpts = {s} /\ s # StartupCheck
    /\ p.pc = "reset" => s = StartupCheck
    /\ p.pc = "body" => k.data = s /\ p.wc = s

Involved(s, M) == {m \in M : s \in m.to \/ m.body = s}

OwnMail(s, p, k, M, e, v) ==
    /\ p.pc \notin {"quit", "done"} => Involved(s, M) = {}
    /\ \A m \in Involved(s, M) :
          m.to = {s} /\ m.body = s /\ (m.tls \/ v.disableRequireTLS)
    /\ p.pc \in {"quit", "done"} /\ ~p.error =>
          /\ s # StartupCheck => \E m \in M : m.body = s
          /\ Works(v)
    /\ p.pc \in {"quit", "done"} /\ p.error /\ e = 0 => ~Works(v)
    /\ p.pc = "done" => ~k.open \/ e > 0

\* A running call that is alone is the only one that runs.
LoneInv == \A s, q \in Callers : alone[s] /\ Running(s) /\ Running(q) => q = s

\* Commands go to connections of calls that are neither over nor to come, if
\* they were alone.
ConnectionsInv ==
    \A q \in Callers :
        /\ sending[q].pc \in Dialled => client \in Callers /\ ~Settled(client, sending, alone)
        /\ sending[q].pc = "body" =>
              sending[q].wc \in Callers /\ ~Settled(sending[q].wc, sending, alone)
        /\ sending[q].pc # "write"

\* Nobody else's connection knows of a call that is alone.
MarksInv ==
    \A s, q \in Callers :
        alone[s] /\ q # s => s \notin conn[q].rcpts /\ conn[q].data # s

MailInv ==
    ~server.filesystem =>
        /\ ConnectionsInv
        /\ MarksInv
        /\ \A s \in Callers : alone[s] =>
              /\ OwnConnection(s, sending[s], conn[s], client, server)
              /\ OwnMail(s, sending[s], conn[s], mails, smtpErrors, server)

\* The startup check runs before every Send.
CheckInv ==
    /\ alone[StartupCheck]
    /\ Running(StartupCheck) => \A s \in Sends : OnStep(s, "idle")

\* A lone Send writes to a file that is empty.
FileNotesInv ==
    server.filesystem =>
        /\ mails = {}
        /\ \A s \in Callers :
              /\ sending[s].pc \in {"idle", "dial", "write", "done"}
              /\ ~sending[s].error /\ ~conn[s].open
              /\ alone[s] /\ sending[s].pc = "write" => notes = <<>>
        /\ sending[StartupCheck].pc # "write"
        /\ (\A r \in Callers : Settled(r, sending, alone)) /\ (\E s \in Sends : OnStep(s, "done")) =>
              Len(notes) = 1

NotifierInv ==
    /\ NotifierTypes
    /\ LoneInv
    /\ CheckInv
    /\ MailInv
    /\ FileNotesInv

\* Nothing is dialled, sent or written yet.
LEMMA NotifierInvInit ==
    SMTPInit => NotifierInv
<1> SUFFICES ASSUME SMTPInit PROVE NotifierInv
  OBVIOUS
<1>0. \A s \in Callers :
         /\ sending[s] = [pc |-> "idle", wc |-> NoClient, error |-> FALSE]
         /\ sending[s].pc = "idle" /\ ~sending[s].error /\ ~Running(s)
         /\ conn[s] = Closed /\ alone[s]
         /\ conn[s].rcpts = {} /\ conn[s].data = NoClient /\ ~conn[s].open
  BY DEF SMTPInit, Running, Closed
<1>1. NotifierTypes
  <2>1. Closed \in Conns
    BY Zenon DEF Closed, Conns
  <2>2. [pc |-> "idle", wc |-> NoClient, error |-> FALSE] \in Sendings
    BY DEF Sendings, SMTPSteps
  <2> QED BY <2>1, <2>2 DEF SMTPInit, NotifierTypes
<1>2. LoneInv
  BY <1>0 DEF LoneInv
<1>3. CheckInv
  BY <1>0 DEF CheckInv, Callers
<1>4. MailInv
  <2>1. ConnectionsInv
    BY <1>0 DEF ConnectionsInv, Dialled
  <2>2. MarksInv
    BY <1>0, NotifierAssumption DEF MarksInv
  <2>3. ASSUME NEW s \in Callers
        PROVE  /\ OwnConnection(s, sending[s], conn[s], client, server)
               /\ OwnMail(s, sending[s], conn[s], mails, smtpErrors, server)
    <3>1. mails = {}
      BY DEF SMTPInit
    <3>2. OwnConnection(s, sending[s], conn[s], client, server)
      BY <1>0 DEF OwnConnection, Talking, Opening, Addressed
    <3>3. Involved(s, mails) = {}
      BY <3>1 DEF Involved
    <3> QED BY <1>0, <3>2, <3>3 DEF OwnMail
  <2> QED BY <2>1, <2>2, <2>3 DEF MailInv
<1>5. FileNotesInv
  <2>1. mails = {}
    BY DEF SMTPInit
  <2>2. StartupCheck \in Callers /\ Sends \subseteq Callers
    BY DEF Callers
  <2> QED BY <1>0, <2>1, <2>2 DEF FileNotesInv, OnStep
<1> QED BY <1>1, <1>2, <1>3, <1>4, <1>5 DEF NotifierInv

\* A call that runs on, or ends, takes nothing from the others.
LEMMA LoneStays ==
    ASSUME NotifierInv, NEW s \in Callers, Running(s), NEW p,
           sending' = [sending EXCEPT ![s] = p], alone' = alone
    PROVE  LoneInv' /\ CheckInv'
<1>0. LoneInv /\ CheckInv /\ sending \in [Callers -> Sendings]
  BY DEF NotifierInv, NotifierTypes
<1>1. \A q \in Callers : q # s => sending'[q] = sending[q] /\ (Running(q)' <=> Running(q))
  BY <1>0 DEF Running
<1>2. LoneInv'
  BY <1>0, <1>1 DEF LoneInv
<1>3. alone'[StartupCheck]
  BY <1>0 DEF CheckInv
<1>4. ASSUME Running(StartupCheck)', NEW q \in Sends
      PROVE  OnStep(q, "idle")'
  <2>1. StartupCheck \in Callers /\ q \in Callers
    BY DEF Callers
  <2>2. CASE s = StartupCheck
    <3>1. OnStep(q, "idle") /\ q # s
      BY <1>0, <2>2, NotifierAssumption DEF CheckInv
    <3> QED BY <1>1, <2>1, <3>1 DEF OnStep
  <2>3. CASE s # StartupCheck
    <3>1. Running(StartupCheck)
      BY <1>1, <1>4, <2>1, <2>3
    <3>2. s \in Sends
      BY <2>3 DEF Callers
    <3>3. OnStep(s, "idle")
      BY <1>0, <3>1, <3>2 DEF CheckInv
    <3> QED BY <3>3 DEF OnStep, Running
  <2> QED BY <2>2, <2>3
<1> QED BY <1>2, <1>3, <1>4 DEF CheckInv

\* A step of a running call changes the connection x, which belongs to no call
\* that is settled.
LEMMA OneCallMoves ==
    ASSUME NotifierInv, ~server.filesystem, NEW s \in Callers, Running(s),
           NEW x \in Callers, ~Settled(x, sending, alone), NEW k \in Conns, NEW p \in Sendings, NEW M,
           k.rcpts \subseteq conn[x].rcpts \cup {s},
           k.data \in {conn[x].data, s, NoClient},
           M \subseteq Mails, \A m \in M : m.to \subseteq conn[x].rcpts /\ m.body \in {s, NoClient},
           p.pc \notin {"idle", "write"},
           p.pc \in Dialled => client' \in Callers /\ ~Settled(client', sending, alone),
           p.pc = "body" => p.wc \in Callers /\ ~Settled(p.wc, sending, alone),
           client' \in {client, s},
           conn' = [conn EXCEPT ![x] = k],
           sending' = [sending EXCEPT ![s] = p],
           mails' = mails \cup M,
           UNCHANGED <<server, notes, alone>>,
           smtpErrors' \in Nat, smtpErrors <= smtpErrors',
           alone[s] => x = s /\ OwnConnection(s, p, k, client', server) /\ OwnMail(s, p, k, mails', smtpErrors', server)
    PROVE  NotifierInv'
<1>0. /\ NotifierTypes /\ LoneInv /\ CheckInv /\ ConnectionsInv /\ MarksInv
      /\ \A q \in Callers : alone[q] =>
              /\ OwnConnection(q, sending[q], conn[q], client, server)
              /\ OwnMail(q, sending[q], conn[q], mails, smtpErrors, server)
  BY DEF NotifierInv, MailInv
<1>1. /\ sending'[s] = p /\ conn'[x] = k
      /\ \A q \in Callers : q # s => sending'[q] = sending[q]
      /\ \A q \in Callers : q # x => conn'[q] = conn[q]
  BY <1>0 DEF NotifierTypes
<1>2. /\ \A q \in Callers : q # s => (Running(q)' <=> Running(q))
      /\ \A q \in Callers : q # s => (Settled(q, sending', alone') <=> Settled(q, sending, alone))
  BY <1>1 DEF Running, Settled
<1>3. ~Settled(s, sending, alone) /\ (Settled(s, sending', alone') => alone[s] /\ p.pc = "done")
  BY <1>1 DEF Running, Settled
<1>4. \A q \in Callers : alone[q] /\ q # s => Settled(q, sending, alone) /\ q # x
  BY <1>0 DEF LoneInv, Settled, Running
<1>5. alone[s] => \A q \in Callers : q # s => ~Running(q)
  BY <1>0 DEF LoneInv
<1>6. NotifierTypes'
  <2>1. client' \in Callers \cup {NoClient}
    BY <1>0 DEF NotifierTypes
  <2> QED BY <1>0, <2>1 DEF NotifierTypes
<1>7. LoneInv' /\ CheckInv'
  BY LoneStays, Zenon
<1>9. ConnectionsInv'
  <2> SUFFICES ASSUME NEW q \in Callers
               PROVE  /\ sending'[q].pc \in Dialled => client' \in Callers /\ ~Settled(client', sending', alone')
                      /\ sending'[q].pc = "body" =>
                             sending'[q].wc \in Callers /\ ~Settled(sending'[q].wc, sending', alone')
                      /\ sending'[q].pc # "write"
    BY Zenon DEF ConnectionsInv
  <2>1. \A y \in Callers : Settled(y, sending', alone') /\ ~Settled(y, sending, alone) =>
                              y = s /\ alone[s] /\ p.pc = "done"
    BY <1>2, <1>3
  <2>2. CASE q = s
    <3>1. p.pc \in Dialled \cup {"body"} => p.pc # "done"
      BY DEF Dialled
    <3> QED BY <1>1, <2>1, <2>2, <3>1, Zenon
  <2>3. CASE q # s
    <3>1. sending'[q] = sending[q]
      BY <1>1, <2>3
    <3>2. sending[q].pc \in Dialled \cup {"body"} => Running(q)
      BY DEF Dialled, Running
    <3>3. sending[q].pc \in Dialled \cup {"body"} => ~alone[s]
      BY <1>5, <2>3, <3>2
    <3>4. sending[q].pc \in Dialled => client' \in Callers /\ ~Settled(client', sending, alone)
      BY <1>0, <1>3 DEF ConnectionsInv
    <3>5. /\ sending[q].pc = "body" => sending[q].wc \in Callers /\ ~Settled(sending[q].wc, sending, alone)
          /\ sending[q].pc # "write"
      BY <1>0 DEF ConnectionsInv
    <3> QED BY <2>1, <3>1, <3>3, <3>4, <3>5, Zenon
  <2> QED BY <2>2, <2>3
<1>10. MarksInv'
  <2> SUFFICES ASSUME NEW q \in Callers, NEW y \in Callers, alone[q], y # q
               PROVE  q \notin conn'[y].rcpts /\ conn'[y].data # q
    BY DEF MarksInv
  <2>1. q \notin conn[y].rcpts /\ conn[y].data # q
    BY <1>0 DEF MarksInv
  <2>2. CASE y # x
    BY <1>1, <2>1, <2>2
  <2>3. CASE y = x
    <3>1. q # s
      BY <2>3
    <3>2. q # NoClient
      BY NotifierAssumption
    <3> QED BY <1>1, <2>1, <2>3, <3>1, <3>2
  <2> QED BY <2>2, <2>3
<1>11. ASSUME NEW q \in Callers, alone'[q]
       PROVE  /\ OwnConnection(q, sending'[q], conn'[q], client', server')
              /\ OwnMail(q, sending'[q], conn'[q], mails', smtpErrors', server')
  <2>1. CASE q = s
    BY <1>1, <1>11, <2>1
  <2>2. CASE q # s
    <3>1. /\ sending'[q] = sending[q] /\ conn'[q] = conn[q] /\ sending[q].pc \in {"idle", "done"}
          /\ OwnConnection(q, sending[q], conn[q], client, server)
          /\ OwnMail(q, sending[q], conn[q], mails, smtpErrors, server)
      BY <1>0, <1>1, <1>4, <1>11, <2>2 DEF Settled
    <3>2. OwnConnection(q, sending[q], conn[q], client', server)
      BY <3>1, Zenon DEF OwnConnection, Talking, Opening, Addressed
    <3>3. Involved(q, mails') = Involved(q, mails)
      <4>1. q \notin conn[x].rcpts /\ q # NoClient
        BY <1>0, <1>4, <1>11, <2>2, NotifierAssumption DEF MarksInv
      <4>2. \A m \in M : q \notin m.to /\ m.body # q
        BY <2>2, <4>1
      <4> QED BY <4>2 DEF Involved
    <3>4. OwnMail(q, sending[q], conn[q], mails', smtpErrors', server)
      <4>1. smtpErrors \in Nat /\ (smtpErrors > 0 => smtpErrors' > 0) /\ (smtpErrors' = 0 => smtpErrors = 0)
        BY <1>0 DEF NotifierTypes
      <4> QED BY <3>1, <3>3, <4>1, Zenon DEF OwnMail
    <3> QED BY <3>1, <3>2, <3>4
  <2> QED BY <2>1, <2>2
<1>12. MailInv'
  BY <1>9, <1>10, <1>11, Zenon DEF MailInv
<1>13. FileNotesInv'
  BY DEF FileNotesInv
<1> QED BY <1>6, <1>7, <1>12, <1>13 DEF NotifierInv

\* What net/smtp does before a command.
LEMMA ReadyFields ==
    ASSUME NEW k \in Conns
    PROVE  /\ Ready(k) \in Conns
           /\ Ready(k).open = k.open /\ Ready(k).tls = k.tls /\ Ready(k).auth = k.auth
           /\ Ready(k).rcpts \subseteq k.rcpts /\ Ready(k).data = NoClient
           /\ ~Writing(k) => Ready(k).rcpts = k.rcpts /\ Ready(k).from = k.from
<1>1. CASE Writing(k)
  BY <1>1, Zenon DEF Ready, Writing, Conns
<1>2. CASE ~Writing(k)
  BY <1>2, Zenon DEF Ready, Writing, Conns
<1> QED BY <1>1, <1>2

\* A call goes to its next step, ...
LEMMA StepTaken ==
    ASSUME NotifierInv, NEW s \in Callers, NEW pc \in SMTPSteps, ToStep(s, pc)
    PROVE  \E p \in Sendings : /\ p.pc = pc /\ p.wc = sending[s].wc /\ p.error = sending[s].error
                               /\ sending' = [sending EXCEPT ![s] = p]
<1> DEFINE p == [sending[s] EXCEPT !.pc = pc]
<1>1. sending[s] \in Sendings
  BY DEF NotifierInv, NotifierTypes
<1>2. p \in Sendings /\ p.pc = pc /\ p.wc = sending[s].wc /\ p.error = sending[s].error
  BY <1>1 DEF Sendings
<1>3. sending' = [sending EXCEPT ![s] = p]
  BY DEF ToStep
<1> QED BY <1>2, <1>3, Zenon

\* ... or returns an error.
LEMMA ErrorTaken ==
    ASSUME NotifierInv, NEW s \in Callers, Err(s)
    PROVE  \E p \in Sendings : /\ p.pc = "quit" /\ p.error = TRUE
                               /\ sending' = [sending EXCEPT ![s] = p]
<1> DEFINE p == [sending[s] EXCEPT !.pc = "quit", !.error = TRUE]
<1>1. sending[s] \in Sendings
  BY DEF NotifierInv, NotifierTypes
<1>2. "quit" \in SMTPSteps
  BY DEF SMTPSteps
<1>3. p \in Sendings /\ p.pc = "quit" /\ p.error = TRUE
  BY <1>1, <1>2, Zenon DEF Sendings
<1>4. sending' = [sending EXCEPT ![s] = p]
  BY Zenon DEF Err
<1> QED BY <1>3, <1>4, Zenon

\* A command that is not part of a message goes to n.client.  A lone call finds
\* its own connection there, on which no message is being written.
LEMMA CallMoves ==
    ASSUME NotifierInv, NEW s \in Callers, sending[s].pc \in Dialled, sending[s].pc # "body",
           NEW k \in Conns, NEW p \in Sendings, NEW M \in {{}, CutMails(conn[client])},
           k.rcpts \subseteq conn[client].rcpts \cup {s},
           k.data \in {conn[client].data, s, NoClient},
           p.pc \notin {"idle", "write"},
           p.pc = "body" => p.wc = client,
           conn' = [conn EXCEPT ![client] = k],
           sending' = [sending EXCEPT ![s] = p],
           mails' = mails \cup M,
           UNCHANGED <<server, client, notes, alone, smtpErrors>>,
           /\ alone[s] /\ client = s
           /\ OwnConnection(s, sending[s], conn[s], s, server)
           /\ OwnMail(s, sending[s], conn[s], mails, smtpErrors, server)
           => OwnConnection(s, p, k, s, server) /\ OwnMail(s, p, k, mails, smtpErrors, server)
    PROVE  NotifierInv'
<1>1. ~server.filesystem
  BY DEF NotifierInv, FileNotesInv, Dialled
<1>2. client \in Callers /\ ~Settled(client, sending, alone) /\ Running(s)
  BY <1>1 DEF NotifierInv, MailInv, ConnectionsInv, Dialled, Running
<1>3. conn[client] \in Conns
  BY <1>2 DEF NotifierInv, NotifierTypes
<1>4. M \subseteq Mails /\ \A m \in M : m.to \subseteq conn[client].rcpts /\ m.body \in {s, NoClient}
  BY <1>3 DEF CutMails, Mails, Conns
<1>5. smtpErrors' \in Nat /\ smtpErrors <= smtpErrors'
  BY DEF NotifierInv, NotifierTypes
<1>6. ASSUME alone[s]
      PROVE  client = s /\ OwnConnection(s, p, k, client', server)
             /\ OwnMail(s, p, k, mails', smtpErrors', server)
  <2>1. /\ OwnConnection(s, sending[s], conn[s], client, server)
        /\ OwnMail(s, sending[s], conn[s], mails, smtpErrors, server)
    BY <1>1, <1>6 DEF NotifierInv, MailInv
  <2>2. sending[s].pc \in (Talking \ {"body"}) \cup {"quit"}
    BY DEF Dialled, SMTPSteps, Talking, Opening, Addressed
  <2>3. client = s /\ ~Writing(conn[s])
    BY <2>1, <2>2, Zenon DEF OwnConnection
  <2>4. mails' = mails
    BY <2>3 DEF CutMails
  <2> QED BY <1>6, <2>1, <2>3, <2>4, Zenon
<1>7. client' \in Callers /\ ~Settled(client', sending, alone) /\ client' \in {client, s}
  BY <1>2
<1>8. p.pc = "body" => p.wc \in Callers /\ ~Settled(p.wc, sending, alone)
  BY <1>2
<1>9. UNCHANGED <<server, notes, alone>>
  OBVIOUS
<1> QED BY <1>1, <1>2, <1>4, <1>5, <1>6, <1>7, <1>8, <1>9, OneCallMoves, Zenon

\* A lone call that goes on has sent no mail yet.
LEMMA NoMailYet ==
    ASSUME NEW s, NEW p, NEW q, NEW j, NEW k, NEW M, NEW e, NEW v, OwnMail(s, p, j, M, e, v),
           p.pc \notin {"quit", "done"}, q.pc \notin {"quit", "done"}
    PROVE  OwnMail(s, q, k, M, e, v)
BY DEF OwnMail

\* A lone call that returns an error before it has sent a mail.
LEMMA LoneError ==
    ASSUME NEW s, NEW p, NEW q, NEW j, NEW k, NEW M, NEW e, NEW v, OwnMail(s, p, j, M, e, v),
           p.pc \notin {"quit", "done"}, q.pc = "quit", q.error, ~Works(v), ~Writing(k)
    PROVE  OwnConnection(s, q, k, s, v) /\ OwnMail(s, q, k, M, e, v)
<1>1. OwnConnection(s, q, k, s, v)
  BY DEF OwnConnection, Talking, Opening, Addressed
<1>2. Involved(s, M) = {}
  BY DEF OwnMail
<1> QED BY <1>1, <1>2 DEF OwnMail

\* The connection that a call's commands go to.
LEMMA ClientIsConnection ==
    ASSUME NotifierInv, NEW s \in Callers, sending[s].pc \in Dialled
    PROVE  /\ client \in Callers /\ conn[client] \in Conns
           /\ conn' = conn => conn' = [conn EXCEPT ![client] = conn[client]]
           /\ alone[s] /\ sending[s].pc # "body" =>
                 client = s /\ OwnConnection(s, sending[s], conn[client], client, server)
<1>1. ~server.filesystem
  BY DEF NotifierInv, FileNotesInv, Dialled
<1>2. client \in Callers
  BY <1>1 DEF NotifierInv, MailInv, ConnectionsInv
<1>3. conn[client] \in Conns /\ (conn' = conn => conn' = [conn EXCEPT ![client] = conn[client]])
  BY <1>2 DEF NotifierInv, NotifierTypes
<1>4. ASSUME alone[s], sending[s].pc # "body"
      PROVE  client = s /\ OwnConnection(s, sending[s], conn[client], client, server)
  <2>1. OwnConnection(s, sending[s], conn[s], client, server)
    BY <1>1, <1>4, Zenon DEF NotifierInv, MailInv
  <2>2. sending[s].pc \in (Talking \ {"body"}) \cup {"quit"}
    BY <1>4 DEF Dialled, SMTPSteps, Talking, Opening, Addressed
  <2> QED BY <2>1, <2>2 DEF OwnConnection
<1> QED BY <1>2, <1>3, <1>4

\* No command of a lone call is refused; one of another call may be.
LEMMA RefusalMoves ==
    ASSUME NotifierInv, NEW s \in Callers, sending[s].pc \in Dialled, sending[s].pc # "body",
           ~alone[s], Refuses(s)
    PROVE  NotifierInv'
<1> DEFINE j == conn[client]
           k == IF j.open THEN Ready(j) ELSE j
<1>1. client \in Callers /\ j \in Conns
  BY ClientIsConnection
<1>2. k \in Conns /\ k.rcpts \subseteq j.rcpts \cup {s} /\ k.data \in {j.data, s, NoClient}
  BY <1>1, ReadyFields
<1>3. Command(k) /\ Err(s)
  BY DEF Refuses
<1>4. /\ conn' = [conn EXCEPT ![client] = k] /\ mails' = mails \cup CutMails(j)
      /\ UNCHANGED <<server, client, notes, alone, smtpErrors>>
  BY <1>3 DEF Command
<1>5. PICK p \in Sendings : p.pc = "quit" /\ sending' = [sending EXCEPT ![s] = p]
  BY <1>3, ErrorTaken, Zenon
<1> HIDE DEF k
<1>6. p.pc \notin {"idle", "write"} /\ p.pc # "body" /\ CutMails(j) \in {{}, CutMails(j)}
  BY <1>5
<1> QED BY <1>2, <1>4, <1>5, <1>6, CallMoves, Zenon

\* A call goes on without a command.
LEMMA SilentMoves ==
    ASSUME NotifierInv, NEW s \in Callers, sending[s].pc \in Dialled, sending[s].pc # "body",
           NEW p \in Sendings, p.pc \notin {"idle", "write", "body"},
           sending' = [sending EXCEPT ![s] = p],
           UNCHANGED <<server, client, conn, notes, alone, smtpErrors, mails>>,
           /\ alone[s] /\ client = s
           /\ OwnConnection(s, sending[s], conn[s], s, server)
           /\ OwnMail(s, sending[s], conn[s], mails, smtpErrors, server)
           => /\ OwnConnection(s, p, conn[client], s, server)
              /\ OwnMail(s, p, conn[client], mails, smtpErrors, server)
    PROVE  NotifierInv'
<1>1. client \in Callers /\ conn[client] \in Conns /\ conn' = [conn EXCEPT ![client] = conn[client]]
  BY ClientIsConnection
<1>2. /\ conn[client].rcpts \subseteq conn[client].rcpts \cup {s}
      /\ conn[client].data \in {conn[client].data, s, NoClient}
      /\ {} \in {{}, CutMails(conn[client])} /\ mails' = mails \cup {}
      /\ p.pc \notin {"idle", "write"} /\ p.pc # "body"
  OBVIOUS
<1>3. UNCHANGED <<server, client, notes, alone, smtpErrors>>
  OBVIOUS
<1> QED BY <1>1, <1>2, <1>3, CallMoves, Zenon

\* A call sends a command to n.client and goes on.
LEMMA CommandMoves ==
    ASSUME NotifierInv, NEW s \in Callers, sending[s].pc \in Dialled, sending[s].pc # "body",
           NEW k \in Conns, k.rcpts \subseteq conn[client].rcpts \cup {s}, k.data \in {s, conn[client].data, NoClient},
           Command(k), NEW p \in Sendings, p.pc \notin {"idle", "write"},
           p.pc = "body" => p.wc = client, sending' = [sending EXCEPT ![s] = p],
           /\ alone[s] /\ client = s
           /\ OwnConnection(s, sending[s], conn[s], s, server)
           /\ OwnMail(s, sending[s], conn[s], mails, smtpErrors, server)
           => OwnConnection(s, p, k, s, server) /\ OwnMail(s, p, k, mails, smtpErrors, server)
    PROVE  NotifierInv'
<1>1. /\ conn' = [conn EXCEPT ![client] = k] /\ mails' = mails \cup CutMails(conn[client])
      /\ UNCHANGED <<server, client, notes, alone, smtpErrors>>
  BY DEF Command
<1>2. CutMails(conn[client]) \in {{}, CutMails(conn[client])} /\ k.data \in {conn[client].data, s, NoClient}
  OBVIOUS
<1> QED BY <1>1, <1>2, CallMoves, Zenon

\* Hello, on a connection that nobody has used.
LEMMA HelloMoves ==
    ASSUME NotifierInv, NEW s \in Callers, Hello(s)
    PROVE  NotifierInv'
<1> DEFINE j == conn[client]
<1>1. sending[s].pc = "hello" /\ sending[s].pc \in Dialled /\ sending[s].pc # "body"
  BY DEF Hello, OnStep, Dialled, SMTPSteps
<1>2. client \in Callers /\ j \in Conns
  BY <1>1, ClientIsConnection
<1>3. CASE j.hello
  <2>1. Err(s) /\ UNCHANGED <<server, client, conn, smtpErrors, mails, notes, alone>>
    BY <1>3 DEF Hello
  <2>2. PICK p \in Sendings : p.pc = "quit" /\ sending' = [sending EXCEPT ![s] = p]
    BY <2>1, ErrorTaken, Zenon
  <2>3. ~alone[s]
    BY <1>1, <1>3, ClientIsConnection DEF OwnConnection
  <2> QED BY <1>1, <2>1, <2>2, <2>3, SilentMoves, Zenon
<1>4. CASE ~j.hello
  <2> DEFINE k == Ready(j)
  <2>1. Command(k) /\ ToStep(s, "tlsState")
    BY <1>4 DEF Hello
  <2>2. "tlsState" \in SMTPSteps
    BY DEF SMTPSteps
  <2>3. PICK p \in Sendings : /\ p.pc = "tlsState" /\ p.error = sending[s].error
                              /\ sending' = [sending EXCEPT ![s] = p]
    BY <2>1, <2>2, StepTaken
  <2>4. /\ k \in Conns /\ k.open = j.open /\ k.tls = j.tls /\ k.auth = j.auth
        /\ k.rcpts \subseteq j.rcpts /\ k.data = NoClient
        /\ ~Writing(j) => k.rcpts = j.rcpts /\ k.from = j.from
    BY <1>2, ReadyFields
  <2> HIDE DEF k
  <2>6. ASSUME alone[s], client = s, OwnConnection(s, sending[s], conn[s], s, server),
               OwnMail(s, sending[s], conn[s], mails, smtpErrors, server)
        PROVE  OwnConnection(s, p, k, s, server) /\ OwnMail(s, p, k, mails, smtpErrors, server)
    <3>1. OwnConnection(s, p, k, s, server)
      BY <1>1, <2>3, <2>4, <2>6, Zenon DEF OwnConnection, Talking, Opening, Addressed, Writing
    <3> QED BY <1>1, <2>3, <2>6, <3>1, NoMailYet
  <2>7. /\ p.pc \notin {"idle", "write"} /\ p.pc # "body"
        /\ k.rcpts \subseteq j.rcpts \cup {s} /\ k.data \in {s, j.data, NoClient}
    BY <2>3, <2>4
  <2> QED BY <1>1, <2>1, <2>3, <2>4, <2>6, <2>7, CommandMoves, Zenon
<1> QED BY <1>3, <1>4

\* startTLS on an encrypted connection.
LEMMA tlsStateMoves ==
    ASSUME NotifierInv, NEW s \in Callers, tlsState(s)
    PROVE  NotifierInv'
<1> DEFINE j == conn[client]
           pc == IF j.tls THEN "authState" ELSE "starttls"
<1>1. sending[s].pc = "tlsState" /\ sending[s].pc \in Dialled /\ sending[s].pc # "body"
  BY DEF tlsState, OnStep, Dialled, SMTPSteps
<1>2. pc \in SMTPSteps /\ ToStep(s, pc)
  BY DEF SMTPSteps, tlsState
<1>3. PICK p \in Sendings : /\ p.pc = pc /\ p.error = sending[s].error
                            /\ sending' = [sending EXCEPT ![s] = p]
  BY <1>2, StepTaken
<1>4. j \in Conns /\ server \in Servers
  BY <1>1, ClientIsConnection DEF NotifierInv, NotifierTypes
<1>5. UNCHANGED <<server, client, conn, notes, alone, smtpErrors, mails>>
  BY DEF tlsState
<1>6. ASSUME alone[s], client = s, OwnConnection(s, sending[s], conn[s], s, server),
             OwnMail(s, sending[s], conn[s], mails, smtpErrors, server)
      PROVE  OwnConnection(s, p, j, s, server) /\ OwnMail(s, p, j, mails, smtpErrors, server)
  <2>1. OwnConnection(s, p, j, s, server)
    BY <1>1, <1>3, <1>4, <1>6, Zenon DEF OwnConnection, Talking, Opening, Addressed, Conns, Servers
  <2> QED BY <1>1, <1>3, <1>6, <2>1, NoMailYet
<1>7. p.pc \notin {"idle", "write", "body"}
  BY <1>3
<1> QED BY <1>1, <1>3, <1>5, <1>6, <1>7, SilentMoves, Zenon

\* STARTTLS, or a connection that stays plain.
LEMMA startTLSMoves ==
    ASSUME NotifierInv, NEW s \in Callers, startTLS(s)
    PROVE  NotifierInv'
<1> DEFINE j == conn[client]
           r == Ready(j)
<1>1. sending[s].pc = "starttls" /\ sending[s].pc \in Dialled /\ sending[s].pc # "body"
  BY DEF startTLS, OnStep, Dialled, SMTPSteps
<1>2. client \in Callers /\ j \in Conns
  BY <1>1, ClientIsConnection
<1>3. /\ r \in Conns /\ r.open = j.open /\ r.auth = j.auth
      /\ r.rcpts \subseteq j.rcpts /\ r.data = NoClient
  BY <1>2, ReadyFields
<1>4. server \in Servers /\ "authState" \in SMTPSteps
  BY DEF NotifierInv, NotifierTypes, SMTPSteps
<1>5. CASE server.starttls /\ j.open /\ ~j.tls
  <2> DEFINE k == [r EXCEPT !.tls = TRUE, !.from = FALSE, !.rcpts = {}]
  <2>1. Command(k) /\ ToStep(s, "authState")
    BY <1>5 DEF startTLS
  <2>2. PICK p \in Sendings : /\ p.pc = "authState" /\ p.error = sending[s].error
                              /\ sending' = [sending EXCEPT ![s] = p]
    BY <1>4, <2>1, StepTaken
  <2> HIDE DEF r
  <2>3. /\ k \in Conns /\ k.open = j.open /\ k.tls = TRUE /\ k.auth = j.auth
        /\ k.rcpts = {} /\ k.from = FALSE /\ k.data = NoClient
    BY <1>3, Zenon DEF Conns
  <2> HIDE DEF k
  <2>4. ASSUME alone[s], client = s, OwnConnection(s, sending[s], conn[s], s, server),
               OwnMail(s, sending[s], conn[s], mails, smtpErrors, server)
        PROVE  OwnConnection(s, p, k, s, server) /\ OwnMail(s, p, k, mails, smtpErrors, server)
    <3>1. OwnConnection(s, p, k, s, server)
      BY <1>1, <1>5, <2>2, <2>3, <2>4, Zenon DEF OwnConnection, Talking, Opening, Addressed, Writing
    <3> QED BY <1>1, <2>2, <2>4, <3>1, NoMailYet
  <2>5. /\ p.pc \notin {"idle", "write"} /\ p.pc # "body"
        /\ k.rcpts \subseteq j.rcpts \cup {s} /\ k.data \in {s, j.data, NoClient}
    BY <2>2, <2>3
  <2> QED BY <1>1, <2>1, <2>2, <2>3, <2>4, <2>5, CommandMoves, Zenon
<1>6. CASE server.starttls /\ ~(j.open /\ ~j.tls)
  <2>1. Refuses(s)
    BY <1>6 DEF startTLS
  <2>2. ~alone[s]
    BY <1>1, <1>6, ClientIsConnection DEF OwnConnection, Talking, Opening
  <2> QED BY <1>1, <2>1, <2>2, RefusalMoves
<1>7. CASE ~server.starttls
  <2> DEFINE k == [j EXCEPT !.hello = TRUE]
  <2>1. /\ conn' = [conn EXCEPT ![client] = k]
        /\ UNCHANGED <<server, client, notes, alone, smtpErrors>> /\ mails' = mails \cup {}
        /\ IF server.disableRequireTLS THEN ToStep(s, "authState") ELSE Err(s)
    BY <1>2, <1>7 DEF startTLS, plainAllowed
  <2>2. PICK p \in Sendings :
           /\ server.disableRequireTLS => p.pc = "authState" /\ p.error = sending[s].error
           /\ ~server.disableRequireTLS => p.pc = "quit" /\ p.error
           /\ sending' = [sending EXCEPT ![s] = p]
    <3>1. CASE server.disableRequireTLS
      BY <1>4, <2>1, <3>1, StepTaken
    <3>2. CASE ~server.disableRequireTLS
      BY <2>1, <3>2, ErrorTaken, Zenon
    <3> QED BY <3>1, <3>2
  <2>3. /\ k \in Conns /\ k.open = j.open /\ k.tls = j.tls /\ k.auth = j.auth
        /\ k.rcpts = j.rcpts /\ k.from = j.from /\ k.data = j.data
    BY <1>2, Zenon DEF Conns
  <2> HIDE DEF k
  <2>4. ASSUME alone[s], client = s, OwnConnection(s, sending[s], conn[s], s, server),
               OwnMail(s, sending[s], conn[s], mails, smtpErrors, server)
        PROVE  OwnConnection(s, p, k, s, server) /\ OwnMail(s, p, k, mails, smtpErrors, server)
    <3>1. CASE server.disableRequireTLS
      <4>1. OwnConnection(s, p, k, s, server)
        BY <1>1, <1>4, <1>7, <2>2, <2>3, <2>4, <3>1, Zenon
        DEF OwnConnection, Talking, Opening, Addressed, Writing, Servers
      <4> QED BY <1>1, <2>2, <2>4, <3>1, <4>1, NoMailYet
    <3>2. CASE ~server.disableRequireTLS
      <4>1. ~Works(server) /\ ~Writing(k)
        BY <1>1, <1>7, <2>3, <2>4, <3>2, Zenon DEF OwnConnection, Talking, Opening, Writing, Works
      <4> QED BY <1>1, <2>2, <2>4, <3>2, <4>1, LoneError, Zenon
    <3> QED BY <3>1, <3>2
  <2>5. /\ p.pc \notin {"idle", "write"} /\ p.pc # "body" /\ {} \in {{}, CutMails(j)}
        /\ k.rcpts \subseteq j.rcpts \cup {s} /\ k.data \in {j.data, s, NoClient}
    BY <2>2, <2>3
  <2> QED BY <1>1, <2>1, <2>2, <2>3, <2>4, <2>5, CallMoves, Zenon
<1> QED BY <1>5, <1>6, <1>7

\* auth looks at the connection.
LEMMA authStateMoves ==
    ASSUME NotifierInv, NEW s \in Callers, authState(s)
    PROVE  NotifierInv'
<1> DEFINE j == conn[client]
           pc == IF server.password THEN "auth" ELSE "mail"
<1>1. sending[s].pc = "authState" /\ sending[s].pc \in Dialled /\ sending[s].pc # "body"
  BY DEF authState, OnStep, Dialled, SMTPSteps
<1>2. pc \in SMTPSteps /\ IF server.password /\ ~j.tls THEN Err(s) ELSE ToStep(s, pc)
  BY DEF SMTPSteps, authState
<1>3. PICK p \in Sendings :
         /\ server.password /\ ~j.tls => p.pc = "quit" /\ p.error
         /\ ~(server.password /\ ~j.tls) => p.pc = pc /\ p.error = sending[s].error
         /\ sending' = [sending EXCEPT ![s] = p]
  <2>1. CASE server.password /\ ~j.tls
    BY <1>2, <2>1, ErrorTaken, Zenon
  <2>2. CASE ~(server.password /\ ~j.tls)
    BY <1>2, <2>2, StepTaken
  <2> QED BY <2>1, <2>2
<1>4. j \in Conns /\ server \in Servers
  BY <1>1, ClientIsConnection DEF NotifierInv, NotifierTypes
<1>5. UNCHANGED <<server, client, conn, notes, alone, smtpErrors, mails>>
  BY DEF authState
<1>6. ASSUME alone[s], client = s, OwnConnection(s, sending[s], conn[s], s, server),
             OwnMail(s, sending[s], conn[s], mails, smtpErrors, server)
      PROVE  OwnConnection(s, p, j, s, server) /\ OwnMail(s, p, j, mails, smtpErrors, server)
  <2>1. CASE server.password /\ ~j.tls
    <3>1. ~Works(server) /\ ~Writing(j)
      BY <1>1, <1>6, <2>1, Zenon DEF OwnConnection, Talking, Opening, Works
    <3> QED BY <1>1, <1>3, <1>6, <2>1, <3>1, LoneError, Zenon
  <2>2. CASE ~(server.password /\ ~j.tls)
    <3>1. p.pc = pc /\ p.error = sending[s].error
      BY <1>3, <2>2
    <3>2. OwnConnection(s, p, j, s, server)
      BY <1>1, <1>4, <1>6, <2>2, <3>1, Zenon DEF OwnConnection, Talking, Opening, Addressed, Works, Servers
    <3> QED BY <1>1, <1>6, <3>1, <3>2, NoMailYet, Zenon
  <2> QED BY <2>1, <2>2
<1>7. p.pc \notin {"idle", "write", "body"}
  BY <1>3
<1> QED BY <1>1, <1>3, <1>5, <1>6, <1>7, SilentMoves, Zenon

\* The password is sent, ...
LEMMA authMoves ==
    ASSUME NotifierInv, NEW s \in Callers, auth(s)
    PROVE  NotifierInv'
<1> DEFINE j == conn[client]
           r == Ready(j)
<1>1. sending[s].pc = "auth" /\ sending[s].pc \in Dialled /\ sending[s].pc # "body"
  BY DEF auth, OnStep, Dialled, SMTPSteps
<1>2. client \in Callers /\ j \in Conns
  BY <1>1, ClientIsConnection
<1>3. /\ r \in Conns /\ r.open = j.open /\ r.tls = j.tls
      /\ r.rcpts \subseteq j.rcpts /\ r.data = NoClient
      /\ ~Writing(j) => r.rcpts = j.rcpts /\ r.from = j.from
  BY <1>2, ReadyFields
<1>4. "mail" \in SMTPSteps /\ server \in Servers
  BY DEF SMTPSteps, NotifierInv, NotifierTypes
<1>5. CASE ~server.auth
  <2>1. Err(s) /\ UNCHANGED <<server, client, conn, smtpErrors, mails, notes, alone>>
    BY <1>5 DEF auth
  <2>2. PICK p \in Sendings : p.pc = "quit" /\ p.error /\ sending' = [sending EXCEPT ![s] = p]
    BY <2>1, ErrorTaken, Zenon
  <2>3. ASSUME alone[s], client = s, OwnConnection(s, sending[s], conn[s], s, server),
               OwnMail(s, sending[s], conn[s], mails, smtpErrors, server)
        PROVE  OwnConnection(s, p, j, s, server) /\ OwnMail(s, p, j, mails, smtpErrors, server)
    <3>1. ~Works(server) /\ ~Writing(j)
      BY <1>1, <1>5, <2>3, Zenon DEF OwnConnection, Talking, Opening, Works
    <3> QED BY <1>1, <2>2, <2>3, <3>1, LoneError, Zenon
  <2> QED BY <1>1, <2>1, <2>2, <2>3, SilentMoves, Zenon
<1>6. CASE server.auth /\ ~(j.open /\ ~j.auth)
  <2>1. Refuses(s)
    BY <1>6 DEF auth
  <2>2. ~alone[s]
    BY <1>1, <1>6, ClientIsConnection DEF OwnConnection, Talking, Opening
  <2> QED BY <1>1, <2>1, <2>2, RefusalMoves
<1>7. CASE server.auth /\ j.open /\ ~j.auth /\ loginAuthStart(j)
  <2> DEFINE k == [r EXCEPT !.auth = TRUE]
  <2>1. Command(k) /\ ToStep(s, "mail")
    BY <1>7 DEF auth
  <2>2. PICK p \in Sendings : /\ p.pc = "mail" /\ p.error = sending[s].error
                              /\ sending' = [sending EXCEPT ![s] = p]
    BY <1>4, <2>1, StepTaken
  <2> HIDE DEF r
  <2>3. /\ k \in Conns /\ k.open = j.open /\ k.tls = j.tls
        /\ k.rcpts \subseteq j.rcpts /\ k.data = NoClient
        /\ ~Writing(j) => k.rcpts = j.rcpts /\ k.from = j.from
    BY <1>3, Zenon DEF Conns
  <2> HIDE DEF k
  <2>4. ASSUME alone[s], client = s, OwnConnection(s, sending[s], conn[s], s, server),
               OwnMail(s, sending[s], conn[s], mails, smtpErrors, server)
        PROVE  OwnConnection(s, p, k, s, server) /\ OwnMail(s, p, k, mails, smtpErrors, server)
    <3>1. OwnConnection(s, p, k, s, server)
      BY <1>1, <1>4, <1>7, <2>2, <2>3, <2>4, Zenon
      DEF OwnConnection, Talking, Opening, Addressed, Writing, Works, Servers
    <3> QED BY <1>1, <2>2, <2>4, <3>1, NoMailYet, Zenon
  <2>5. /\ p.pc \notin {"idle", "write"} /\ p.pc # "body"
        /\ k.rcpts \subseteq j.rcpts \cup {s} /\ k.data \in {s, j.data, NoClient}
    BY <2>2, <2>3, Zenon
  <2> QED BY <1>1, <2>1, <2>2, <2>3, <2>4, <2>5, CommandMoves, Zenon
<1>8. CASE server.auth /\ j.open /\ ~j.auth /\ ~loginAuthStart(j)
  <2> DEFINE k == [r EXCEPT !.open = FALSE]
  <2>1. Command(k) /\ Err(s)
    BY <1>8 DEF auth
  <2>2. PICK p \in Sendings : p.pc = "quit" /\ p.error /\ sending' = [sending EXCEPT ![s] = p]
    BY <2>1, ErrorTaken, Zenon
  <2> HIDE DEF r
  <2>3. k \in Conns /\ k.rcpts \subseteq j.rcpts /\ k.data = NoClient
    BY <1>3, Zenon DEF Conns
  <2> HIDE DEF k
  <2>4. ~alone[s]
    BY <1>1, <1>8, ClientIsConnection DEF OwnConnection, loginAuthStart
  <2>5. /\ p.pc \notin {"idle", "write"} /\ p.pc # "body"
        /\ k.rcpts \subseteq j.rcpts \cup {s} /\ k.data \in {s, j.data, NoClient}
    BY <2>2, <2>3, Zenon
  <2> QED BY <1>1, <2>1, <2>2, <2>3, <2>4, <2>5, CommandMoves, Zenon
<1> QED BY <1>5, <1>6, <1>7, <1>8

\* ... MAIL begins a message, ...
LEMMA MailMoves ==
    ASSUME NotifierInv, NEW s \in Callers, Mail(s)
    PROVE  NotifierInv'
<1> DEFINE j == conn[client]
           r == Ready(j)
<1>1. sending[s].pc = "mail" /\ sending[s].pc \in Dialled /\ sending[s].pc # "body"
  BY DEF Mail, OnStep, Dialled, SMTPSteps
<1>2. client \in Callers /\ j \in Conns
  BY <1>1, ClientIsConnection
<1>3. r \in Conns /\ r.open = j.open /\ r.tls = j.tls /\ r.data = NoClient
  BY <1>2, ReadyFields
<1>4. "rcpt" \in SMTPSteps
  BY DEF SMTPSteps
<1> DEFINE k == [r EXCEPT !.from = TRUE, !.rcpts = {}]
<1>5. CASE j.open /\ Command(k) /\ ToStep(s, "rcpt")
  <2>2. PICK p \in Sendings : /\ p.pc = "rcpt" /\ p.error = sending[s].error
                              /\ sending' = [sending EXCEPT ![s] = p]
    BY <1>4, <1>5, StepTaken
  <2> HIDE DEF r
  <2>3. /\ k \in Conns /\ k.open = j.open /\ k.tls = j.tls
        /\ k.rcpts = {} /\ k.data = NoClient /\ k.from = TRUE
    BY <1>3, Zenon DEF Conns
  <2> HIDE DEF k
  <2>4. ASSUME alone[s], client = s, OwnConnection(s, sending[s], conn[s], s, server),
               OwnMail(s, sending[s], conn[s], mails, smtpErrors, server)
        PROVE  OwnConnection(s, p, k, s, server) /\ OwnMail(s, p, k, mails, smtpErrors, server)
    <3>1. OwnConnection(s, p, k, s, server)
      BY <1>1, <1>5, <2>2, <2>3, <2>4, Zenon
      DEF OwnConnection, Talking, Opening, Addressed, Writing
    <3> QED BY <1>1, <2>2, <2>4, <3>1, NoMailYet, Zenon
  <2>5. /\ p.pc \notin {"idle", "write"} /\ p.pc # "body"
        /\ k.rcpts \subseteq j.rcpts \cup {s} /\ k.data \in {s, j.data, NoClient}
    BY <2>2, <2>3, Zenon
  <2> QED BY <1>1, <1>5, <2>2, <2>3, <2>4, <2>5, CommandMoves, Zenon
<1>6. CASE (~j.open \/ (j.from /\ ~Writing(j))) /\ Refuses(s)
  <2>1. ~alone[s]
    BY <1>1, <1>6, ClientIsConnection DEF OwnConnection, Talking, Opening
  <2> QED BY <1>1, <1>6, <2>1, RefusalMoves
<1> QED BY <1>5, <1>6 DEF Mail

\* ... RCPT names its recipient, ...
LEMMA RcptMoves ==
    ASSUME NotifierInv, NEW s \in Callers, Rcpt(s)
    PROVE  NotifierInv'
<1> DEFINE j == conn[client]
           r == Ready(j)
           pc == IF s = StartupCheck THEN "reset" ELSE "dataState"
<1>1. sending[s].pc = "rcpt" /\ sending[s].pc \in Dialled /\ sending[s].pc # "body"
  BY DEF Rcpt, OnStep, Dialled, SMTPSteps
<1>2. client \in Callers /\ j \in Conns
  BY <1>1, ClientIsConnection
<1>3. /\ r \in Conns /\ r.open = j.open /\ r.tls = j.tls
      /\ r.rcpts \subseteq j.rcpts /\ r.data = NoClient
      /\ ~Writing(j) => r.rcpts = j.rcpts
  BY <1>2, ReadyFields
<1>4. pc \in SMTPSteps
  BY DEF SMTPSteps
<1>5. CASE j.open /\ j.from /\ ~Writing(j)
  <2> DEFINE k == [r EXCEPT !.rcpts = @ \cup {s}]
  <2>1. Command(k) /\ ToStep(s, pc)
    BY <1>5 DEF Rcpt
  <2>2. PICK p \in Sendings : /\ p.pc = pc /\ p.error = sending[s].error
                              /\ sending' = [sending EXCEPT ![s] = p]
    BY <1>4, <2>1, StepTaken
  <2> HIDE DEF r
  <2>3. /\ k \in Conns /\ k.open = j.open /\ k.tls = j.tls
        /\ k.rcpts = j.rcpts \cup {s} /\ k.data = NoClient
    BY <1>3, <1>5, Zenon DEF Conns
  <2> HIDE DEF k
  <2>4. ASSUME alone[s], client = s, OwnConnection(s, sending[s], conn[s], s, server),
               OwnMail(s, sending[s], conn[s], mails, smtpErrors, server)
        PROVE  OwnConnection(s, p, k, s, server) /\ OwnMail(s, p, k, mails, smtpErrors, server)
    <3>1. OwnConnection(s, p, k, s, server)
      BY <1>1, <1>5, <2>2, <2>3, <2>4, Zenon
      DEF OwnConnection, Talking, Opening, Addressed, Writing
    <3> QED BY <1>1, <2>2, <2>4, <3>1, NoMailYet, Zenon
  <2>5. /\ p.pc \notin {"idle", "write"} /\ p.pc # "body"
        /\ k.rcpts \subseteq j.rcpts \cup {s} /\ k.data \in {s, j.data, NoClient}
    BY <2>2, <2>3
  <2> QED BY <1>1, <2>1, <2>2, <2>3, <2>4, <2>5, CommandMoves, Zenon
<1>6. CASE ~(j.open /\ j.from /\ ~Writing(j))
  <2>1. Refuses(s)
    BY <1>6 DEF Rcpt
  <2>2. ~alone[s]
    BY <1>1, <1>6, ClientIsConnection, Zenon DEF OwnConnection, Talking
  <2> QED BY <1>1, <2>1, <2>2, RefusalMoves
<1> QED BY <1>5, <1>6

\* ... compose looks at the connection, ...
LEMMA dataStateMoves ==
    ASSUME NotifierInv, NEW s \in Callers, dataState(s)
    PROVE  NotifierInv'
<1> DEFINE j == conn[client]
           plain == ~server.disableRequireTLS /\ ~j.tls
<1>1. sending[s].pc = "dataState" /\ sending[s].pc \in Dialled /\ sending[s].pc # "body"
  BY DEF dataState, OnStep, Dialled, SMTPSteps
<1>2. "data" \in SMTPSteps /\ IF plain THEN Err(s) ELSE ToStep(s, "data")
  BY DEF SMTPSteps, dataState
<1>3. PICK p \in Sendings :
         /\ plain => p.pc = "quit"
         /\ ~plain => p.pc = "data" /\ p.error = sending[s].error
         /\ sending' = [sending EXCEPT ![s] = p]
  <2>1. CASE plain
    BY <1>2, <2>1, ErrorTaken, Zenon
  <2>2. CASE ~plain
    BY <1>2, <2>2, StepTaken
  <2> QED BY <2>1, <2>2
<1>4. UNCHANGED <<server, client, conn, notes, alone, smtpErrors, mails>>
  BY DEF dataState
<1>5. ASSUME alone[s], client = s, OwnConnection(s, sending[s], conn[s], s, server),
             OwnMail(s, sending[s], conn[s], mails, smtpErrors, server)
      PROVE  OwnConnection(s, p, j, s, server) /\ OwnMail(s, p, j, mails, smtpErrors, server)
  <2>1. ~plain
    BY <1>1, <1>5, Zenon DEF OwnConnection, Addressed, Works
  <2>2. p.pc = "data" /\ p.error = sending[s].error
    BY <1>3, <2>1
  <2>3. OwnConnection(s, p, j, s, server)
    BY <1>1, <1>5, <2>2, Zenon DEF OwnConnection, Talking, Opening, Addressed
  <2> QED BY <1>1, <1>5, <2>2, <2>3, NoMailYet, Zenon
<1>6. p.pc \notin {"idle", "write", "body"}
  BY <1>3
<1> QED BY <1>1, <1>3, <1>4, <1>5, <1>6, SilentMoves, Zenon

\* ... and DATA begins the body.
LEMMA DataMoves ==
    ASSUME NotifierInv, NEW s \in Callers, Data(s)
    PROVE  NotifierInv'
<1> DEFINE j == conn[client]
           r == Ready(j)
<1>1. sending[s].pc = "data" /\ sending[s].pc \in Dialled /\ sending[s].pc # "body"
  BY DEF Data, OnStep, Dialled, SMTPSteps
<1>2. client \in Callers /\ j \in Conns /\ sending[s] \in Sendings
  BY <1>1, ClientIsConnection DEF NotifierInv, NotifierTypes
<1>3. /\ r \in Conns /\ r.open = j.open /\ r.tls = j.tls
      /\ r.rcpts \subseteq j.rcpts
      /\ ~Writing(j) => r.rcpts = j.rcpts
  BY <1>2, ReadyFields
<1>4. "body" \in SMTPSteps
  BY DEF SMTPSteps
<1>5. CASE j.open /\ j.rcpts # {} /\ ~Writing(j)
  <2> DEFINE k == [r EXCEPT !.data = s]
             p == [sending[s] EXCEPT !.pc = "body", !.wc = client]
  <2>1. Command(k) /\ sending' = [sending EXCEPT ![s] = p]
    BY <1>5, Zenon DEF Data
  <2>2. p \in Sendings /\ p.pc = "body" /\ p.error = sending[s].error /\ p.wc = client
    BY <1>2, <1>4, Zenon DEF Sendings
  <2> HIDE DEF r, p
  <2>3. /\ k \in Conns /\ k.open = j.open /\ k.tls = j.tls
        /\ k.rcpts = j.rcpts /\ k.data = s
    BY <1>3, <1>5, Zenon DEF Conns
  <2> HIDE DEF k
  <2>4. ASSUME alone[s], client = s, OwnConnection(s, sending[s], conn[s], s, server),
               OwnMail(s, sending[s], conn[s], mails, smtpErrors, server)
        PROVE  OwnConnection(s, p, k, s, server) /\ OwnMail(s, p, k, mails, smtpErrors, server)
    <3>1. OwnConnection(s, p, k, s, server)
      BY <1>1, <1>5, <2>2, <2>3, <2>4, Zenon
      DEF OwnConnection, Talking, Opening, Addressed
    <3> QED BY <1>1, <2>2, <2>4, <3>1, NoMailYet
  <2>5. /\ p.pc \notin {"idle", "write"}
        /\ k.rcpts \subseteq j.rcpts \cup {s} /\ k.data \in {s, j.data, NoClient}
    BY <2>2, <2>3
  <2> QED BY <1>1, <2>1, <2>2, <2>3, <2>4, <2>5, CommandMoves, Zenon
<1>6. CASE ~(j.open /\ j.rcpts # {} /\ ~Writing(j))
  <2>1. Refuses(s)
    BY <1>6 DEF Data
  <2>2. ~alone[s]
    BY <1>1, <1>6, ClientIsConnection DEF OwnConnection, Talking, Addressed
  <2> QED BY <1>1, <2>1, <2>2, RefusalMoves
<1> QED BY <1>5, <1>6

\* The startup check ends its message without a body.
LEMMA ResetMoves ==
    ASSUME NotifierInv, NEW s \in Callers, Reset(s)
    PROVE  NotifierInv'
<1> DEFINE j == conn[client]
           r == Ready(j)
<1>1. sending[s].pc = "reset" /\ sending[s].pc \in Dialled /\ sending[s].pc # "body"
  BY DEF Reset, OnStep, Dialled, SMTPSteps
<1>2. client \in Callers /\ j \in Conns
  BY <1>1, ClientIsConnection
<1>3. r \in Conns /\ r.data = NoClient
  BY <1>2, ReadyFields
<1>4. "quit" \in SMTPSteps
  BY DEF SMTPSteps
<1>5. CASE j.open
  <2> DEFINE k == [r EXCEPT !.from = FALSE, !.rcpts = {}]
  <2>1. Command(k) /\ ToStep(s, "quit")
    BY <1>5 DEF Reset
  <2>2. PICK p \in Sendings : /\ p.pc = "quit" /\ p.error = sending[s].error
                              /\ sending' = [sending EXCEPT ![s] = p]
    BY <1>4, <2>1, StepTaken
  <2> HIDE DEF r
  <2>3. k \in Conns /\ k.rcpts = {} /\ k.data = NoClient
    BY <1>3, Zenon DEF Conns
  <2> HIDE DEF k
  <2>4. ASSUME alone[s], client = s, OwnConnection(s, sending[s], conn[s], s, server),
               OwnMail(s, sending[s], conn[s], mails, smtpErrors, server)
        PROVE  OwnConnection(s, p, k, s, server) /\ OwnMail(s, p, k, mails, smtpErrors, server)
    <3>1. ~p.error /\ Works(server) /\ s = StartupCheck
      BY <1>1, <2>2, <2>4, Zenon DEF OwnConnection, Talking
    <3>2. Involved(s, mails) = {}
      BY <1>1, <2>4 DEF OwnMail
    <3>3. OwnConnection(s, p, k, s, server)
      BY <2>2, <2>3 DEF OwnConnection, Talking, Opening, Addressed, Writing
    <3> QED BY <2>2, <3>1, <3>2, <3>3 DEF OwnMail
  <2>5. /\ p.pc \notin {"idle", "write"} /\ p.pc # "body"
        /\ k.rcpts \subseteq j.rcpts \cup {s} /\ k.data \in {s, j.data, NoClient}
    BY <2>2, <2>3
  <2> QED BY <1>1, <2>1, <2>2, <2>3, <2>4, <2>5, CommandMoves, Zenon
<1>6. CASE ~j.open
  <2>1. Refuses(s)
    BY <1>6 DEF Reset
  <2>2. ~alone[s]
    BY <1>1, <1>6, ClientIsConnection DEF OwnConnection, Talking
  <2> QED BY <1>1, <2>1, <2>2, RefusalMoves, Zenon
<1> QED BY <1>5, <1>6

\* A lone call closes its own connection.
LEMMA cleanupMoves ==
    ASSUME NotifierInv, NEW s \in Callers, cleanup(s)
    PROVE  NotifierInv'
<1> DEFINE j == conn[client]
           r == Ready(j)
           k == IF j.open THEN [r EXCEPT !.open = FALSE] ELSE j
<1>1. sending[s].pc = "quit" /\ sending[s].pc \in Dialled /\ sending[s].pc # "body"
  BY DEF cleanup, OnStep, Dialled, SMTPSteps
<1>2. client \in Callers /\ j \in Conns
  BY <1>1, ClientIsConnection
<1>3. r \in Conns /\ r.data = NoClient /\ r.rcpts \subseteq j.rcpts
  BY <1>2, ReadyFields
<1>4. "done" \in SMTPSteps
  BY DEF SMTPSteps
<1>5. Command(k) /\ ToStep(s, "done")
  BY DEF cleanup
<1>6. PICK p \in Sendings : /\ p.pc = "done" /\ p.error = sending[s].error
                            /\ sending' = [sending EXCEPT ![s] = p]
  BY <1>4, <1>5, StepTaken
<1> HIDE DEF r
<1>7. k \in Conns /\ ~k.open /\ k.rcpts \subseteq j.rcpts /\ k.data \in {j.data, NoClient}
  BY <1>2, <1>3, Zenon DEF Conns
<1> HIDE DEF k
<1>8. ASSUME OwnMail(s, sending[s], conn[s], mails, smtpErrors, server)
      PROVE  OwnConnection(s, p, k, s, server) /\ OwnMail(s, p, k, mails, smtpErrors, server)
  <2>1. OwnConnection(s, p, k, s, server)
    BY <1>6, Zenon DEF OwnConnection, Talking, Opening, Addressed
  <2> QED BY <1>1, <1>6, <1>7, <1>8, <2>1, Zenon DEF OwnMail
<1>9. /\ p.pc \notin {"idle", "write"} /\ p.pc # "body"
      /\ k.rcpts \subseteq j.rcpts \cup {s} /\ k.data \in {s, j.data, NoClient}
  BY <1>6, <1>7
<1> QED BY <1>1, <1>5, <1>6, <1>7, <1>8, <1>9, CommandMoves, Zenon

\* The body of a lone call completes its own message.
LEMMA OwnBody ==
    ASSUME NEW s \in Callers, NEW p, NEW k \in Conns, NEW x, NEW v \in Servers, NEW M, NEW j, NEW e,
           OwnConnection(s, p, k, x, v), OwnMail(s, p, j, M, e, v), p.pc = "body"
    PROVE  /\ \A m \in Involved(s, M \cup {[to |-> k.rcpts, body |-> s, tls |-> k.tls]}) :
                 m.to = {s} /\ m.body = s /\ (m.tls \/ v.disableRequireTLS)
           /\ k.open /\ Writing(k) /\ Works(v) /\ ~p.error /\ x = s /\ p.wc = s
<1> DEFINE b == [to |-> k.rcpts, body |-> s, tls |-> k.tls]
<1>1. k.open /\ Works(v) /\ ~p.error /\ x = s /\ p.wc = s /\ k.rcpts = {s} /\ k.data = s
      /\ (k.tls <=> v.smtps \/ v.starttls)
  BY Zenon DEF OwnConnection, Talking, Addressed
<1>2. Writing(k)
  BY <1>1, NotifierAssumption DEF Writing
<1>3. b.to = {s} /\ b.body = s /\ (b.tls \/ v.disableRequireTLS)
  BY <1>1, Zenon DEF Works
<1>4. Involved(s, M) = {}
  BY DEF OwnMail
<1> HIDE DEF b
<1>5. Involved(s, M \cup {b}) = {b}
  BY <1>3, <1>4 DEF Involved
<1>6. \A m \in Involved(s, M \cup {b}) : m.to = {s} /\ m.body = s /\ (m.tls \/ v.disableRequireTLS)
  BY <1>3, <1>5
<1> QED BY <1>1, <1>2, <1>6, Zenon DEF b

\* The body goes to the connection of Data.
LEMMA BodyMoves ==
    ASSUME NotifierInv, NEW s \in Callers, Body(s)
    PROVE  NotifierInv'
<1> DEFINE x == sending[s].wc
           j == conn[x]
<1>1. sending[s].pc = "body" /\ sending[s].pc \in Dialled /\ Running(s)
  BY DEF Body, OnStep, Dialled, SMTPSteps, Running
<1>2. ~server.filesystem
  BY <1>1 DEF NotifierInv, FileNotesInv
<1>3. /\ x \in Callers /\ ~Settled(x, sending, alone)
      /\ client \in Callers /\ ~Settled(client, sending, alone)
  BY <1>1, <1>2, Zenon DEF NotifierInv, MailInv, ConnectionsInv
<1>4. j \in Conns /\ server \in Servers /\ smtpErrors \in Nat /\ conn \in [Callers -> Conns]
  BY <1>3 DEF NotifierInv, NotifierTypes
<1>5. alone[s] => /\ OwnConnection(s, sending[s], conn[s], client, server)
                  /\ OwnMail(s, sending[s], conn[s], mails, smtpErrors, server)
  BY <1>2 DEF NotifierInv, MailInv
<1>6. UNCHANGED <<server, client, smtpErrors, notes, alone>>
  BY DEF Body
<1>7. alone[s] => x = s /\ client = s
  BY <1>1, <1>5, Zenon DEF OwnConnection, Talking, Addressed
<1>own. alone[s] => /\ OwnConnection(s, sending[s], j, client, server)
                    /\ OwnMail(s, sending[s], j, mails, smtpErrors, server)
  BY <1>5, <1>7
<1>8. CASE j.open /\ Writing(j)
  <2> DEFINE b == [to |-> j.rcpts, body |-> s, tls |-> j.tls]
             k == [j EXCEPT !.data = NoClient, !.from = FALSE, !.rcpts = {}]
  <2>1. mails' = mails \cup {b} /\ conn' = [conn EXCEPT ![x] = k] /\ ToStep(s, "quit")
    BY <1>8 DEF Body
  <2>2. "quit" \in SMTPSteps
    BY DEF SMTPSteps
  <2>3. PICK p \in Sendings : /\ p.pc = "quit" /\ p.error = sending[s].error
                              /\ sending' = [sending EXCEPT ![s] = p]
    BY <2>1, <2>2, StepTaken
  <2>4. k \in Conns /\ k.rcpts = {} /\ k.data = NoClient
    BY <1>4, Zenon DEF Conns
  <2> HIDE DEF j
  <2>5. b.to = j.rcpts /\ b.body = s /\ b \in Mails
    BY <1>4 DEF Mails, Conns
  <2> HIDE DEF k
  <2>6. ASSUME alone[s]
        PROVE  OwnConnection(s, p, k, client', server) /\ OwnMail(s, p, k, mails', smtpErrors', server)
    <3>1. OwnConnection(s, p, k, client', server)
      BY <1>6, <1>7, <2>3, <2>4, <2>6, Zenon DEF OwnConnection, Talking, Opening, Addressed, Writing
    <3>2. /\ \A m \in Involved(s, mails') : m.to = {s} /\ m.body = s /\ (m.tls \/ server.disableRequireTLS)
          /\ Works(server) /\ ~sending[s].error
      BY <1>1, <1>4, <1>own, <2>1, <2>6, OwnBody, Zenon
    <3>3. \E m \in mails' : m.body = s
      BY <2>1, <2>5
    <3> QED BY <2>3, <3>1, <3>2, <3>3, Zenon DEF OwnMail
  <2>7. /\ k.rcpts \subseteq j.rcpts \cup {s} /\ k.data \in {j.data, s, NoClient}
        /\ p.pc \notin {"idle", "write"} /\ p.pc # "body"
        /\ client' \in Callers /\ ~Settled(client', sending, alone) /\ client' \in {client, s}
        /\ smtpErrors' \in Nat /\ smtpErrors <= smtpErrors'
        /\ UNCHANGED <<server, notes, alone>>
    BY <1>3, <1>4, <1>6, <2>3, <2>4
  <2> HIDE DEF b, x
  <2>8. {b} \subseteq Mails /\ \A m \in {b} : m.to \subseteq j.rcpts /\ m.body \in {s, NoClient}
    BY <2>5
  <2>9. j = conn[x]
    BY DEF j
  <2> DEFINE M == {b}
  <2>10. /\ ~server.filesystem /\ Running(s) /\ x \in Callers /\ ~Settled(x, sending, alone)
         /\ k \in Conns /\ p \in Sendings
         /\ k.rcpts \subseteq conn[x].rcpts \cup {s}
         /\ k.data \in {conn[x].data, s, NoClient}
         /\ M \subseteq Mails /\ \A m \in M : m.to \subseteq conn[x].rcpts /\ m.body \in {s, NoClient}
    BY <1>1, <1>2, <1>3, <1>7, <2>1, <2>3, <2>4, <2>6, <2>7, <2>8, <2>9, Zenon
  <2>11. /\ p.pc \notin {"idle", "write"}
         /\ p.pc \in Dialled => client' \in Callers /\ ~Settled(client', sending, alone)
         /\ p.pc = "body" => p.wc \in Callers /\ ~Settled(p.wc, sending, alone)
         /\ client' \in {client, s}
         /\ conn' = [conn EXCEPT ![x] = k]
         /\ sending' = [sending EXCEPT ![s] = p]
         /\ mails' = mails \cup M
         /\ UNCHANGED <<server, notes, alone>>
         /\ smtpErrors' \in Nat /\ smtpErrors <= smtpErrors'
    BY <1>1, <1>2, <1>3, <1>7, <2>1, <2>3, <2>4, <2>6, <2>7, <2>8, <2>9, Zenon
  <2>12. alone[s] => x = s /\ OwnConnection(s, p, k, client', server)
                 /\ OwnMail(s, p, k, mails', smtpErrors', server)
    BY <1>1, <1>2, <1>3, <1>7, <2>1, <2>3, <2>4, <2>6, <2>7, <2>8, <2>9, Zenon
  <2> HIDE DEF M
  <2> QED BY <2>10, <2>11, <2>12, OneCallMoves, Zenon
<1>9. CASE ~(j.open /\ Writing(j))
  <2>1. Err(s) /\ mails' = mails \cup {} /\ conn' = [conn EXCEPT ![x] = j]
    BY <1>3, <1>4, <1>9 DEF Body
  <2>2. PICK p \in Sendings : p.pc = "quit" /\ sending' = [sending EXCEPT ![s] = p]
    BY <2>1, ErrorTaken, Zenon
  <2>3. ~alone[s]
    <3> HIDE DEF j
    <3> QED BY <1>1, <1>4, <1>own, <1>9, OwnBody, Zenon
  <2>4. /\ j.rcpts \subseteq j.rcpts \cup {s} /\ j.data \in {j.data, s, NoClient}
        /\ p.pc \notin {"idle", "write"} /\ p.pc # "body"
        /\ client' \in Callers /\ ~Settled(client', sending, alone) /\ client' \in {client, s}
        /\ smtpErrors' \in Nat /\ smtpErrors <= smtpErrors'
        /\ UNCHANGED <<server, notes, alone>>
    BY <1>3, <1>4, <1>6, <2>2
  <2> DEFINE M == {}
  <2> HIDE DEF x
  <2>5. /\ ~server.filesystem /\ Running(s) /\ x \in Callers /\ ~Settled(x, sending, alone)
        /\ conn[x] \in Conns /\ p \in Sendings
        /\ conn[x].rcpts \subseteq conn[x].rcpts \cup {s}
        /\ conn[x].data \in {conn[x].data, s, NoClient}
        /\ M \subseteq Mails /\ \A m \in M : m.to \subseteq conn[x].rcpts /\ m.body \in {s, NoClient}
    BY <1>1, <1>2, <1>3, <1>4, <2>1, <2>2, <2>3, <2>4, Zenon
  <2>6. /\ p.pc \notin {"idle", "write"}
        /\ p.pc \in Dialled => client' \in Callers /\ ~Settled(client', sending, alone)
        /\ p.pc = "body" => p.wc \in Callers /\ ~Settled(p.wc, sending, alone)
        /\ client' \in {client, s}
        /\ conn' = [conn EXCEPT ![x] = conn[x]]
        /\ sending' = [sending EXCEPT ![s] = p]
        /\ mails' = mails \cup M
        /\ UNCHANGED <<server, notes, alone>>
        /\ smtpErrors' \in Nat /\ smtpErrors <= smtpErrors'
    BY <1>1, <1>2, <1>3, <1>4, <2>1, <2>2, <2>3, <2>4, Zenon
  <2>7. alone[s] => x = s /\ OwnConnection(s, p, conn[x], client', server)
                /\ OwnMail(s, p, conn[x], mails', smtpErrors', server)
    BY <1>1, <1>2, <1>3, <1>4, <2>1, <2>2, <2>3, <2>4, Zenon
  <2> HIDE DEF M
  <2> QED BY <2>5, <2>6, <2>7, OneCallMoves, Zenon
<1> QED BY <1>8, <1>9

\* n.client = client.
LEMMA dialMoves ==
    ASSUME NotifierInv, NEW s \in Callers, dial(s)
    PROVE  NotifierInv'
<1> DEFINE k == [Closed EXCEPT !.open = TRUE, !.tls = server.smtps]
<1>1. sending[s].pc = "dial" /\ Running(s) /\ ~Settled(s, sending, alone) /\ ~server.filesystem
  BY DEF dial, OnStep, Running, Settled
<1>2. server \in Servers /\ smtpErrors \in Nat /\ mails' = mails \cup {}
  BY DEF NotifierInv, NotifierTypes, dial
<1>3. /\ k \in Conns /\ k.open = TRUE /\ k.tls = server.smtps /\ k.hello = FALSE /\ k.auth = FALSE
      /\ k.from = FALSE /\ k.rcpts = {} /\ k.data = NoClient
  BY <1>2, Zenon DEF Conns, Closed, Servers
<1>4. /\ client' = s /\ conn' = [conn EXCEPT ![s] = k] /\ ToStep(s, "hello")
      /\ UNCHANGED <<server, smtpErrors, mails, notes, alone>>
  BY DEF dial
<1>5. "hello" \in SMTPSteps
  BY DEF SMTPSteps
<1>6. PICK p \in Sendings : /\ p.pc = "hello" /\ p.error = sending[s].error
                            /\ sending' = [sending EXCEPT ![s] = p]
  BY <1>4, <1>5, StepTaken
<1> HIDE DEF k
<1>7. ASSUME alone[s]
      PROVE  OwnConnection(s, p, k, client', server) /\ OwnMail(s, p, k, mails', smtpErrors', server)
  <2>1. /\ OwnConnection(s, sending[s], conn[s], client, server)
        /\ OwnMail(s, sending[s], conn[s], mails, smtpErrors, server)
    BY <1>1, <1>7, Zenon DEF NotifierInv, MailInv
  <2>2. OwnConnection(s, p, k, s, server)
    BY <1>1, <1>3, <1>6, <2>1, Zenon DEF OwnConnection, Talking, Opening, Addressed, Writing
  <2>3. OwnMail(s, p, k, mails, smtpErrors, server)
    BY <1>1, <1>6, <2>1, NoMailYet
  <2> QED BY <1>4, <2>2, <2>3
<1>8. /\ k.rcpts \subseteq conn[s].rcpts \cup {s} /\ k.data \in {conn[s].data, s, NoClient}
      /\ p.pc \notin {"idle", "write"} /\ p.pc # "body"
      /\ client' \in Callers /\ ~Settled(client', sending, alone) /\ client' \in {client, s}
      /\ smtpErrors' \in Nat /\ smtpErrors <= smtpErrors'
      /\ UNCHANGED <<server, notes, alone>>
      /\ {} \subseteq Mails /\ \A m \in {} : m.to \subseteq conn[s].rcpts /\ m.body \in {s, NoClient}
  BY <1>1, <1>2, <1>3, <1>4, <1>6
<1> QED BY <1>1, <1>2, <1>3, <1>4, <1>6, <1>7, <1>8, OneCallMoves, Zenon

\* A command fails.
LEMMA FailsMoves ==
    ASSUME NotifierInv, NEW s \in Callers, Fails(s)
    PROVE  NotifierInv'
<1> DEFINE pc == IF sending[s].pc \in {"dial", "quit"} THEN "done" ELSE "quit"
           p == [sending[s] EXCEPT !.pc = pc, !.error = @ \/ sending[s].pc # "quit"]
<1>1. /\ Running(s) /\ ~Settled(s, sending, alone) /\ ~server.filesystem
      /\ UNCHANGED <<server, client, notes, alone>>
      /\ smtpErrors' = smtpErrors + 1
  BY DEF Fails, Running, Settled
<1>2. /\ sending[s] \in Sendings /\ conn \in [Callers -> Conns] /\ smtpErrors \in Nat
      /\ server \in Servers /\ sending \in [Callers -> Sendings]
  BY DEF NotifierInv, NotifierTypes
<1>3. sending' = [sending EXCEPT ![s] = p]
  BY <1>2, Zenon DEF Fails
<1>4. pc \in SMTPSteps
  BY DEF SMTPSteps
<1>5. p \in Sendings /\ p.pc = pc /\ (p.error <=> sending[s].error \/ sending[s].pc # "quit")
  BY <1>2, <1>4, Zenon DEF Sendings
<1> HIDE DEF p
<1>6. /\ smtpErrors' \in Nat /\ smtpErrors <= smtpErrors' /\ smtpErrors' > 0 /\ smtpErrors' # 0
      /\ UNCHANGED <<server, notes, alone>> /\ client' \in {client, s}
      /\ p.pc \notin {"idle", "write"} /\ p.pc # "body"
  BY <1>1, <1>2, <1>5
<1>7. p.pc \in Dialled => client' \in Callers /\ ~Settled(client', sending, alone)
  <2>1. ConnectionsInv
    BY <1>1 DEF NotifierInv, MailInv
  <2>2. pc = "quit" => sending[s].pc \in Dialled
    BY <1>1, <1>2, <2>1 DEF Running, Dialled, Sendings, ConnectionsInv
  <2>3. p.pc \in Dialled => pc = "quit"
    BY <1>5 DEF Dialled
  <2> QED BY <1>1, <2>1, <2>2, <2>3 DEF ConnectionsInv
<1>8. alone[s] => /\ OwnConnection(s, sending[s], conn[s], client, server)
                  /\ OwnMail(s, sending[s], conn[s], mails, smtpErrors, server)
  BY <1>1, Zenon DEF NotifierInv, MailInv
<1>9. CASE sending[s].pc # "body"
  <2> DEFINE j == conn[s]
  <2>1. mails' = mails \cup {} /\ conn' = [conn EXCEPT ![s] = j] /\ j \in Conns
    BY <1>2, <1>9 DEF Fails, OnStep
  <2>2. ASSUME alone[s]
        PROVE  OwnConnection(s, p, j, client', server) /\ OwnMail(s, p, j, mails', smtpErrors', server)
    <3>1. ConnectionsInv
      BY <1>1 DEF NotifierInv, MailInv
    <3>2. pc = "quit" => sending[s].pc \in Talking \ {"body"}
      BY <1>1, <1>2, <1>9, <3>1
      DEF Running, Sendings, SMTPSteps, ConnectionsInv, Talking, Opening, Addressed
    <3>3. pc = "quit" => ~Writing(j) /\ client' = s
      BY <1>1, <1>8, <2>2, <3>2, Zenon DEF OwnConnection
    <3>4. OwnConnection(s, p, j, client', server)
      BY <1>5, <3>3, Zenon DEF OwnConnection, Talking, Opening, Addressed
    <3>5. mails' = mails
      BY <2>1
    <3>6. OwnMail(s, p, j, mails, smtpErrors', server)
      <4>1. CASE sending[s].pc = "quit"
        BY <1>5, <1>6, <1>8, <2>2, <4>1, Zenon DEF OwnMail
      <4>2. CASE sending[s].pc # "quit"
        <5>1. p.error /\ sending[s].pc # "done"
          BY <1>1, <1>5, <4>2, Zenon DEF Running
        <5>2. Involved(s, mails) = {}
          BY <1>8, <2>2, <4>2, <5>1, Zenon DEF OwnMail
        <5> QED BY <1>5, <1>6, <5>1, <5>2, Zenon DEF OwnMail
      <4> QED BY <4>1, <4>2, Zenon
    <3> QED BY <3>4, <3>5, <3>6
  <2>3. /\ j.rcpts \subseteq j.rcpts \cup {s} /\ j.data \in {j.data, s, NoClient}
        /\ {} \subseteq Mails /\ \A m \in {} : m.to \subseteq j.rcpts /\ m.body \in {s, NoClient}
    OBVIOUS
  <2> DEFINE M == {}
  <2>4. /\ ~server.filesystem /\ Running(s) /\ s \in Callers /\ ~Settled(s, sending, alone)
        /\ conn[s] \in Conns /\ p \in Sendings
        /\ conn[s].rcpts \subseteq conn[s].rcpts \cup {s}
        /\ conn[s].data \in {conn[s].data, s, NoClient}
        /\ M \subseteq Mails /\ \A m \in M : m.to \subseteq conn[s].rcpts /\ m.body \in {s, NoClient}
    BY <1>1, <1>3, <1>5, <1>6, <1>7, <2>1, <2>2, <2>3
  <2>5. /\ p.pc \notin {"idle", "write"}
        /\ p.pc \in Dialled => client' \in Callers /\ ~Settled(client', sending, alone)
        /\ p.pc = "body" => p.wc \in Callers /\ ~Settled(p.wc, sending, alone)
        /\ client' \in {client, s}
        /\ conn' = [conn EXCEPT ![s] = conn[s]]
        /\ sending' = [sending EXCEPT ![s] = p]
        /\ mails' = mails \cup M
        /\ UNCHANGED <<server, notes, alone>>
        /\ smtpErrors' \in Nat /\ smtpErrors <= smtpErrors'
    BY <1>1, <1>3, <1>5, <1>6, <1>7, <2>1, <2>2, <2>3
  <2>6. alone[s] => s = s /\ OwnConnection(s, p, conn[s], client', server)
                /\ OwnMail(s, p, conn[s], mails', smtpErrors', server)
    BY <1>1, <1>3, <1>5, <1>6, <1>7, <2>1, <2>2, <2>3
  <2> HIDE DEF M
  <2> QED BY <2>4, <2>5, <2>6, OneCallMoves, Zenon
<1>10. CASE sending[s].pc = "body"
  <2> DEFINE x == sending[s].wc
             j == conn[x]
             b == [to |-> j.rcpts, body |-> s, tls |-> j.tls]
             k == [j EXCEPT !.open = FALSE, !.data = NoClient]
  <2>1. x \in Callers /\ ~Settled(x, sending, alone)
    BY <1>1, <1>10, Zenon DEF NotifierInv, MailInv, ConnectionsInv
  <2>2. j \in Conns
    BY <1>2, <2>1
  <2>3. k \in Conns /\ k.rcpts = j.rcpts /\ k.data = NoClient
    BY <2>2, Zenon DEF Conns
  <2>4. PICK M \in {{}, {b}} : mails' = mails \cup M /\ conn' = [conn EXCEPT ![x] = k]
    BY <1>10 DEF Fails, OnStep
  <2>5. M \subseteq Mails /\ \A m \in M : m.to \subseteq j.rcpts /\ m.body \in {s, NoClient}
    <3> HIDE DEF j
    <3>1. b.to = j.rcpts /\ b.body = s /\ b \in Mails
      BY <2>2 DEF Mails, Conns
    <3> HIDE DEF b
    <3> QED BY <2>4, <3>1
  <2> HIDE DEF k
  <2>6. ASSUME alone[s]
        PROVE  /\ x = s /\ OwnConnection(s, p, k, client', server)
               /\ OwnMail(s, p, k, mails', smtpErrors', server)
    <3>1. x = s /\ client' = s
      BY <1>1, <1>8, <1>10, <2>6, Zenon DEF OwnConnection, Talking, Addressed
    <3>2. p.pc = "quit" /\ p.error
      BY <1>5, <1>10
    <3>3. OwnConnection(s, p, k, client', server)
      BY <2>3, <3>1, <3>2, Zenon DEF OwnConnection, Talking, Opening, Addressed, Writing
    <3>4. \A m \in Involved(s, mails') : m.to = {s} /\ m.body = s /\ (m.tls \/ server.disableRequireTLS)
      <4>1. mails' \in {mails, mails \cup {b}}
        BY <2>4
      <4>2. /\ OwnConnection(s, sending[s], j, client, server)
            /\ OwnMail(s, sending[s], j, mails, smtpErrors, server)
        BY <1>8, <2>6, <3>1, Zenon
      <4>3. server \in Servers
        BY <1>2
      <4> HIDE DEF j, x
      <4>4. CASE mails' = mails \cup {b}
        BY <1>10, <2>2, <4>2, <4>3, <4>4, OwnBody, Zenon
      <4>5. CASE mails' = mails
        BY <1>10, <4>2, <4>5, Zenon DEF OwnMail
      <4> QED BY <4>1, <4>4, <4>5
    <3>5. OwnMail(s, p, k, mails', smtpErrors', server)
      BY <1>6, <3>2, <3>4, Zenon DEF OwnMail
    <3> QED BY <3>1, <3>3, <3>5, Zenon
  <2>7. k.rcpts \subseteq j.rcpts \cup {s} /\ k.data \in {j.data, s, NoClient}
    BY <2>3
  <2> QED BY <1>1, <1>3, <1>5, <1>6, <1>7, <2>1, <2>3, <2>4, <2>5, <2>6, <2>7, OneCallMoves, Zenon
<1> QED BY <1>9, <1>10

\* A call begins: of those that run, none is alone any longer.
LEMMA BeginMoves ==
    ASSUME NotifierInv, NEW s \in Callers, Begin(s)
    PROVE  NotifierInv'
<1>0. NotifierTypes /\ LoneInv /\ CheckInv /\ MailInv /\ FileNotesInv
  BY DEF NotifierInv
<1>1. "dial" \in SMTPSteps
  BY DEF SMTPSteps
<1>2. PICK p \in Sendings : /\ p.pc = "dial" /\ p.error = sending[s].error
                            /\ sending' = [sending EXCEPT ![s] = p]
  BY <1>1, StepTaken DEF Begin
<1>3. /\ sending'[s] = p /\ \A q \in Callers : q # s => sending'[q] = sending[q]
      /\ sending[s].pc = "idle" /\ ~Running(s)
      /\ UNCHANGED <<server, client, conn, smtpErrors, mails, notes>>
  BY <1>0, <1>2 DEF NotifierTypes, Begin, OnStep, Running
<1>4. /\ \A q \in Callers : alone'[q] => alone[q]
      /\ \A q \in Callers : q # s /\ alone'[q] => ~Running(q)
      /\ \A q \in Callers : q # s => (alone'[q] <=> alone[q] /\ ~Running(q))
      /\ alone'[s] => \A q \in Callers : ~Running(q)
      /\ (alone[s] /\ \A q \in Callers : ~Running(q)) => alone'[s]
  BY Zenon DEF Begin
<1>5. \A q \in Callers : q # s => (Running(q)' <=> Running(q))
  BY <1>3 DEF Running
<1>6. \A q \in Callers : Settled(q, sending', alone') => q # s /\ Settled(q, sending, alone)
  BY <1>2, <1>3, <1>4, Zenon DEF Settled
<1>7. NotifierTypes'
  <2>1. alone' \in [Callers -> BOOLEAN]
    BY <1>0 DEF Begin, NotifierTypes
  <2>2. sending' \in [Callers -> Sendings]
    BY <1>0, <1>2 DEF NotifierTypes
  <2> QED BY <1>0, <1>3, <2>1, <2>2 DEF NotifierTypes
<1>8. LoneInv'
  BY <1>4, <1>5 DEF LoneInv
<1>9. CheckInv'
  <2>1. StartupCheck \in Callers /\ Sends \subseteq Callers /\ StartupCheck \notin Sends
    BY NotifierAssumption DEF Callers
  <2>2. CASE s = StartupCheck
    <3>1. \A r \in Sends : OnStep(r, "idle") /\ ~Running(r)
      BY <2>2, Zenon DEF Begin, OnStep, Running
    <3>2. \A q \in Callers : ~Running(q)
      BY <1>3, <2>2, <3>1 DEF Callers
    <3>3. alone'[StartupCheck]
      BY <1>0, <1>4, <2>2, <3>2, Zenon DEF CheckInv
    <3>4. \A r \in Sends : OnStep(r, "idle")'
      BY <1>3, <2>1, <2>2, <3>1, Zenon DEF OnStep
    <3> QED BY <3>3, <3>4 DEF CheckInv
  <2>3. CASE s # StartupCheck
    <3>1. ~Running(StartupCheck)
      BY <2>3 DEF Begin
    <3> QED BY <1>0, <1>4, <1>5, <2>1, <2>3, <3>1, Zenon DEF CheckInv
  <2> QED BY <2>2, <2>3
<1>10. ASSUME ~server.filesystem
       PROVE  MailInv'
  <2>0. ConnectionsInv /\ MarksInv
    BY <1>0, <1>10, Zenon DEF MailInv
  <2>1. ConnectionsInv'
    <3> SUFFICES ASSUME NEW q \in Callers
                 PROVE  /\ sending'[q].pc \in Dialled => client' \in Callers /\ ~Settled(client', sending', alone')
                        /\ sending'[q].pc = "body" =>
                               sending'[q].wc \in Callers /\ ~Settled(sending'[q].wc, sending', alone')
                        /\ sending'[q].pc # "write"
      BY DEF ConnectionsInv
    <3>1. CASE q = s
      BY <1>2, <1>3, <3>1 DEF Dialled
    <3>2. CASE q # s
      BY <1>3, <1>6, <2>0, <3>2 DEF ConnectionsInv
    <3> QED BY <3>1, <3>2, Zenon
  <2>2. MarksInv'
    BY <1>3, <1>4, <2>0 DEF MarksInv
  <2>3. ASSUME NEW q \in Callers, alone'[q]
        PROVE  /\ OwnConnection(q, sending'[q], conn'[q], client', server')
               /\ OwnMail(q, sending'[q], conn'[q], mails', smtpErrors', server')
    <3>1. /\ OwnConnection(q, sending[q], conn[q], client, server)
          /\ OwnMail(q, sending[q], conn[q], mails, smtpErrors, server)
      BY <1>0, <1>4, <1>10, <2>3, Zenon DEF MailInv
    <3>2. CASE q = s
      <4>1. OwnConnection(s, p, conn[s], client, server)
        BY <1>2, <1>3, <3>1, <3>2, Zenon DEF OwnConnection, Talking, Opening, Addressed
      <4>2. OwnMail(s, p, conn[s], mails, smtpErrors, server)
        BY <1>2, <1>3, <3>1, <3>2, NoMailYet
      <4> QED BY <1>3, <3>2, <4>1, <4>2, Zenon
    <3>3. CASE q # s
      BY <1>3, <3>1, <3>3, Zenon
    <3> QED BY <3>2, <3>3, Zenon
  <2> QED BY <2>1, <2>2, <2>3, Zenon DEF MailInv
<1>11. ASSUME server.filesystem
       PROVE  FileNotesInv'
  <2>0. /\ mails = {} /\ sending[StartupCheck].pc # "write"
        /\ \A q \in Callers : /\ sending[q].pc \in {"idle", "dial", "write", "done"}
                              /\ ~sending[q].error /\ ~conn[q].open
    BY <1>0, <1>11 DEF FileNotesInv
  <2>1. ASSUME NEW q \in Callers
        PROVE  /\ sending'[q].pc \in {"idle", "dial", "write", "done"}
               /\ ~sending'[q].error /\ ~conn'[q].open
               /\ ~(alone'[q] /\ sending'[q].pc = "write")
    BY <1>2, <1>3, <1>4, <2>0, Zenon DEF Running
  <2>2. sending'[StartupCheck].pc # "write"
    BY <1>2, <1>3, <2>0 DEF Callers
  <2>3. ~Settled(s, sending', alone')
    BY <1>6
  <2>4. mails' = {}
    BY <1>3, <2>0
  <2> QED BY <2>1, <2>2, <2>3, <2>4, Zenon DEF FileNotesInv
<1>12. MailInv' /\ FileNotesInv'
  BY <1>3, <1>10, <1>11, Zenon DEF MailInv, FileNotesInv
<1> QED BY <1>7, <1>8, <1>9, <1>12 DEF NotifierInv

\* WriteFile empties the file, ...
LEMMA TruncateNotesMoves ==
    ASSUME NotifierInv, NEW s \in Callers, TruncateNotes(s)
    PROVE  NotifierInv'
<1> DEFINE pc == IF s = StartupCheck THEN "done" ELSE "write"
<1>0. NotifierTypes /\ CheckInv /\ FileNotesInv
  BY DEF NotifierInv
<1>1. pc \in SMTPSteps /\ ToStep(s, pc)
  BY DEF SMTPSteps, TruncateNotes
<1>2. PICK p \in Sendings : /\ p.pc = pc /\ p.error = sending[s].error
                            /\ sending' = [sending EXCEPT ![s] = p]
  BY <1>1, StepTaken
<1>3. /\ sending'[s] = p /\ \A q \in Callers : q # s => sending'[q] = sending[q]
      /\ sending[s].pc = "dial" /\ Running(s) /\ server.filesystem /\ notes' = <<>>
      /\ UNCHANGED <<server, client, conn, smtpErrors, mails, alone>>
  BY <1>0, <1>2 DEF NotifierTypes, TruncateNotes, OnStep, Running
<1>4. LoneInv' /\ CheckInv'
  BY <1>2, <1>3, LoneStays, Zenon
<1>5. NotifierTypes'
  <2>1. sending' \in [Callers -> Sendings] /\ notes' \in Seq(Callers)
    BY <1>0, <1>2, <1>3 DEF NotifierTypes
  <2> QED BY <1>0, <1>3, <2>1 DEF NotifierTypes
<1>6. FileNotesInv'
  <2>0. /\ mails = {} /\ sending[StartupCheck].pc # "write"
        /\ \A q \in Callers : /\ sending[q].pc \in {"idle", "dial", "write", "done"}
                              /\ ~sending[q].error /\ ~conn[q].open
    BY <1>0, <1>3, Zenon DEF FileNotesInv
  <2>1. ASSUME NEW q \in Callers
        PROVE  /\ sending'[q].pc \in {"idle", "dial", "write", "done"}
               /\ ~sending'[q].error /\ ~conn'[q].open
    BY <1>2, <1>3, <2>0
  <2>2. sending'[StartupCheck].pc # "write"
    BY <1>2, <1>3, <2>0 DEF Callers
  <2>3. ~((\A r \in Callers : Settled(r, sending', alone')) /\ \E r \in Sends : OnStep(r, "done")')
    <3>1. CASE s = StartupCheck
      <4>1. \A r \in Sends : r # s /\ r \in Callers /\ sending[r].pc = "idle"
        BY <1>0, <1>3, <3>1, NotifierAssumption DEF CheckInv, OnStep, Callers
      <4> QED BY <1>3, <4>1 DEF OnStep
    <3>2. CASE s # StartupCheck
      <4>1. sending'[s].pc = "write"
        BY <1>2, <1>3, <3>2
      <4> QED BY <4>1 DEF Settled
    <3> QED BY <3>1, <3>2
  <2> QED BY <1>3, <2>0, <2>1, <2>2, <2>3, Zenon DEF FileNotesInv
<1>7. MailInv'
  BY <1>3, Zenon DEF MailInv
<1> QED BY <1>4, <1>5, <1>6, <1>7 DEF NotifierInv

\* ... and writes from its beginning.
LEMMA WriteNoteMoves ==
    ASSUME NotifierInv, NEW s \in Callers, WriteNote(s)
    PROVE  NotifierInv'
<1>0. NotifierTypes /\ LoneInv /\ FileNotesInv /\ MailInv
  BY DEF NotifierInv
<1>1. "done" \in SMTPSteps /\ ToStep(s, "done")
  BY DEF SMTPSteps, WriteNote
<1>2. PICK p \in Sendings : /\ p.pc = "done" /\ p.error = sending[s].error
                            /\ sending' = [sending EXCEPT ![s] = p]
  BY <1>1, StepTaken
<1>3. /\ sending'[s] = p /\ \A q \in Callers : q # s => sending'[q] = sending[q]
      /\ sending[s].pc = "write" /\ Running(s) /\ notes' \in {<<s>>, <<s>> \o notes}
      /\ UNCHANGED <<server, client, conn, smtpErrors, mails, alone>>
  BY <1>0, <1>2 DEF NotifierTypes, WriteNote, OnStep, Running, NotesAfter
<1>4. server.filesystem
  BY <1>0, <1>3, Zenon DEF MailInv, ConnectionsInv
<1>5. LoneInv' /\ CheckInv'
  BY <1>2, <1>3, LoneStays, Zenon
<1>6. NotifierTypes'
  <2>1. sending' \in [Callers -> Sendings]
    BY <1>0, <1>2 DEF NotifierTypes
  <2>2. notes' \in Seq(Callers)
    <3>1. <<s>> \in Seq(Callers) /\ notes \in Seq(Callers)
      BY <1>0 DEF NotifierTypes
    <3>2. <<s>> \o notes \in Seq(Callers)
      BY <3>1
    <3>3. notes' = <<s>> \/ notes' = <<s>> \o notes
      BY <1>3, Zenon
    <3> QED BY <3>1, <3>2, <3>3, Zenon
  <2> QED BY <1>0, <1>3, <2>1, <2>2 DEF NotifierTypes
<1>7. FileNotesInv'
  <2>0. /\ mails = {} /\ sending[StartupCheck].pc # "write"
        /\ \A q \in Callers : /\ sending[q].pc \in {"idle", "dial", "write", "done"}
                              /\ ~sending[q].error /\ ~conn[q].open
        /\ alone[s] => notes = <<>>
    BY <1>0, <1>3, <1>4, Zenon DEF FileNotesInv
  <2>1. ASSUME NEW q \in Callers
        PROVE  /\ sending'[q].pc \in {"idle", "dial", "write", "done"}
               /\ ~sending'[q].error /\ ~conn'[q].open
               /\ ~(alone'[q] /\ sending'[q].pc = "write")
    <3>1. q # s /\ sending[q].pc = "write" => ~alone[q]
      BY <1>0, <1>3, Zenon DEF LoneInv, Running
    <3> QED BY <1>2, <1>3, <2>0, <3>1, Zenon
  <2>2. sending'[StartupCheck].pc # "write"
    BY <1>2, <1>3, <2>0 DEF Callers
  <2>3. alone[s] => Len(notes') = 1
    BY <1>3, <2>0
  <2>4. mails' = {}
    BY <1>3, <2>0
  <2> QED BY <1>3, <2>1, <2>2, <2>3, <2>4, Zenon DEF FileNotesInv, Settled
<1>8. MailInv'
  BY <1>3, <1>4, Zenon DEF MailInv
<1> QED BY <1>5, <1>6, <1>7, <1>8 DEF NotifierInv

\* Every step of the notifiers keeps their invariant.
LEMMA NotifierInvNext ==
    NotifierInv /\ [SMTPNext]_smtpVars => NotifierInv'
<1> SUFFICES ASSUME NotifierInv, [SMTPNext]_smtpVars PROVE NotifierInv'
  OBVIOUS
<1>1. ASSUME NEW s \in Callers, Begin(s) \/ Send(s) \/ Fails(s) PROVE NotifierInv'
  BY <1>1, BeginMoves, dialMoves, HelloMoves, tlsStateMoves, startTLSMoves, authStateMoves,
     authMoves, MailMoves, RcptMoves, dataStateMoves, DataMoves, BodyMoves, ResetMoves,
     cleanupMoves, TruncateNotesMoves, WriteNoteMoves, FailsMoves DEF Send
<1>2. CASE UNCHANGED smtpVars
  BY <1>2, Zenon DEF smtpVars, NotifierInv, NotifierTypes, LoneInv, CheckInv, MailInv, FileNotesInv,
     ConnectionsInv, MarksInv, Running, OnStep
<1> QED BY <1>1, <1>2 DEF SMTPNext

\* Whatever calls overlap, a Send that none does delivers its body once, to its
\* recipient alone, and closes its connection.
THEOREM LoneSendsDeliver == SMTPSpec => []LoneSendDelivers
<1>1. NotifierInv => LoneSendDelivers
  <2> SUFFICES ASSUME NotifierInv, NEW s \in Sends, alone[s], OnStep(s, "done")
               PROVE  LET involved == {m \in mails : s \in m.to \/ m.body = s} IN
                      /\ \A m \in involved :
                            m.to = {s} /\ m.body = s /\ (m.tls \/ server.disableRequireTLS)
                      /\ Returned(s) /\ ~server.filesystem => involved # {}
                      /\ smtpErrors = 0 => ~conn[s].open
                      /\ server.filesystem /\ (\A r \in Callers : alone[r] /\ ~Running(r)) =>
                            Len(notes) = 1
    BY Zenon DEF LoneSendDelivers
  <2>1. s \in Callers /\ s # StartupCheck /\ sending[s].pc = "done" /\ smtpErrors \in Nat
    BY NotifierAssumption DEF Callers, OnStep, NotifierInv, NotifierTypes
  <2>2. CASE ~server.filesystem
    <3>1. OwnMail(s, sending[s], conn[s], mails, smtpErrors, server)
      BY <2>1, <2>2, Zenon DEF NotifierInv, MailInv
    <3>2. /\ \A m \in Involved(s, mails) : m.to = {s} /\ m.body = s /\ (m.tls \/ server.disableRequireTLS)
          /\ Returned(s) => \E m \in mails : m.body = s
          /\ ~conn[s].open \/ smtpErrors > 0
      BY <2>1, <3>1, Zenon DEF OwnMail, Returned
    <3>3. smtpErrors = 0 => ~conn[s].open
      BY <2>1, <3>2
    <3>4. Returned(s) => Involved(s, mails) # {}
      BY <3>2, Zenon DEF Involved
    <3> QED BY <2>2, <3>2, <3>3, <3>4, Zenon DEF Involved
  <2>3. CASE server.filesystem
    <3>1. mails = {} /\ ~conn[s].open
      BY <2>1, <2>3, Zenon DEF NotifierInv, FileNotesInv
    <3>2. (\A r \in Callers : alone[r] /\ ~Running(r)) => \A r \in Callers : Settled(r, sending, alone)
      BY DEF Running, Settled
    <3>3. (\A r \in Callers : alone[r] /\ ~Running(r)) => Len(notes) = 1
      BY <2>3, <3>2 DEF NotifierInv, FileNotesInv
    <3> QED BY <2>3, <3>1, <3>3
  <2> QED BY <2>2, <2>3
<1> QED BY <1>1, NotifierInvInit, NotifierInvNext, PTL DEF SMTPSpec

\* A startup check that succeeds vouches for every lone Send, until a command
\* fails.
THEOREM StartupChecksPredict == SMTPSpec => []StartupCheckPredicts
<1>1. NotifierInv => StartupCheckPredicts
  <2> SUFFICES ASSUME NotifierInv, smtpErrors = 0, Returned(StartupCheck),
                      NEW s \in Sends, alone[s], OnStep(s, "done")
               PROVE  ~sending[s].error
    BY DEF StartupCheckPredicts
  <2>1. /\ s \in Callers /\ sending[s].pc = "done"
        /\ StartupCheck \in Callers /\ sending[StartupCheck].pc = "done"
        /\ alone[StartupCheck] /\ ~sending[StartupCheck].error
    BY DEF Callers, OnStep, Returned, NotifierInv, CheckInv
  <2>2. CASE ~server.filesystem
    <3>1. /\ OwnMail(s, sending[s], conn[s], mails, smtpErrors, server)
          /\ OwnMail(StartupCheck, sending[StartupCheck], conn[StartupCheck], mails, smtpErrors, server)
      BY <2>1, <2>2, Zenon DEF NotifierInv, MailInv
    <3> QED BY <2>1, <3>1, Zenon DEF OwnMail
  <2>3. CASE server.filesystem
    BY <2>1, <2>3 DEF NotifierInv, FileNotesInv
  <2> QED BY <2>2, <2>3
<1> QED BY <1>1, NotifierInvInit, NotifierInvNext, PTL DEF SMTPSpec
=============================================================================
