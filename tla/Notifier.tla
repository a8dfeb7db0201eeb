------------------------------ MODULE Notifier ------------------------------
(***************************************************************************)
(* The notifiers: SMTP (internal/notification/smtp_notifier.go,            *)
(* smtp_login_auth.go) and a file (file_notifier.go).                      *)
(*                                                                         *)
(* Requests that mail a link call Send concurrently.  The connection of a  *)
(* Send lies in n.client, one field for all of them, and is read again for *)
(* every command; so a Send that begins while another one runs takes over  *)
(* its commands.  The client is that of net/smtp, whose Auth refuses a     *)
(* plain connection itself, and which ends a message that is being written *)
(* when another command is sent on the same connection.                    *)
(***************************************************************************)
EXTENDS Naturals, Sequences

CONSTANTS
    Sends,          \* calls of Send, each with a recipient and a body of its own
    StartupCheck,   \* the call that startServer makes instead
    NoClient,
    MaxCommandErrors    \* bound: commands that fail

Callers == Sends \cup {StartupCheck}

ASSUME NotifierAssumption ==
    /\ StartupCheck \notin Sends
    /\ NoClient \notin Callers
    /\ MaxCommandErrors \in Nat

VARIABLES
    server,         \* the configuration and what the server offers
    client,         \* n.client: the connection dialled last
    conn,           \* conn[s]: the connection that s dialled
    sending,        \* sending[s]: how far s is
    smtpErrors,
    mails,          \* what the server has accepted
    notes,          \* the file of the file notifier: what was written, foremost
                    \* last, and what sticks out behind it of an earlier note
    alone           \* history: no other call has run at the same time as s

smtpVars == <<server, client, conn, sending, smtpErrors, mails, notes, alone>>

\* smtps: port 465; local: the host is localhost.
Servers ==
    [filesystem : BOOLEAN, smtps : BOOLEAN, starttls : BOOLEAN, auth : BOOLEAN, password : BOOLEAN,
     disableRequireTLS : BOOLEAN, local : BOOLEAN]

SMTPSteps ==
    {"idle", "dial", "hello", "tlsState", "starttls", "authState", "auth", "mail",
     "rcpt", "dataState", "data", "body", "reset", "quit", "write", "done"}

\* hello: EHLO was sent; auth: the password was; data: whose message is being
\* written, after DATA and before the final dot.
Conns ==
    [open : BOOLEAN, tls : BOOLEAN, hello : BOOLEAN, auth : BOOLEAN,
     from : BOOLEAN, rcpts : SUBSET Callers, data : Callers \cup {NoClient}]

Closed ==
    [open |-> FALSE, tls |-> FALSE, hello |-> FALSE, auth |-> FALSE,
     from |-> FALSE, rcpts |-> {}, data |-> NoClient]

\* wc: the connection whose WriteCloser compose has.
Sendings ==
    [pc : SMTPSteps, wc : Callers \cup {NoClient}, error : BOOLEAN]

\* body NoClient: a message that was cut.
Mails == [to : SUBSET Callers, body : Callers \cup {NoClient}, tls : BOOLEAN]

SMTPTypeOK ==
    /\ server \in Servers
    /\ client \in Callers \cup {NoClient}
    /\ conn \in [Callers -> Conns]
    /\ sending \in [Callers -> Sendings]
    /\ smtpErrors \in 0..MaxCommandErrors
    /\ mails \subseteq Mails
    /\ notes \in Seq(Callers)
    /\ alone \in [Callers -> BOOLEAN]

SMTPInit ==
    /\ server \in Servers
    /\ server.smtps => ~server.starttls     \* only offered on plain connections
    /\ server.filesystem =>
          server = [f \in DOMAIN server |-> f = "filesystem"]
    /\ client = NoClient
    /\ conn = [s \in Callers |-> Closed]
    /\ sending = [s \in Callers |-> [pc |-> "idle", wc |-> NoClient, error |-> FALSE]]
    /\ smtpErrors = 0
    /\ mails = {}
    /\ notes = <<>>
    /\ alone = [s \in Callers |-> TRUE]

-----------------------------------------------------------------------------
(***************************************************************************)
(* Steps of a call.                                                        *)
(***************************************************************************)

Running(s) == sending[s].pc \notin {"idle", "done"}

OnStep(s, pc) == sending[s].pc = pc

ToStep(s, pc) == sending' = [sending EXCEPT ![s].pc = pc]

\* The error is returned, and the deferred cleanup runs.
Err(s) == sending' = [sending EXCEPT ![s].pc = "quit", ![s].error = TRUE]

Begin(s) ==
    /\ OnStep(s, "idle")
    /\ IF s = StartupCheck THEN \A r \in Sends : OnStep(r, "idle")
                           ELSE ~Running(StartupCheck)
    /\ ToStep(s, "dial")
    /\ alone' = [r \in Callers |->
                    alone[r] /\ IF r = s THEN \A q \in Callers : ~Running(q)
                                         ELSE ~Running(r)]
    /\ UNCHANGED <<server, client, conn, smtpErrors, mails, notes>>

\* n.client = client.
dial(s) ==
    /\ OnStep(s, "dial")
    /\ ~server.filesystem
    /\ client' = s
    /\ conn' = [conn EXCEPT ![s] = [Closed EXCEPT !.open = TRUE, !.tls = server.smtps]]
    /\ ToStep(s, "hello")
    /\ UNCHANGED <<server, smtpErrors, mails, notes, alone>>

Writing(k) == k.data # NoClient

\* Before a command, net/smtp ends a message somebody is writing, and says
\* EHLO if nobody has.
Ready(k) ==
    IF Writing(k) THEN [k EXCEPT !.data = NoClient, !.from = FALSE, !.rcpts = {}]
                  ELSE [k EXCEPT !.hello = TRUE]

CutMails(k) ==
    IF Writing(k) THEN {[to |-> k.rcpts, body |-> NoClient, tls |-> k.tls]} ELSE {}

\* A command on n.client makes k of its connection.
Command(k) ==
    /\ conn' = [conn EXCEPT ![client] = k]
    /\ mails' = mails \cup CutMails(conn[client])
    /\ UNCHANGED <<server, client, smtpErrors, notes, alone>>

\* The server or the connection refuses a command.
Refuses(s) ==
    /\ Command(IF conn[client].open THEN Ready(conn[client]) ELSE conn[client])
    /\ Err(s)

\* Hello is an error after any other command on the connection.
Hello(s) ==
    /\ OnStep(s, "hello")
    /\ IF conn[client].hello THEN Err(s) /\ UNCHANGED <<server, client, conn, smtpErrors, mails, notes, alone>>
       ELSE Command(Ready(conn[client])) /\ ToStep(s, "tlsState")

\* startTLS: nothing to do on a connection that is encrypted, ...
tlsState(s) ==
    /\ OnStep(s, "tlsState")
    /\ ToStep(s, IF conn[client].tls THEN "authState" ELSE "starttls")
    /\ UNCHANGED <<server, client, conn, smtpErrors, mails, notes, alone>>

plainAllowed == server.disableRequireTLS

\* ... STARTTLS if the server has it, and otherwise an error unless the
\* configuration waives the requirement.
startTLS(s) ==
    /\ OnStep(s, "starttls")
    /\ LET k == conn[client] IN
       IF server.starttls
       THEN IF k.open /\ ~k.tls
            THEN /\ Command([Ready(k) EXCEPT !.tls = TRUE, !.from = FALSE, !.rcpts = {}])
                 /\ ToStep(s, "authState")
            ELSE Refuses(s)
       ELSE /\ conn' = [conn EXCEPT ![client].hello = TRUE]
            /\ IF plainAllowed THEN ToStep(s, "authState") ELSE Err(s)
            /\ UNCHANGED <<server, client, smtpErrors, mails, notes, alone>>

\* Mutant: the startup check does not authenticate.
authStateSends(s) ==
    /\ OnStep(s, "authState")
    /\ IF server.password /\ ~conn[client].tls THEN Err(s)
       ELSE ToStep(s, IF server.password /\ s # StartupCheck THEN "auth" ELSE "mail")
    /\ UNCHANGED <<server, client, conn, smtpErrors, mails, notes, alone>>

\* auth: only with a password, and only on an encrypted connection.
authState(s) ==
    /\ OnStep(s, "authState")
    /\ IF server.password /\ ~conn[client].tls THEN Err(s)
       ELSE ToStep(s, IF server.password THEN "auth" ELSE "mail")
    /\ UNCHANGED <<server, client, conn, smtpErrors, mails, notes, alone>>

\* Mutant: the mechanism does not look at the connection.
StartAnyway(k) == TRUE

\* loginAuth.Start, and the Start of smtp.PlainAuth.
loginAuthStart(k) == k.tls \/ server.local

\* The mechanism that the server offers; Auth quits when Start refuses.
auth(s) ==
    /\ OnStep(s, "auth")
    /\ LET k == conn[client] IN
       CASE ~server.auth ->
                Err(s) /\ UNCHANGED <<server, client, conn, smtpErrors, mails, notes, alone>>
         [] server.auth /\ ~(k.open /\ ~k.auth) -> Refuses(s)
         [] server.auth /\ k.open /\ ~k.auth /\ loginAuthStart(k) ->
                Command([Ready(k) EXCEPT !.auth = TRUE]) /\ ToStep(s, "mail")
         [] OTHER -> Command([Ready(k) EXCEPT !.open = FALSE]) /\ Err(s)

\* A second MAIL is refused, or begins anew.
Mail(s) ==
    /\ OnStep(s, "mail")
    /\ LET k == conn[client] IN
       \/ /\ k.open
          /\ Command([Ready(k) EXCEPT !.from = TRUE, !.rcpts = {}])
          /\ ToStep(s, "rcpt")
       \/ /\ ~k.open \/ (k.from /\ ~Writing(k))
          /\ Refuses(s)

\* Mutant: the startup check has no address.
RcptNobody(s) ==
    /\ OnStep(s, "rcpt")
    /\ LET k == conn[client] IN
       IF k.open /\ k.from /\ ~Writing(k)
       THEN /\ Command([Ready(k) EXCEPT !.rcpts = @ \cup
                           {IF s = StartupCheck THEN NoClient ELSE s}])
            /\ ToStep(s, IF s = StartupCheck THEN "reset" ELSE "dataState")
       ELSE Refuses(s)

Rcpt(s) ==
    /\ OnStep(s, "rcpt")
    /\ LET k == conn[client] IN
       IF k.open /\ k.from /\ ~Writing(k)
       THEN /\ Command([Ready(k) EXCEPT !.rcpts = @ \cup {s}])
            /\ ToStep(s, IF s = StartupCheck THEN "reset" ELSE "dataState")
       ELSE Refuses(s)

\* compose: the body needs an encrypted connection.
dataState(s) ==
    /\ OnStep(s, "dataState")
    /\ IF ~server.disableRequireTLS /\ ~conn[client].tls THEN Err(s) ELSE ToStep(s, "data")
    /\ UNCHANGED <<server, client, conn, smtpErrors, mails, notes, alone>>

Data(s) ==
    /\ OnStep(s, "data")
    /\ LET k == conn[client] IN
       IF k.open /\ k.rcpts # {} /\ ~Writing(k)
       THEN /\ Command([Ready(k) EXCEPT !.data = s])
            /\ sending' = [sending EXCEPT ![s].pc = "body", ![s].wc = client]
       ELSE Refuses(s)

\* The body goes to the connection of Data, into the message that is being
\* written there; without one the server takes it for commands.
Body(s) ==
    /\ OnStep(s, "body")
    /\ LET k == conn[sending[s].wc] IN
       IF k.open /\ Writing(k)
       THEN /\ mails' = mails \cup {[to |-> k.rcpts, body |-> s, tls |-> k.tls]}
            /\ conn' = [conn EXCEPT ![sending[s].wc] =
                          [k EXCEPT !.data = NoClient, !.from = FALSE, !.rcpts = {}]]
            /\ ToStep(s, "quit")
       ELSE Err(s) /\ UNCHANGED <<mails, conn>>
    /\ UNCHANGED <<server, client, smtpErrors, notes, alone>>

Reset(s) ==
    /\ OnStep(s, "reset")
    /\ LET k == conn[client] IN
       IF k.open THEN /\ Command([Ready(k) EXCEPT !.from = FALSE, !.rcpts = {}])
                      /\ ToStep(s, "quit")
                 ELSE Refuses(s)

\* Mutant: nothing is deferred.
cleanupMissing(s) ==
    /\ OnStep(s, "quit")
    /\ ToStep(s, "done")
    /\ UNCHANGED <<server, client, conn, smtpErrors, mails, notes, alone>>

\* The deferred QUIT, on whatever n.client is by now.
cleanup(s) ==
    /\ OnStep(s, "quit")
    /\ LET k == conn[client] IN
       Command(IF k.open THEN [Ready(k) EXCEPT !.open = FALSE] ELSE k)
    /\ ToStep(s, "done")

\* A command is refused, or the connection breaks, with the message accepted
\* or not.  A dial that fails returns at once, a QUIT that fails closes nothing.
Fails(s) ==
    /\ Running(s)
    /\ ~server.filesystem
    /\ smtpErrors < MaxCommandErrors
    /\ smtpErrors' = smtpErrors + 1
    /\ sending' = [sending EXCEPT
          ![s].pc = IF @ \in {"dial", "quit"} THEN "done" ELSE "quit",
          ![s].error = @ \/ sending[s].pc # "quit"]
    /\ \/ ~OnStep(s, "body") /\ UNCHANGED <<conn, mails>>
       \/ /\ OnStep(s, "body")
          /\ LET k == conn[sending[s].wc] IN
             /\ conn' = [conn EXCEPT ![sending[s].wc] =
                           [k EXCEPT !.open = FALSE, !.data = NoClient]]
             /\ \/ UNCHANGED mails
                \/ /\ k.open /\ Writing(k)
                   /\ mails' = mails \cup {[to |-> k.rcpts, body |-> s, tls |-> k.tls]}
    /\ UNCHANGED <<server, client, notes, alone>>

-----------------------------------------------------------------------------
(***************************************************************************)
(* The file notifier: WriteFile empties the file and writes from its       *)
(* beginning.  Its StartupCheck leaves the file empty.                     *)
(***************************************************************************)

TruncateNotes(s) ==
    /\ OnStep(s, "dial")
    /\ server.filesystem
    /\ notes' = <<>>
    /\ ToStep(s, IF s = StartupCheck THEN "done" ELSE "write")
    /\ UNCHANGED <<server, client, conn, smtpErrors, mails, alone>>

\* What another Send has written meanwhile sticks out if it is longer.
NotesAfter(s) == {<<s>>, <<s>> \o notes}

WriteNote(s) ==
    /\ OnStep(s, "write")
    /\ notes' \in NotesAfter(s)
    /\ ToStep(s, "done")
    /\ UNCHANGED <<server, client, conn, smtpErrors, mails, alone>>

Send(s) ==
    \/ dial(s) \/ Hello(s) \/ tlsState(s) \/ startTLS(s) \/ authState(s)
    \/ auth(s) \/ Mail(s) \/ Rcpt(s) \/ dataState(s) \/ Data(s) \/ Body(s)
    \/ Reset(s) \/ cleanup(s)
    \/ TruncateNotes(s) \/ WriteNote(s)

SMTPNext == \E s \in Callers : Begin(s) \/ Send(s) \/ Fails(s)

SMTPSpec == SMTPInit /\ [][SMTPNext]_smtpVars

-----------------------------------------------------------------------------
(***************************************************************************)
(* Properties.                                                             *)
(***************************************************************************)

\* The password of the SMTP account is sent over encrypted connections only,
\* however calls overlap: auth looks at one connection and may use another, but
\* the mechanisms look again (loginAuth.Start).
PasswordIsEncrypted ==
    \A s \in Callers : conn[s].auth => conn[s].tls \/ server.local

Returned(s) == OnStep(s, "done") /\ ~sending[s].error

\* A Send that no other one overlapped and that returned no error has delivered
\* its body once, to its recipient alone and encrypted unless that was waived,
\* and one that failed has at most done that (Send, compose); its connection is
\* closed if every command succeeded (cleanup).  The file of the file notifier
\* has one of such notifications, whole and alone (FileNotifier.Send).
LoneSendDelivers ==
    \A s \in Sends :
        alone[s] /\ OnStep(s, "done") =>
            LET involved == {m \in mails : s \in m.to \/ m.body = s} IN
            /\ \A m \in involved :
                  m.to = {s} /\ m.body = s /\ (m.tls \/ server.disableRequireTLS)
            /\ Returned(s) /\ ~server.filesystem => involved # {}
            /\ smtpErrors = 0 => ~conn[s].open
            /\ server.filesystem /\ (\A r \in Callers : alone[r] /\ ~Running(r)) =>
                  Len(notes) = 1

\* The startup check goes the way of Send up to the recipient: if it succeeds,
\* a Send that is alone succeeds too, until a command fails.
StartupCheckPredicts ==
    smtpErrors = 0 /\ Returned(StartupCheck) =>
        \A s \in Sends : alone[s] /\ OnStep(s, "done") => ~sending[s].error

=============================================================================
