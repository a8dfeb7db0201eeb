-------------------------- MODULE LDAPUserProvider --------------------------
(***************************************************************************)
(* The users of an LDAP server (internal/authentication/                   *)
(* ldap_user_provider.go).                                                 *)
(*                                                                         *)
(* Every call dials connections of its own: one that it binds as Authelia  *)
(* to find the user, and for a check a second one that it binds as that    *)
(* user.  Answers of the server may be lost after it has done what it was  *)
(* asked for, and the administrator of the directory works at the same     *)
(* time.                                                                   *)
(***************************************************************************)
EXTENDS Naturals, FiniteSets

CONSTANTS
    Entries,            \* the users: their entries in the directory
    Passwords,
    NoPassword,         \* of a user who is not in the directory
    Calls,
    Idle,
    Authelia,           \* who Authelia binds as: configuration.User
    Nobody,             \* a connection that is not bound
    Connections,        \* as many as the server admits
    StartupConnection,  \* the one that checkServer has opened
    NoConnection,
    MaxLDAPFailures,    \* bound: calls of the server that fail
    MaxChanges          \* bound: changes by updates and the administrator

VARIABLES
    ldapStartTLS,       \* configuration.StartTLS
    directory,          \* directory[u]: the password of u
    bound,              \* bound[k]: as whom the open connection k is bound
    tls,                \* tls[k]: StartTLS was done on k
    request,            \* request[c]: the call and how far it is
    ldapFailures, changes,
    refused             \* history: open connections whose StartTLS or Bind failed

ldapVars == <<ldapStartTLS, directory, bound, tls, request, ldapFailures, changes, refused>>

Binders == Entries \cup {Authelia, Nobody}

\* The connections the server has open.
Open == DOMAIN bound

LDAPSteps ==
    {"dial", "startTLS", "bind", "search", "userDial", "userStartTLS", "userBind",
     "groups", "modify", "modified", "return"}

LDAPRequests ==
    [pc : LDAPSteps, op : {"check", "details", "update"}, user : Entries,
     password : Passwords, conn : Connections \cup {NoConnection},
     userConn : Connections \cup {NoConnection},
     outcome : {"none", "yes", "no", "ok", "error"}]

LDAPTypeOK ==
    /\ ldapStartTLS \in BOOLEAN
    /\ directory \in [Entries -> Passwords \cup {NoPassword}]
    /\ bound \in UNION {[K -> Binders] : K \in SUBSET Connections}
    /\ tls \in [Open -> BOOLEAN]
    /\ request \in [Calls -> LDAPRequests \cup {Idle}]
    /\ ldapFailures \in 0..MaxLDAPFailures
    /\ changes \in 0..MaxChanges
    /\ refused \subseteq Connections

LDAPInit ==
    /\ ldapStartTLS \in BOOLEAN
    /\ directory \in [Entries -> Passwords]
    /\ bound = [k \in {StartupConnection} |-> Authelia]
    /\ tls = [k \in {StartupConnection} |-> ldapStartTLS]
    /\ request = [c \in Calls |-> Idle]
    /\ ldapFailures = 0
    /\ changes = 0
    /\ refused = {}

-----------------------------------------------------------------------------
(***************************************************************************)
(* Connections.                                                            *)
(***************************************************************************)

Reached(c, pc) == request[c] # Idle /\ request[c].pc = pc

Close(K) ==
    /\ bound' = [k \in Open \ K |-> bound[k]]
    /\ tls' = [k \in Open \ K |-> tls[k]]

Quit(c, outcome) ==
    request' = [request EXCEPT ![c].pc = "return", ![c].outcome = outcome]

\* Which of its two connections the call is about to set up, and what it does
\* with it afterwards.
User(pc) == pc \in {"userDial", "userStartTLS", "userBind"}

Conn(c) == IF User(request[c].pc) THEN request[c].userConn ELSE request[c].conn

Advance(c, pc, userPc) ==
    request' = [request EXCEPT ![c].pc = IF User(@) THEN userPc ELSE pc]

\* connect: DialURL, which fails when the server admits no more.
Dial(c) ==
    /\ Reached(c, "dial") \/ Reached(c, "userDial")
    /\ LET free == Connections \ (Open \cup {StartupConnection})
           next == IF ldapStartTLS THEN "startTLS" ELSE "bind"
           userNext == IF ldapStartTLS THEN "userStartTLS" ELSE "userBind"
       IN IF free = {} THEN Quit(c, "error") /\ UNCHANGED <<bound, tls>>
          ELSE LET k == CHOOSE x \in free : TRUE IN
               /\ bound' = [x \in Open \cup {k} |-> IF x = k THEN Nobody ELSE bound[x]]
               /\ tls' = [x \in Open \cup {k} |-> IF x = k THEN FALSE ELSE tls[x]]
               /\ request' =
                     [request EXCEPT
                        ![c] = IF User(@.pc) THEN [@ EXCEPT !.pc = userNext, !.userConn = k]
                                             ELSE [@ EXCEPT !.pc = next, !.conn = k]]
    /\ UNCHANGED <<ldapStartTLS, directory, ldapFailures, changes, refused>>

StartTLS(c) ==
    /\ Reached(c, "startTLS") \/ Reached(c, "userStartTLS")
    /\ tls' = [tls EXCEPT ![Conn(c)] = TRUE]
    /\ Advance(c, "bind", "userBind")
    /\ UNCHANGED <<ldapStartTLS, directory, bound, ldapFailures, changes, refused>>

\* Mutant: the error of StartTLS is not looked at.
RefusedIgnoresTLS(c) ==
    IF request[c].pc \in {"startTLS", "userStartTLS"}
    THEN Advance(c, "bind", "userBind") /\ UNCHANGED refused
    ELSE /\ refused' = refused \cup {Conn(c)}
         /\ request' = [request EXCEPT
               ![c] = IF User(@.pc)
                      THEN [@ EXCEPT !.pc = "return", !.outcome = "error", !.userConn = NoConnection]
                      ELSE [@ EXCEPT !.pc = "return", !.outcome = "error", !.conn = NoConnection]]

\* connect returns the error and no connection: nobody can close it any more.
Refused(c) ==
    /\ refused' = refused \cup {Conn(c)}
    /\ request' = [request EXCEPT
          ![c] = IF User(@.pc)
                 THEN [@ EXCEPT !.pc = "return", !.outcome = "error", !.userConn = NoConnection]
                 ELSE [@ EXCEPT !.pc = "return", !.outcome = "error", !.conn = NoConnection]]

\* Bind as Authelia.
Bind(c) ==
    /\ Reached(c, "bind")
    /\ bound' = [bound EXCEPT ![Conn(c)] = Authelia]
    /\ Advance(c, "search", "search")
    /\ UNCHANGED <<ldapStartTLS, directory, tls, ldapFailures, changes, refused>>

\* Mutant: the error of the bind is not looked at.
UserBindIgnored(c) ==
    /\ Reached(c, "userBind")
    /\ bound' = [bound EXCEPT ![Conn(c)] = request[c].user]
    /\ Quit(c, "yes")
    /\ UNCHANGED <<ldapStartTLS, directory, tls, ldapFailures, changes, refused>>

\* Bind as the user: the check of the password.
UserBind(c) ==
    /\ Reached(c, "userBind")
    /\ IF directory[request[c].user] = request[c].password
       THEN /\ bound' = [bound EXCEPT ![Conn(c)] = request[c].user]
            /\ Quit(c, "yes")
            /\ UNCHANGED refused
       ELSE Refused(c) /\ UNCHANGED bound
    /\ UNCHANGED <<ldapStartTLS, directory, tls, ldapFailures, changes>>

-----------------------------------------------------------------------------
(***************************************************************************)
(* The calls.                                                              *)
(***************************************************************************)

BeginLDAP(c, op, u, p) ==
    /\ request[c] = Idle
    /\ request' = [request EXCEPT
          ![c] = [pc |-> "dial", op |-> op, user |-> u, password |-> p,
                  conn |-> NoConnection, userConn |-> NoConnection,
                  outcome |-> "none"]]
    /\ UNCHANGED <<ldapStartTLS, directory, bound, tls, ldapFailures, changes, refused>>

getUserProfile(c) ==
    /\ Reached(c, "search")
    /\ IF directory[request[c].user] = NoPassword THEN Quit(c, "error")
       ELSE request' = [request EXCEPT
               ![c].pc = CASE request[c].op = "check" -> "userDial"
                           [] request[c].op = "details" -> "groups"
                           [] OTHER -> "modify"]
    /\ UNCHANGED <<ldapStartTLS, directory, bound, tls, ldapFailures, changes, refused>>

\* GetDetails searches the groups of the user.
SearchGroups(c) ==
    /\ Reached(c, "groups")
    /\ Quit(c, "ok")
    /\ UNCHANGED <<ldapStartTLS, directory, bound, tls, ldapFailures, changes, refused>>

\* UpdatePassword: the server changes the entry, if it is still there.
Modify(c) ==
    /\ Reached(c, "modify")
    /\ IF directory[request[c].user] = NoPassword
       THEN Quit(c, "error") /\ UNCHANGED <<directory, changes>>
       ELSE /\ changes < MaxChanges
            /\ changes' = changes + 1
            /\ directory' = [directory EXCEPT ![request[c].user] = request[c].password]
            /\ request' = [request EXCEPT ![c].pc = "modified"]
    /\ UNCHANGED <<ldapStartTLS, bound, tls, ldapFailures, refused>>

Modified(c) ==
    /\ Reached(c, "modified")
    /\ Quit(c, "ok")
    /\ UNCHANGED <<ldapStartTLS, directory, bound, tls, ldapFailures, changes, refused>>

\* The server refuses, finds several users, or its answer is lost.
ServerFails(c) ==
    /\ request[c] # Idle
    /\ request[c].pc # "return"
    /\ ldapFailures < MaxLDAPFailures
    /\ ldapFailures' = ldapFailures + 1
    /\ IF request[c].pc \in {"startTLS", "userStartTLS", "bind", "userBind"}
       THEN Refused(c)
       ELSE Quit(c, "error") /\ UNCHANGED refused
    /\ UNCHANGED <<ldapStartTLS, directory, bound, tls, changes>>

\* Mutant: the connection of the user is not closed.
CloseConn(c) == Close({request[c].conn})

\* The deferred calls of Close.
CloseAll(c) == Close({request[c].conn, request[c].userConn})

ReturnLDAP(c) ==
    /\ Reached(c, "return")
    /\ CloseAll(c)
    /\ request' = [request EXCEPT ![c] = Idle]
    /\ UNCHANGED <<ldapStartTLS, directory, ldapFailures, changes, refused>>

\* The server closes a connection on which nothing has happened for long.
ServerCloses(k) ==
    /\ k \in Open \ {StartupConnection}
    /\ \A c \in Calls : request[c] # Idle => k \notin {request[c].conn, request[c].userConn}
    /\ Close({k})
    /\ refused' = refused \ {k}
    /\ UNCHANGED <<ldapStartTLS, directory, request, ldapFailures, changes>>

AdministratorChanges(u, p) ==
    /\ changes < MaxChanges
    /\ directory[u] # p
    /\ changes' = changes + 1
    /\ directory' = [directory EXCEPT ![u] = p]
    /\ UNCHANGED <<ldapStartTLS, bound, tls, request, ldapFailures, refused>>

LDAPStep(c) ==
    \/ Dial(c) \/ StartTLS(c) \/ Bind(c) \/ UserBind(c)
    \/ getUserProfile(c) \/ SearchGroups(c) \/ Modify(c) \/ Modified(c)
    \/ ReturnLDAP(c)

LDAPNext ==
    \/ \E c \in Calls :
          \/ \E op \in {"check", "update"}, u \in Entries, p \in Passwords :
                BeginLDAP(c, op, u, p)
          \/ \E u \in Entries : BeginLDAP(c, "details", u, CHOOSE p \in Passwords : TRUE)
          \/ LDAPStep(c)
          \/ ServerFails(c)
    \/ \E k \in Connections : ServerCloses(k)
    \/ \E u \in Entries, p \in Passwords \cup {NoPassword} : AdministratorChanges(u, p)

LDAPSpec == LDAPInit /\ [][LDAPNext]_ldapVars

-----------------------------------------------------------------------------
(***************************************************************************)
(* Properties.                                                             *)
(***************************************************************************)

LDAPResult(k) ==
    CASE k.pc = "return" -> k.outcome
      [] k.pc = "modified" -> "changed"
      [] OTHER -> "pending"

\* The call of the directory that a request is.
Abstract(k) ==
    IF k = Idle THEN Idle
    ELSE [op |-> k.op, user |-> k.user, password |-> k.password, result |-> LDAPResult(k)]

AbstractCall == [c \in Calls |-> Abstract(request[c])]

LDAPDirectory ==
    INSTANCE UserDirectory WITH
        Users    <- Entries,
        password <- directory,
        durable  <- directory,
        call     <- AbstractCall

\* What tells a free call from one that runs.
IdleIsNoCall == Idle \notin LDAPRequests /\ Idle \notin LDAPDirectory!DirCalls

\* Closing no connection closes none.
NoConnectionIsNone == NoConnection \notin Connections \cup {StartupConnection}

\* The provider is a UserDirectory: although a check finds the user on one
\* connection and binds on another, and the directory changes in between, a
\* password is accepted only while it is the user's; UpdatePassword returns no
\* error only when the server has changed the entry.
LDAPImplementsDirectory == LDAPDirectory!DirSpec

\* A connection that no call holds is one whose StartTLS or Bind failed, or the
\* one of checkServer: calls close the connections they have bound, on every
\* way out.  (connect itself does not close a connection it gives up.)
BoundConnectionsAreHeld ==
    \A k \in Open \ (refused \cup {StartupConnection}) :
        \E c \in Calls :
            request[c] # Idle /\ k \in {request[c].conn, request[c].userConn}

\* With start_tls no password is sent before the connection is encrypted,
\* neither Authelia's nor the user's (connect).
PasswordsOverTLS ==
    ldapStartTLS =>
        /\ \A k \in Open : bound[k] # Nobody => tls[k]
        /\ \A c \in Calls :
              Reached(c, "bind") \/ Reached(c, "userBind") => tls[Conn(c)]
=============================================================================
