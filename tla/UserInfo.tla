------------------------------ MODULE UserInfo ------------------------------
(***************************************************************************)
(* The user's information and preference                                   *)
(* (internal/handlers/handler_user_info.go and the three tables it reads,  *)
(* internal/storage/sql_provider.go).                                      *)
(*                                                                         *)
(* loadInfo starts three goroutines.  Each loads one row and, on failure,  *)
(* appends to one slice that nothing protects: the append reads the slice, *)
(* and stores it with one more element.  Rows change under other requests. *)
(***************************************************************************)
EXTENDS Naturals, FiniteSets

CONSTANTS
    InfoUsers,          \* the users, and the requests, that the handlers serve
    InfoRequests,
    PossibleMethods,
    FirstMethod,        \* authentication.PossibleMethods[0]
    UnknownMethod,      \* any other text a client may send
    NoRow,
    Row,                \* a secret or a device handle
    MaxLoadFailures     \* bound: statements of the database that fail

ASSUME InfoAssumption ==
    /\ FirstMethod \in PossibleMethods
    /\ NoRow \notin {Row} \cup PossibleMethods
    /\ MaxLoadFailures \in Nat

InfoTables == {"method", "u2f", "totp"}
Contents(t) == {NoRow} \cup IF t = "method" THEN PossibleMethods ELSE {Row}

VARIABLES
    table,          \* table[t][u]: the row of user u
    info,           \* info[r]: the request r
    goroutine,      \* goroutine[r][t]: the load of t for r
    loadFailures,
    rowsSeen,           \* history: rowsSeen[r][t], the rows t had for r's user since r began
    failed          \* history: failed[r], a load of r has failed

infoVars == <<table, info, goroutine, loadFailures, rowsSeen, failed>>

Values == BOOLEAN \cup PossibleMethods

\* errors: the length of the slice.
InfoTypeOK ==
    /\ \A t \in InfoTables : table[t] \in [InfoUsers -> Contents(t)]
    /\ info \in [InfoRequests -> [pc : {"idle", "loading", "posted", "ok", "error"},
                                  user : InfoUsers, errors : 0..Cardinality(InfoTables),
                                  reply : [InfoTables -> Values]]]
    /\ goroutine \in [InfoRequests -> [InfoTables ->
            [pc : {"load", "append", "store", "done"}, errors : 0..Cardinality(InfoTables)]]]
    /\ loadFailures \in 0..MaxLoadFailures
    /\ \A r \in InfoRequests, t \in InfoTables : rowsSeen[r][t] \subseteq Contents(t)
    /\ failed \in [InfoRequests -> BOOLEAN]

Done == [pc |-> "done", errors |-> 0]

InfoInit ==
    /\ table \in [InfoTables -> [InfoUsers -> {NoRow}]]
    /\ info \in [InfoRequests -> {[pc |-> "idle", user |-> u, errors |-> 0,
                                   reply |-> [t \in InfoTables |-> FALSE]] : u \in InfoUsers}]
    /\ goroutine = [r \in InfoRequests |-> [t \in InfoTables |-> Done]]
    /\ loadFailures = 0
    /\ rowsSeen = [r \in InfoRequests |-> [t \in InfoTables |-> {}]]
    /\ failed = [r \in InfoRequests |-> FALSE]

\* UserInfoGet and the beginning of loadInfo.
UserInfoGet(r) ==
    /\ info[r].pc = "idle"
    /\ info' = [info EXCEPT ![r].pc = "loading"]
    /\ goroutine' = [goroutine EXCEPT ![r] = [t \in InfoTables |-> [pc |-> "load", errors |-> 0]]]
    /\ rowsSeen' = [rowsSeen EXCEPT ![r] = [t \in InfoTables |-> {table[t][info[r].user]}]]
    /\ UNCHANGED <<table, loadFailures, failed>>

\* What a load makes of a row, the absence of one included.
Loaded(t, row) ==
    IF t = "method" THEN IF row = NoRow THEN FirstMethod ELSE row
                    ELSE row # NoRow

Load(r, t) ==
    /\ goroutine[r][t].pc = "load"
    /\ info' = [info EXCEPT ![r].reply[t] = Loaded(t, table[t][info[r].user])]
    /\ goroutine' = [goroutine EXCEPT ![r][t] = Done]
    /\ UNCHANGED <<table, loadFailures, rowsSeen, failed>>

LoadInfoFails(r, t) ==
    /\ goroutine[r][t].pc = "load"
    /\ loadFailures < MaxLoadFailures
    /\ loadFailures' = loadFailures + 1
    /\ goroutine' = [goroutine EXCEPT ![r][t].pc = "append"]
    /\ failed' = [failed EXCEPT ![r] = TRUE]
    /\ UNCHANGED <<table, info, rowsSeen>>

\* append reads the slice ...
AppendReads(r, t) ==
    /\ goroutine[r][t].pc = "append"
    /\ goroutine' = [goroutine EXCEPT ![r][t] = [pc |-> "store", errors |-> info[r].errors]]
    /\ UNCHANGED <<table, info, loadFailures, rowsSeen, failed>>

\* Mutant: the element is stored beyond the end of the slice.
WithOneErrorLost(n) == n

WithOneError(n) == n + 1

\* ... and the assignment stores it with one more element.
AppendStores(r, t) ==
    /\ goroutine[r][t].pc = "store"
    /\ info' = [info EXCEPT ![r].errors = WithOneError(goroutine[r][t].errors)]
    /\ goroutine' = [goroutine EXCEPT ![r][t] = Done]
    /\ UNCHANGED <<table, loadFailures, rowsSeen, failed>>

\* wg.Wait and the reply.
Wait(r) ==
    /\ info[r].pc = "loading"
    /\ \A t \in InfoTables : goroutine[r][t].pc = "done"
    /\ info' = [info EXCEPT ![r].pc = IF info[r].errors > 0 THEN "error" ELSE "ok"]
    /\ UNCHANGED <<table, goroutine, loadFailures, rowsSeen, failed>>

\* A statement that writes a row; other requests may be loading it.
Upsert(t, u, row) ==
    /\ table' = [table EXCEPT ![t][u] = row]
    /\ rowsSeen' = [r \in InfoRequests |->
                   IF info[r].pc = "loading" /\ info[r].user = u
                   THEN [rowsSeen[r] EXCEPT ![t] = @ \cup {row}] ELSE rowsSeen[r]]

\* The method is saved, or refused as unknown, or the statement fails.
MethodPreferencePost(r, m) ==
    /\ info[r].pc = "idle"
    /\ \/ /\ m \in PossibleMethods
          /\ Upsert("method", info[r].user, m)
          /\ info' = [info EXCEPT ![r].pc = "posted"]
          /\ UNCHANGED loadFailures
       \/ /\ m \notin PossibleMethods
          /\ info' = [info EXCEPT ![r].pc = "error"]
          /\ UNCHANGED <<table, rowsSeen, loadFailures>>
       \/ /\ m \in PossibleMethods
          /\ loadFailures < MaxLoadFailures
          /\ loadFailures' = loadFailures + 1
          /\ info' = [info EXCEPT ![r].pc = "error"]
          /\ UNCHANGED <<table, rowsSeen>>
    /\ UNCHANGED <<goroutine, failed>>

ReplyOK(r) ==
    /\ info[r].pc = "posted"
    /\ info' = [info EXCEPT ![r].pc = "ok"]
    /\ UNCHANGED <<table, goroutine, loadFailures, rowsSeen, failed>>

\* SaveTOTPSecret and SaveU2FDeviceHandle, in other handlers.
Register(t, u) ==
    /\ t # "method"
    /\ table[t][u] = NoRow
    /\ Upsert(t, u, Row)
    /\ UNCHANGED <<info, goroutine, loadFailures, failed>>

InfoNext ==
    \/ \E r \in InfoRequests :
          \/ UserInfoGet(r) \/ Wait(r) \/ ReplyOK(r)
          \/ \E m \in PossibleMethods \cup {UnknownMethod} : MethodPreferencePost(r, m)
          \/ \E t \in InfoTables : Load(r, t) \/ LoadInfoFails(r, t) \/ AppendReads(r, t) \/ AppendStores(r, t)
    \/ \E t \in InfoTables, u \in InfoUsers : Register(t, u)

InfoSpec == InfoInit /\ [][InfoNext]_infoVars

-----------------------------------------------------------------------------
(***************************************************************************)
(* Properties.                                                             *)
(***************************************************************************)

Replied(r) == info[r].pc = "ok" /\ \A t \in InfoTables : rowsSeen[r][t] # {}

\* An answer tells the truth (UserInfoGet, MethodPreferencePost).  No load of it
\* has failed: appends to the slice may overwrite one another, but its length is
\* not 0 after a failure, which is therefore never answered as a row that is
\* absent.  And each part of it was the user's at some time during the request:
\* the chosen method, or the first one while none was chosen, and whether a TOTP
\* secret and a device are registered.
InfoWasTrue ==
    \A r \in InfoRequests : Replied(r) =>
        /\ ~failed[r]
        /\ \E m \in rowsSeen[r]["method"] :
              info[r].reply["method"] = IF m = NoRow THEN FirstMethod ELSE m
        /\ \A t \in {"u2f", "totp"} :
              info[r].reply[t] \in {row = Row : row \in rowsSeen[r][t]}
=============================================================================
