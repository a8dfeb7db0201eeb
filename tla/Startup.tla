------------------------------ MODULE Startup ------------------------------
(***************************************************************************)
(* How servers start (cmd/authelia/main.go) and bring the schema of the    *)
(* database they share up to date (internal/storage/upgrades.go).          *)
(*                                                                         *)
(* Every error on the way ends the process; a supervisor starts it again.  *)
(* The database is one of the three the code supports.  They differ in     *)
(* what a CREATE TABLE inside a transaction is: MySQL commits it at once,  *)
(* PostgreSQL makes it wait for a transaction that creates the same table, *)
(* SQLite refuses it while another transaction has written.                *)
(***************************************************************************)
EXTENDS Integers, Sequences

CONSTANTS
    Nodes,          \* servers
    Tables,         \* the tables of version 1, in the order of their names
    ConfigTable,    \* the one that holds the version
    LogsTable,      \* the one with an index
    Drivers,        \* the databases considered
    OldSchemas,     \* what tables a database of version 0 may have
    NoTx,           \* no transaction
    MaxFailures     \* bound: how many calls fail and processes are killed

AllTables == {Tables[i] : i \in DOMAIN Tables}
CurrentVersion == 1

ASSUME StartupAssumption ==
    /\ {ConfigTable, LogsTable} \subseteq AllTables
    /\ Drivers \subseteq {"mysql", "postgres", "sqlite"}
    /\ \A s \in OldSchemas : s \subseteq AllTables
    /\ MaxFailures \in Nat

VARIABLES
    driver,     \* the database of this deployment
    backend,    \* its authentication backend
    notifier,   \* its notifier; "unchecked": disable_startup_check
    schema,     \* what is committed: tables, the index on the logs, version
    pc,         \* pc[n]: the next step of n
    config,     \* config[n]: the configuration file of n
    users,      \* users[n]: n's users file exists
    seen,       \* seen[n]: the tables getSchemaBasicDetails found
    todo,       \* todo[n]: the tables that upgradeCreateTableStatements creates
    tx,         \* tx[n]: what n's transaction has written
    failures

deployment == <<driver, backend, notifier>>
files == <<config, users>>
vars == <<deployment, schema, pc, files, seen, todo, tx, failures>>

Schemas ==
    [tables : SUBSET AllTables, index : BOOLEAN, version : 0..CurrentVersion]

\* ended: MySQL has ended the transaction at a CREATE TABLE, and commits each
\* of the statements that follow.
Transactions ==
    [tables : SUBSET AllTables, index : BOOLEAN, version : 0..CurrentVersion,
     ended : BOOLEAN]

\* A transaction that has not written anything.
Begun == [tables |-> {}, index |-> FALSE, version |-> 0, ended |-> FALSE]

Steps == {"down", "read", "certificates", "logger", "tables", "version",
          "create", "finalize", "commit", "users", "notifier", "sessions",
          "oidc", "listen", "serving"}

TypeOK ==
    /\ driver \in Drivers
    /\ backend \in {"file", "ldap"}
    /\ notifier \in {"smtp", "filesystem", "unchecked"}
    /\ schema \in Schemas
    /\ pc \in [Nodes -> Steps]
    /\ config \in [Nodes -> {"absent", "template", "edited"}]
    /\ users \in [Nodes -> BOOLEAN]
    /\ seen \in [Nodes -> SUBSET AllTables]
    /\ todo \in [Nodes -> SUBSET AllTables]
    /\ tx \in [Nodes -> Transactions \cup {NoTx}]
    /\ failures \in 0..MaxFailures

Init ==
    /\ driver \in Drivers
    /\ backend \in {"file", "ldap"}
    /\ notifier \in {"smtp", "filesystem", "unchecked"}
    /\ \E old \in OldSchemas :
          schema = [tables |-> old, index |-> FALSE, version |-> 0]
    /\ pc = [n \in Nodes |-> "down"]
    /\ config \in [Nodes -> {"absent", "edited"}]
    /\ users \in [Nodes -> BOOLEAN]
    /\ seen = [n \in Nodes |-> {}]
    /\ todo = [n \in Nodes |-> {}]
    /\ tx = [n \in Nodes |-> NoTx]
    /\ failures = 0

-----------------------------------------------------------------------------
(***************************************************************************)
(* The process.                                                            *)
(***************************************************************************)

GoTo(n, step) == pc' = [pc EXCEPT ![n] = step]

\* The process ends; the database rolls its transaction back.
Exit(n) ==
    /\ GoTo(n, "down")
    /\ seen' = [seen EXCEPT ![n] = {}]
    /\ todo' = [todo EXCEPT ![n] = {}]
    /\ tx' = [tx EXCEPT ![n] = NoTx]

\* The supervisor starts the process.
Start(n) ==
    /\ pc[n] = "down"
    /\ GoTo(n, "read")
    /\ UNCHANGED <<deployment, schema, files, seen, todo, tx, failures>>

\* The administrator adapts the configuration file.
Edit(n) ==
    /\ pc[n] = "down"
    /\ config[n] # "edited"
    /\ config' = [config EXCEPT ![n] = "edited"]
    /\ UNCHANGED <<deployment, schema, pc, users, seen, todo, tx, failures>>

\* configuration.Read generates a file from the template where there is none,
\* and the process ends.
Generate(n) ==
    /\ pc[n] = "read"
    /\ config[n] = "absent"
    /\ config' = [config EXCEPT ![n] = "template"]
    /\ Exit(n)
    /\ UNCHANGED <<deployment, schema, users, failures>>

Read(n) ==
    /\ pc[n] = "read"
    /\ config[n] # "absent"
    /\ GoTo(n, "certificates")
    /\ UNCHANGED <<deployment, schema, files, seen, todo, tx, failures>>

NewX509CertPool(n) ==
    /\ pc[n] = "certificates"
    /\ GoTo(n, "logger")
    /\ UNCHANGED <<deployment, schema, files, seen, todo, tx, failures>>

InitializeLogger(n) ==
    /\ pc[n] = "logger"
    /\ GoTo(n, "tables")
    /\ UNCHANGED <<deployment, schema, files, seen, todo, tx, failures>>

-----------------------------------------------------------------------------
(***************************************************************************)
(* The storage provider: initialize, upgrade.                              *)
(***************************************************************************)

\* The database of the template is not there.
OpenTemplate(n) ==
    /\ pc[n] = "tables"
    /\ config[n] = "template"
    /\ Exit(n)
    /\ UNCHANGED <<deployment, schema, files, failures>>

\* getSchemaBasicDetails first asks for the tables ...
GetExistingTables(n) ==
    /\ pc[n] = "tables"
    /\ config[n] = "edited"
    /\ seen' = [seen EXCEPT ![n] = schema.tables]
    /\ GoTo(n, "version")
    /\ UNCHANGED <<deployment, schema, files, todo, tx, failures>>

\* Mutant: tables that exist are created too.
MissingAll(n) == AllTables

\* The tables upgradeCreateTableStatements creates.
Missing(n) == AllTables \ seen[n]

\* ... and, if there is a table for it, for the version.  An older version
\* begins a transaction.
GetVersion(n) ==
    LET version == IF ConfigTable \in seen[n] THEN schema.version ELSE 0 IN
    /\ pc[n] = "version"
    /\ IF version < CurrentVersion
       THEN /\ tx' = [tx EXCEPT ![n] = Begun]
            /\ todo' = [todo EXCEPT ![n] = Missing(n)]
            /\ GoTo(n, "create")
       ELSE /\ GoTo(n, "users")
            /\ UNCHANGED <<tx, todo>>
    /\ seen' = [seen EXCEPT ![n] = {}]
    /\ UNCHANGED <<deployment, schema, files, failures>>

Others(n) == {m \in Nodes \ {n} : tx[m] # NoTx}

\* What a transaction has locked: SQLite the whole file once it has written,
\* the other databases the table it creates, the index or the row it writes.
Holds(m, object) ==
    \/ driver = "sqlite" /\ tx[m] # Begun
    \/ object = "index" /\ tx[m].index
    \/ object = "version" /\ tx[m].version # 0
    \/ object \in tx[m].tables

\* Another transaction holds what this one is about to write.
Locked(n, object) == \E m \in Others(n) : Holds(m, object)

\* Mutant: the error is not returned.
handleUpgradeFailureIgnored(n) ==
    /\ GoTo(n, "users")
    /\ tx' = [tx EXCEPT ![n] = NoTx]
    /\ todo' = [todo EXCEPT ![n] = {}]
    /\ UNCHANGED <<deployment, schema, files, seen, failures>>

\* The statement returns an error: the transaction is rolled back
\* (handleUpgradeFailure) and the process ends (NewSQLiteProvider ...).
handleUpgradeFailure(n) ==
    /\ Exit(n)
    /\ UNCHANGED <<deployment, schema, files, failures>>

\* SQLite: the database is locked by a transaction that has written.
Busy(n) ==
    /\ driver = "sqlite"
    /\ Locked(n, "database")
    /\ pc[n] \in {"create", "finalize"}
    /\ handleUpgradeFailure(n)

Before(t, u) == \E i, j \in DOMAIN Tables : i < j /\ Tables[i] = t /\ Tables[j] = u

\* The table whose turn it is: the statements are executed by name.
First(n) == {t \in todo[n] : \A u \in todo[n] \ {t} : Before(t, u)}

\* The table was created since GetExistingTables.
TableExists(n) ==
    /\ pc[n] = "create"
    /\ First(n) \cap schema.tables # {}
    /\ handleUpgradeFailure(n)

\* Mutant: the statement is executed outside of the transaction.
WriteTableNow(n, t) ==
    /\ schema' = [schema EXCEPT !.tables = @ \cup {t},
                                !.index = @ \/ (driver = "mysql" /\ t = LogsTable)]
    /\ tx' = [tx EXCEPT ![n].ended = driver = "mysql"]

WriteTable(n, t) ==
    IF driver = "mysql"
    THEN /\ schema' = [schema EXCEPT !.tables = @ \cup {t},
                                     !.index = @ \/ t = LogsTable]
         /\ tx' = [tx EXCEPT ![n].ended = TRUE]
    ELSE /\ tx' = [tx EXCEPT ![n].tables = @ \cup {t}]
         /\ UNCHANGED schema

\* CREATE TABLE; PostgreSQL waits for a transaction that creates it as well.
CreateTable(n) ==
    /\ pc[n] = "create"
    /\ \E t \in First(n) \ schema.tables :
          /\ ~Locked(n, t)
          /\ WriteTable(n, t)
          /\ todo' = [todo EXCEPT ![n] = @ \ {t}]
    /\ UNCHANGED <<deployment, pc, files, seen, failures>>

\* Mutant: a missing table does not keep the version from being written.
CreatedAny(n) == pc[n] = "create" /\ todo[n] \subseteq First(n)

\* All statements of upgradeCreateTableStatements were executed.
Created(n) == pc[n] = "create" /\ todo[n] = {}

\* CREATE INDEX IF NOT EXISTS, which MySQL does not have: there the index is
\* part of the table of the logs.
CreateIndex(n) ==
    /\ Created(n)
    /\ IF driver = "mysql" THEN UNCHANGED tx
       ELSE /\ ~Locked(n, "index")
            /\ tx' = [tx EXCEPT ![n].index = TRUE]
    /\ todo' = [todo EXCEPT ![n] = {}]
    /\ GoTo(n, "finalize")
    /\ UNCHANGED <<deployment, schema, files, seen, failures>>

\* The version is written; PostgreSQL waits for the row.
upgradeFinalize(n) ==
    /\ pc[n] = "finalize"
    /\ ~Locked(n, "version")
    /\ IF tx[n].ended
       THEN /\ schema' = [schema EXCEPT !.version = CurrentVersion]
            /\ UNCHANGED tx
       ELSE /\ tx' = [tx EXCEPT ![n].version = CurrentVersion]
            /\ UNCHANGED schema
    /\ GoTo(n, "commit")
    /\ UNCHANGED <<deployment, files, seen, todo, failures>>

\* What a commit of w makes of the schema.
Committed(w) ==
    [tables  |-> schema.tables \cup w.tables,
     index   |-> schema.index \/ w.index,
     version |-> IF w.version # 0 THEN w.version ELSE schema.version]

Commit(n) ==
    /\ pc[n] = "commit"
    /\ schema' = Committed(tx[n])
    /\ tx' = [tx EXCEPT ![n] = NoTx]
    /\ GoTo(n, "users")
    /\ UNCHANGED <<deployment, files, seen, todo, failures>>

\* The commit is done but its answer is lost.
CommitFails(n) ==
    /\ pc[n] = "commit"
    /\ failures < MaxFailures
    /\ failures' = failures + 1
    /\ schema' = Committed(tx[n])
    /\ Exit(n)
    /\ UNCHANGED <<deployment, files>>

-----------------------------------------------------------------------------
(***************************************************************************)
(* The other providers, and the server.                                    *)
(***************************************************************************)

\* NewFileUserProvider generates a users file where there is none, and the
\* process ends.
checkDatabase(n) ==
    /\ pc[n] = "users"
    /\ backend = "file"
    /\ ~users[n]
    /\ users' = [users EXCEPT ![n] = TRUE]
    /\ Exit(n)
    /\ UNCHANGED <<deployment, schema, config, failures>>

readDatabase(n) ==
    /\ pc[n] = "users"
    /\ backend = "file"
    /\ users[n]
    /\ GoTo(n, "notifier")
    /\ UNCHANGED <<deployment, schema, files, seen, todo, tx, failures>>

\* The LDAP server lets Authelia bind and answers a search.
checkServer(n) ==
    /\ pc[n] = "users"
    /\ backend = "ldap"
    /\ GoTo(n, "notifier")
    /\ UNCHANGED <<deployment, schema, files, seen, todo, tx, failures>>

SkipStartupCheck(n) ==
    /\ pc[n] = "notifier"
    /\ notifier = "unchecked"
    /\ GoTo(n, "sessions")
    /\ UNCHANGED <<deployment, schema, files, seen, todo, tx, failures>>

\* The SMTP server accepts everything up to the recipient.
StartupCheckSMTP(n) ==
    /\ pc[n] = "notifier"
    /\ notifier = "smtp"
    /\ GoTo(n, "sessions")
    /\ UNCHANGED <<deployment, schema, files, seen, todo, tx, failures>>

\* The file of the notifications can be written.
StartupCheckFile(n) ==
    /\ pc[n] = "notifier"
    /\ notifier = "filesystem"
    /\ GoTo(n, "sessions")
    /\ UNCHANGED <<deployment, schema, files, seen, todo, tx, failures>>

NewProvider(n) ==
    /\ pc[n] = "sessions"
    /\ GoTo(n, "oidc")
    /\ UNCHANGED <<deployment, schema, files, seen, todo, tx, failures>>

NewOpenIDConnectProvider(n) ==
    /\ pc[n] = "oidc"
    /\ GoTo(n, "listen")
    /\ UNCHANGED <<deployment, schema, files, seen, todo, tx, failures>>

StartServer(n) ==
    /\ pc[n] = "listen"
    /\ GoTo(n, "serving")
    /\ UNCHANGED <<deployment, schema, files, seen, todo, tx, failures>>

\* A call fails (a file, a query, a server that does not answer, an address in
\* use), which ends the process, or the process is killed.
Fail(n) ==
    /\ pc[n] # "down"
    /\ failures < MaxFailures
    /\ failures' = failures + 1
    /\ Exit(n)
    /\ UNCHANGED <<deployment, schema, files>>

Upgrade(n) ==
    \/ GetExistingTables(n) \/ GetVersion(n)
    \/ Busy(n) \/ TableExists(n) \/ CreateTable(n) \/ CreateIndex(n)
    \/ upgradeFinalize(n) \/ Commit(n)

startServer(n) ==
    \/ Generate(n) \/ Read(n)
    \/ NewX509CertPool(n) \/ InitializeLogger(n)
    \/ OpenTemplate(n) \/ Upgrade(n)
    \/ checkDatabase(n) \/ readDatabase(n) \/ checkServer(n)
    \/ SkipStartupCheck(n) \/ StartupCheckSMTP(n) \/ StartupCheckFile(n)
    \/ NewProvider(n) \/ NewOpenIDConnectProvider(n)
    \/ StartServer(n)

Next == \E n \in Nodes : Start(n) \/ Edit(n) \/ startServer(n) \/ CommitFails(n) \/ Fail(n)

Spec == Init /\ [][Next]_vars

\* A process runs on, the supervisor restarts it, and the administrator finds
\* the generated file sooner or later, between two starts.
FairSpec ==
    /\ Spec
    /\ \A n \in Nodes : WF_vars(startServer(n)) /\ WF_vars(Start(n)) /\ SF_vars(Edit(n))

-----------------------------------------------------------------------------
(***************************************************************************)
(* Properties.                                                             *)
(***************************************************************************)

Complete ==
    /\ schema.tables = AllTables
    /\ schema.version = CurrentVersion
    /\ driver # "mysql" => schema.index

\* A database that says it has the current version has all its tables, and the
\* index: a later start trusts the version and creates nothing (upgrade).
VersionIsComplete == schema.version = CurrentVersion => Complete

\* A server that handles requests has a complete schema, although another one
\* may have been upgrading the same database while it started.
ServesCompleteSchema ==
    \A n \in Nodes :
        pc[n] \in {"users", "notifier", "sessions", "oidc", "listen", "serving"} =>
            Complete

\* With transactional statements an upgrade that fails half way, or whose
\* process is killed, leaves the old schema (handleUpgradeFailure).
UpgradeIsAtomic ==
    driver # "mysql" =>
        \/ schema.version = 0 /\ schema.tables \in OldSchemas /\ ~schema.index
        \/ Complete

\* Every server comes to serve: neither an upgrade that was interrupted (MySQL
\* keeps the tables it created) nor one that another server is running keeps
\* it from starting for ever.
EveryServerServes == \A n \in Nodes : <>[](pc[n] = "serving")
=============================================================================
