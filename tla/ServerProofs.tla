---------------------------- MODULE ServerProofs ----------------------------
(***************************************************************************)
(* Proofs about what the server does when it starts, on each of the three  *)
(* databases and for any servers, tables, old schemas and number of        *)
(* failures; and about the LDAP directory that it then calls, for any      *)
(* calls, users, passwords and number of failures.                         *)
(***************************************************************************)
EXTENDS Startup, LDAPUserProvider, TLAPS

-----------------------------------------------------------------------------
(***************************************************************************)
(* The inductive invariant.                                                *)
(***************************************************************************)

\* The steps of an upgrade that has a transaction.
Upgrading == {"create", "finalize", "commit"}

\* The steps that upgrade comes before.
Upgraded == {"users", "notifier", "sessions", "oidc", "listen", "serving"}

\* The tables that were seen are still there.
SeenExist == \A n \in Nodes : pc[n] = "version" => seen[n] \subseteq schema.tables

\* An upgrade has forgotten no table: each is still to be created, written by
\* its transaction, or there.  MySQL alone ends transactions, and writes nothing
\* into them.
NothingForgotten ==
    \A n \in Nodes :
        pc[n] \in Upgrading =>
            /\ tx[n] \in Transactions
            /\ AllTables \subseteq todo[n] \cup tx[n].tables \cup schema.tables
            /\ driver = "mysql" => tx[n].tables = {}
            /\ driver # "mysql" => ~tx[n].ended

\* What an upgrade has done before it writes the version, and before it commits.
StepsDone ==
    \A n \in Nodes :
        /\ pc[n] \in {"finalize", "commit"} =>
              todo[n] = {} /\ (driver # "mysql" => tx[n].index)
        /\ pc[n] = "commit" =>
              IF tx[n].ended THEN schema.version = CurrentVersion
                             ELSE tx[n].version = CurrentVersion

SchemaInv ==
    /\ TypeOK
    /\ SeenExist
    /\ NothingForgotten
    /\ StepsDone
    /\ VersionIsComplete
    /\ ServesCompleteSchema
    /\ UpgradeIsAtomic
-----------------------------------------------------------------------------
(***************************************************************************)
(* Types.                                                                  *)
(***************************************************************************)

\* The state startServer finds is well typed.
LEMMA TypeInit == Init => TypeOK
BY StartupAssumption DEF Init, TypeOK, Schemas, Steps, CurrentVersion

\* A transaction that writes one thing more has the others as before.
LEMMA EndedTransaction ==
    ASSUME NEW w \in Transactions, NEW v, v = [w EXCEPT !.ended = TRUE]
    PROVE  v \in Transactions /\ v.tables = w.tables
BY Zenon DEF Transactions

\* CREATE INDEX adds the index.
LEMMA IndexedTransaction ==
    ASSUME NEW w \in Transactions, NEW v, v = [w EXCEPT !.index = TRUE]
    PROVE  v \in Transactions /\ v.tables = w.tables /\ v.ended = w.ended /\ v.index
BY Zenon DEF Transactions

\* upgradeFinalize adds the version.
LEMMA VersionedTransaction ==
    ASSUME NEW w \in Transactions, NEW v, v = [w EXCEPT !.version = CurrentVersion]
    PROVE  /\ v \in Transactions /\ v.tables = w.tables /\ v.ended = w.ended
           /\ v.index = w.index /\ v.version = CurrentVersion
BY DEF Transactions, CurrentVersion

\* CREATE TABLE adds a table.
LEMMA ExtendedTransaction ==
    ASSUME NEW w \in Transactions, NEW t \in AllTables,
           NEW v, v = [w EXCEPT !.tables = @ \cup {t}]
    PROVE  v \in Transactions /\ v.tables = w.tables \cup {t} /\ v.ended = w.ended
<1>1. w.tables \cup {t} \in SUBSET AllTables
  BY DEF Transactions
<1> QED BY <1>1 DEF Transactions

\* The schema s has all that the schema r has.
Grows(r, s) ==
    /\ r.tables \subseteq s.tables
    /\ r.index => s.index
    /\ r.version <= s.version

\* So does a schema.
LEMMA VersionedSchema ==
    ASSUME NEW r \in Schemas, NEW s, s = [r EXCEPT !.version = CurrentVersion]
    PROVE  /\ s \in Schemas /\ s.version = CurrentVersion
           /\ s.tables = r.tables /\ Grows(r, s)
BY DEF Schemas, CurrentVersion, Grows

\* A commit adds to the schema, and never sets the version back.
LEMMA CommittedSchema ==
    ASSUME schema \in Schemas, NEW w \in Transactions
    PROVE  Committed(w) \in Schemas /\ Grows(schema, Committed(w))
<1> DEFINE T == schema.tables \cup w.tables
           i == schema.index \/ w.index
           v == IF w.version # 0 THEN w.version ELSE schema.version
<1>1. T \in SUBSET AllTables /\ i \in BOOLEAN
  BY DEF Schemas, Transactions
<1>2. v \in 0..CurrentVersion /\ schema.version <= v
  BY DEF Schemas, Transactions, CurrentVersion
<1>3. schema.tables \subseteq T /\ (schema.index => i)
  OBVIOUS
<1>4. Committed(w) = [tables |-> T, index |-> i, version |-> v]
  BY DEF Committed
<1> HIDE DEF T, i, v
<1>5. Committed(w) \in Schemas
  BY <1>1, <1>2, <1>4 DEF Schemas
<1>6. Committed(w).tables = T /\ Committed(w).index = i /\ Committed(w).version = v
  BY <1>4
<1> QED BY <1>2, <1>3, <1>5, <1>6 DEF Grows

\* Each step keeps the types; the statements of an upgrade have a transaction to
\* write into.
LEMMA TypeStep == TypeOK /\ NothingForgotten /\ [Next]_vars => TypeOK'
<1> SUFFICES ASSUME TypeOK, NothingForgotten, [Next]_vars PROVE TypeOK'
  OBVIOUS
<1> USE DEF deployment, files, GoTo, Exit
<1>1. CASE UNCHANGED vars
  BY <1>1 DEF TypeOK, vars
<1>2. ASSUME NEW n \in Nodes, Start(n) \/ Edit(n) \/ Generate(n) \/ Read(n) \/ NewX509CertPool(n)
                              \/ InitializeLogger(n) \/ OpenTemplate(n) \/ GetExistingTables(n)
      PROVE  TypeOK'
  BY <1>2 DEF TypeOK, Steps, Start, Edit, Generate, Read, NewX509CertPool, InitializeLogger,
     OpenTemplate, GetExistingTables, Schemas
<1>3. ASSUME NEW n \in Nodes, GetVersion(n) PROVE TypeOK'
  <2>1. Begun \in Transactions /\ Missing(n) \in SUBSET AllTables
    BY DEF Begun, Transactions, CurrentVersion, Missing
  <2> QED BY <1>3, <2>1 DEF TypeOK, Steps, GetVersion
<1>4. ASSUME NEW n \in Nodes, Busy(n) \/ TableExists(n) \/ Fail(n) PROVE TypeOK'
  BY <1>4, StartupAssumption DEF TypeOK, Steps, Busy, TableExists, Fail,
     handleUpgradeFailure
<1>5. ASSUME NEW n \in Nodes, CreateTable(n) PROVE TypeOK'
  <2>1. PICK t \in First(n) \ schema.tables :
           WriteTable(n, t) /\ todo' = [todo EXCEPT ![n] = @ \ {t}]
    BY <1>5, Zenon DEF CreateTable
  <2>2. t \in AllTables /\ tx[n] \in Transactions
    BY <1>5 DEF First, TypeOK, CreateTable, NothingForgotten, Upgrading
  <2>3. schema' \in Schemas
    <3> DEFINE T == schema.tables \cup {t}
               i == schema.index \/ t = LogsTable
    <3>1. T \in SUBSET AllTables /\ i \in BOOLEAN
      BY <2>2 DEF TypeOK, Schemas
    <3>2. schema' = [schema EXCEPT !.tables = T, !.index = i] \/ schema' = schema
      BY <2>1 DEF WriteTable
    <3> HIDE DEF i, T
    <3> QED BY <3>1, <3>2, Zenon DEF TypeOK, Schemas
  <2>4. tx' \in [Nodes -> Transactions \cup {NoTx}]
    <3>1. \E w \in Transactions : tx' = [tx EXCEPT ![n] = w]
      BY <2>1, <2>2, EndedTransaction, ExtendedTransaction DEF WriteTable
    <3> QED BY <3>1 DEF TypeOK
  <2>5. todo' \in [Nodes -> SUBSET AllTables]
    BY <2>1 DEF TypeOK
  <2> QED BY <1>5, <2>3, <2>4, <2>5 DEF TypeOK, CreateTable
<1>6. ASSUME NEW n \in Nodes, CreateIndex(n) PROVE TypeOK'
  <2>1. tx[n] \in Transactions
    BY <1>6 DEF CreateIndex, Created, NothingForgotten, Upgrading
  <2>2. \E w \in Transactions : tx' = [tx EXCEPT ![n] = w] \/ tx' = tx
    BY <1>6, <2>1, IndexedTransaction DEF CreateIndex
  <2> QED BY <1>6, <2>2 DEF TypeOK, Steps, CreateIndex
<1>7. ASSUME NEW n \in Nodes, upgradeFinalize(n) PROVE TypeOK'
  <2>1. tx[n] \in Transactions
    BY <1>7 DEF upgradeFinalize, NothingForgotten, Upgrading
  <2>2. \E w \in Transactions : tx' = [tx EXCEPT ![n] = w] \/ tx' = tx
    BY <1>7, <2>1, VersionedTransaction DEF upgradeFinalize
  <2>3. tx' \in [Nodes -> Transactions \cup {NoTx}]
    BY <2>2 DEF TypeOK
  <2>4. schema' \in Schemas
    BY <1>7, VersionedSchema DEF TypeOK, upgradeFinalize
  <2> QED BY <1>7, <2>3, <2>4, Zenon DEF TypeOK, Steps, upgradeFinalize
<1>8. ASSUME NEW n \in Nodes, Commit(n) \/ CommitFails(n) PROVE TypeOK'
  <2>1. tx[n] \in Transactions
    BY <1>8, Zenon DEF Commit, CommitFails, NothingForgotten, Upgrading
  <2>2. schema' \in Schemas
    BY <1>8, <2>1, CommittedSchema DEF TypeOK, Commit, CommitFails
  <2> QED BY <1>8, <2>2, StartupAssumption DEF TypeOK, Steps, Commit, CommitFails
<1>9. ASSUME NEW n \in Nodes,
             \/ checkDatabase(n) \/ readDatabase(n) \/ checkServer(n)
             \/ SkipStartupCheck(n) \/ StartupCheckSMTP(n) \/ StartupCheckFile(n)
             \/ NewProvider(n) \/ NewOpenIDConnectProvider(n) \/ StartServer(n)
      PROVE  TypeOK'
  BY <1>9, Zenon DEF TypeOK, Steps, checkDatabase, readDatabase, checkServer,
     SkipStartupCheck,
     StartupCheckSMTP, StartupCheckFile, NewProvider, NewOpenIDConnectProvider, StartServer
<1> QED
  BY <1>1, <1>2, <1>3, <1>4, <1>5, <1>6, <1>7, <1>8, <1>9 DEF Next, startServer, Upgrade

-----------------------------------------------------------------------------
(***************************************************************************)
(* The schema.                                                             *)
(***************************************************************************)

\* A complete schema that grows is complete.
LEMMA CompleteStays ==
    ASSUME TypeOK, TypeOK', Grows(schema, schema'), UNCHANGED driver, Complete
    PROVE  Complete'
BY Zenon DEF TypeOK, Grows, Complete, Schemas, CurrentVersion

\* What a step must show when it changes nothing but what server n does: the
\* rest of the invariant is about the other servers and a schema that grows.
LEMMA OneServerMoves ==
    ASSUME SchemaInv, TypeOK', NEW n \in Nodes, UNCHANGED driver,
           Grows(schema, schema'),
           \A m \in Nodes \ {n} : /\ pc'[m] = pc[m] /\ seen'[m] = seen[m]
                                  /\ todo'[m] = todo[m] /\ tx'[m] = tx[m],
           pc'[n] = "version" => seen'[n] \subseteq schema'.tables,
           pc'[n] \in Upgrading =>
              /\ tx'[n] \in Transactions
              /\ AllTables \subseteq todo'[n] \cup tx'[n].tables \cup schema'.tables
              /\ driver = "mysql" => tx'[n].tables = {}
              /\ driver # "mysql" => ~tx'[n].ended,
           pc'[n] \in {"finalize", "commit"} =>
              todo'[n] = {} /\ (driver # "mysql" => tx'[n].index),
           pc'[n] = "commit" =>
              IF tx'[n].ended THEN schema'.version = CurrentVersion
                              ELSE tx'[n].version = CurrentVersion,
           pc'[n] \in Upgraded => Complete',
           UNCHANGED schema \/ Complete' \/ (driver = "mysql" /\ VersionIsComplete')
    PROVE  SchemaInv'
<1>1. SeenExist'
  BY DEF SchemaInv, SeenExist, Grows
<1>2. NothingForgotten'
  BY DEF SchemaInv, NothingForgotten, Grows
<1>3. StepsDone'
  <2>1. schema.version = CurrentVersion => schema'.version = CurrentVersion
    BY DEF SchemaInv, TypeOK, Schemas, Grows, CurrentVersion
  <2> QED BY <2>1 DEF SchemaInv, StepsDone
<1>4. Complete => Complete'
  BY CompleteStays, Zenon DEF SchemaInv
<1>5. ServesCompleteSchema'
  BY <1>4, Zenon DEF SchemaInv, ServesCompleteSchema, Upgraded
<1>6. UNCHANGED schema => (Complete' <=> Complete)
  BY DEF Complete
<1>7. VersionIsComplete'
  BY <1>6 DEF SchemaInv, VersionIsComplete
<1>8. UpgradeIsAtomic'
  BY <1>6, Zenon DEF SchemaInv, UpgradeIsAtomic
<1> QED BY <1>1, <1>2, <1>3, <1>5, <1>7, <1>8 DEF SchemaInv

\* No server is up, and the schema is an old one.
LEMMA SchemaInit == Init => SchemaInv
<1> SUFFICES ASSUME Init PROVE SchemaInv
  OBVIOUS
<1>1. TypeOK
  BY TypeInit
<1>2. SeenExist /\ NothingForgotten /\ StepsDone /\ ServesCompleteSchema
  BY DEF Init, SeenExist, NothingForgotten, StepsDone, ServesCompleteSchema, Upgrading
<1>3. VersionIsComplete /\ UpgradeIsAtomic
  BY DEF Init, VersionIsComplete, UpgradeIsAtomic, CurrentVersion
<1> QED BY <1>1, <1>2, <1>3 DEF SchemaInv

\* A step on the way to the upgrade or from it.
LEMMA ProcessMoves ==
    ASSUME SchemaInv, TypeOK', NEW n \in Nodes, NEW step \in Steps, GoTo(n, step),
           step \notin Upgrading \cup {"version"},
           step \in Upgraded => pc[n] \in Upgraded,
           UNCHANGED <<driver, schema, seen, todo, tx>>
    PROVE  SchemaInv'
<1>1. pc' = [pc EXCEPT ![n] = step] /\ pc \in [Nodes -> Steps]
  BY DEF GoTo, SchemaInv, TypeOK
<1>2. pc'[n] = step /\ \A m \in Nodes \ {n} : pc'[m] = pc[m]
  BY <1>1
<1>3. Grows(schema, schema')
  BY DEF Grows, SchemaInv, TypeOK, Schemas
<1>4. step \in Upgraded => Complete'
  BY DEF SchemaInv, ServesCompleteSchema, Upgraded, Complete
<1>5. step # "commit" /\ step \notin {"finalize", "commit"}
  BY DEF Upgrading
<1> QED BY <1>2, <1>3, <1>4, <1>5, OneServerMoves

\* The process ends.
LEMMA ProcessExits ==
    ASSUME SchemaInv, TypeOK', NEW n \in Nodes, Exit(n), UNCHANGED driver,
           Grows(schema, schema'), UNCHANGED schema \/ Complete'
    PROVE  SchemaInv'
<1>1. /\ pc'[n] = "down"
      /\ \A m \in Nodes \ {n} : /\ pc'[m] = pc[m] /\ seen'[m] = seen[m]
                                /\ todo'[m] = todo[m] /\ tx'[m] = tx[m]
  BY DEF Exit, GoTo, SchemaInv, TypeOK
<1> QED BY <1>1, OneServerMoves DEF Upgrading, Upgraded

\* A schema that is not touched.
LEMMA SameSchema ==
    ASSUME SchemaInv, UNCHANGED schema
    PROVE  Grows(schema, schema')
BY DEF Grows, SchemaInv, TypeOK, Schemas

\* getSchemaBasicDetails: what was seen is there.
LEMMA TablesRead ==
    ASSUME SchemaInv, TypeOK', NEW n \in Nodes, GetExistingTables(n)
    PROVE  SchemaInv'
<1>1. /\ pc'[n] = "version" /\ seen'[n] = schema.tables
      /\ \A m \in Nodes \ {n} : pc'[m] = pc[m] /\ seen'[m] = seen[m]
      /\ UNCHANGED <<driver, schema, todo, tx>>
  BY DEF GetExistingTables, GoTo, SchemaInv, TypeOK, deployment
<1> QED BY <1>1, SameSchema, OneServerMoves DEF Upgrading, Upgraded

\* upgrade: a database of the current version is complete; for an older one all
\* that was not seen is to be created.
LEMMA VersionRead ==
    ASSUME SchemaInv, TypeOK', NEW n \in Nodes, GetVersion(n)
    PROVE  SchemaInv'
<1>1. /\ pc[n] = "version" /\ seen[n] \subseteq schema.tables
      /\ UNCHANGED <<driver, schema>>
  BY DEF GetVersion, SchemaInv, SeenExist, deployment
<1>2. CASE pc' = [pc EXCEPT ![n] = "users"] /\ UNCHANGED <<tx, todo>> /\ schema.version = CurrentVersion
  <2>1. Complete'
    BY <1>1, <1>2 DEF SchemaInv, VersionIsComplete, Complete
  <2>2. /\ pc'[n] = "users"
        /\ \A m \in Nodes \ {n} : /\ pc'[m] = pc[m] /\ seen'[m] = seen[m]
                                  /\ todo'[m] = todo[m] /\ tx'[m] = tx[m]
    BY <1>2 DEF GetVersion, SchemaInv, TypeOK
  <2> QED BY <1>1, <2>1, <2>2, SameSchema, OneServerMoves DEF Upgrading
<1>3. CASE /\ tx' = [tx EXCEPT ![n] = Begun]
           /\ todo' = [todo EXCEPT ![n] = Missing(n)]
           /\ pc' = [pc EXCEPT ![n] = "create"]
  <2>1. /\ pc'[n] = "create" /\ tx'[n] = Begun /\ todo'[n] = AllTables \ seen[n]
        /\ \A m \in Nodes \ {n} : /\ pc'[m] = pc[m] /\ seen'[m] = seen[m]
                                  /\ todo'[m] = todo[m] /\ tx'[m] = tx[m]
    BY <1>3 DEF GetVersion, SchemaInv, TypeOK, Missing
  <2>2. Begun \in Transactions /\ Begun.tables = {} /\ ~Begun.ended
    BY DEF Begun, Transactions, CurrentVersion
  <2>3. AllTables \subseteq todo'[n] \cup tx'[n].tables \cup schema'.tables
    BY <1>1, <2>1
  <2> QED BY <1>1, <2>1, <2>2, <2>3, SameSchema, OneServerMoves DEF Upgraded
<1>4. schema.version \in 0..1
  BY DEF SchemaInv, TypeOK, Schemas, CurrentVersion
<1> QED BY <1>2, <1>3, <1>4 DEF GetVersion, GoTo, CurrentVersion

\* A table leaves what is to be done for the transaction or for the schema.
LEMMA TableCreated ==
    ASSUME SchemaInv, TypeOK', NEW n \in Nodes, CreateTable(n)
    PROVE  SchemaInv'
<1>1. PICK t \in First(n) \ schema.tables :
         WriteTable(n, t) /\ todo' = [todo EXCEPT ![n] = @ \ {t}]
  BY Zenon DEF CreateTable
<1>2. /\ pc[n] = "create" /\ UNCHANGED <<driver, pc, seen>>
      /\ tx[n] \in Transactions /\ t \in AllTables
      /\ AllTables \subseteq todo[n] \cup tx[n].tables \cup schema.tables
      /\ driver = "mysql" => tx[n].tables = {}
      /\ driver # "mysql" => ~tx[n].ended
  BY DEF CreateTable, deployment, SchemaInv, TypeOK, NothingForgotten, Upgrading, First
<1>3. todo'[n] = todo[n] \ {t} /\ \A m \in Nodes \ {n} : todo'[m] = todo[m]
  BY <1>1 DEF SchemaInv, TypeOK
<1>4. CASE driver = "mysql"
  <2>1. /\ schema'.tables = schema.tables \cup {t}
        /\ schema'.version = schema.version
        /\ Grows(schema, schema')
    <3> DEFINE T == schema.tables \cup {t}
               i == schema.index \/ t = LogsTable
    <3>1. schema.tables \subseteq T /\ (schema.index => i)
      OBVIOUS
    <3>2. schema' = [schema EXCEPT !.tables = T, !.index = i] /\ schema \in Schemas
      BY <1>1, <1>4 DEF WriteTable, SchemaInv, TypeOK
    <3> HIDE DEF i, T
    <3>3. schema'.version = schema.version /\ schema'.tables = T
      BY <3>2 DEF Schemas
    <3>4. schema'.index = i
      BY <3>2 DEF Schemas
    <3>5. schema.version <= schema'.version
      BY <3>2, <3>3 DEF Schemas, CurrentVersion
    <3> QED BY <3>1, <3>3, <3>4, <3>5 DEF T, Grows
  <2>2. tx'[n] = [tx[n] EXCEPT !.ended = TRUE] /\ \A m \in Nodes \ {n} : tx'[m] = tx[m]
    BY <1>1, <1>4 DEF WriteTable, SchemaInv, TypeOK
  <2>3. tx'[n] \in Transactions /\ tx'[n].tables = tx[n].tables
    BY <1>2, <2>2, EndedTransaction
  <2>4. Grows(schema, schema')
    BY <2>1
  <2>5. VersionIsComplete'
    <3>1. schema'.version = CurrentVersion => Complete
      BY <2>1 DEF SchemaInv, VersionIsComplete
    <3>2. Complete => Complete'
      BY <1>2, <2>4, CompleteStays DEF SchemaInv
    <3> QED BY <3>1, <3>2, Zenon DEF VersionIsComplete
  <2>6. AllTables \subseteq todo'[n] \cup tx'[n].tables \cup schema'.tables
    BY <1>2, <1>3, <2>1, <2>3
  <2> QED
    BY <1>2, <1>3, <1>4, <2>2, <2>3, <2>4, <2>5, <2>6, OneServerMoves, Zenon DEF Upgraded
<1>5. CASE driver # "mysql"
  <2>1. /\ tx'[n] = [tx[n] EXCEPT !.tables = @ \cup {t}]
        /\ \A m \in Nodes \ {n} : tx'[m] = tx[m]
        /\ UNCHANGED schema
    BY <1>1, <1>5 DEF WriteTable, SchemaInv, TypeOK
  <2>2. tx'[n] \in Transactions /\ tx'[n].tables = tx[n].tables \cup {t} /\ tx'[n].ended = tx[n].ended
    BY <1>2, <2>1, ExtendedTransaction
  <2>3. AllTables \subseteq todo'[n] \cup tx'[n].tables \cup schema'.tables
    BY <1>2, <1>3, <2>1, <2>2
  <2> QED
    BY <1>2, <1>3, <1>5, <2>1, <2>2, <2>3, SameSchema, OneServerMoves, Zenon DEF Upgraded
<1> QED BY <1>4, <1>5

\* All tables are there or written; other databases than MySQL get the index.
LEMMA IndexCreated ==
    ASSUME SchemaInv, TypeOK', NEW n \in Nodes, CreateIndex(n)
    PROVE  SchemaInv'
<1>1. /\ pc[n] = "create" /\ todo[n] = {} /\ UNCHANGED <<driver, schema, seen>>
      /\ tx[n] \in Transactions
      /\ AllTables \subseteq todo[n] \cup tx[n].tables \cup schema.tables
      /\ driver = "mysql" => tx[n].tables = {}
      /\ driver # "mysql" => ~tx[n].ended
  BY DEF CreateIndex, Created, deployment, SchemaInv, NothingForgotten, Upgrading
<1>2. /\ pc'[n] = "finalize" /\ todo'[n] = {}
      /\ \A m \in Nodes \ {n} : pc'[m] = pc[m] /\ todo'[m] = todo[m] /\ tx'[m] = tx[m]
      /\ tx'[n] = IF driver = "mysql" THEN tx[n] ELSE [tx[n] EXCEPT !.index = TRUE]
  BY DEF CreateIndex, GoTo, SchemaInv, TypeOK
<1>3. /\ tx'[n] \in Transactions /\ tx'[n].tables = tx[n].tables
      /\ tx'[n].ended = tx[n].ended /\ (driver # "mysql" => tx'[n].index)
  BY <1>1, <1>2, IndexedTransaction
<1> QED BY <1>1, <1>2, <1>3, SameSchema, OneServerMoves, Zenon DEF Upgraded

\* The version is written into the transaction, or by MySQL into a schema that
\* has all tables by now.
LEMMA VersionWritten ==
    ASSUME SchemaInv, TypeOK', NEW n \in Nodes, upgradeFinalize(n)
    PROVE  SchemaInv'
<1>1. /\ pc[n] = "finalize" /\ todo[n] = {} /\ UNCHANGED <<driver, seen, todo>>
      /\ tx[n] \in Transactions
      /\ AllTables \subseteq tx[n].tables \cup schema.tables
      /\ driver = "mysql" => tx[n].tables = {}
      /\ driver # "mysql" => ~tx[n].ended /\ tx[n].index
  BY DEF upgradeFinalize, deployment, SchemaInv, NothingForgotten, StepsDone, Upgrading
<1>2. pc'[n] = "commit" /\ \A m \in Nodes \ {n} : pc'[m] = pc[m]
  BY DEF upgradeFinalize, GoTo, SchemaInv, TypeOK
<1>3. CASE tx[n].ended
  <2>1. driver = "mysql" /\ UNCHANGED tx
    BY <1>1, <1>3 DEF upgradeFinalize
  <2>2. /\ schema'.tables = schema.tables /\ schema'.version = CurrentVersion
        /\ Grows(schema, schema')
    BY <1>3, VersionedSchema DEF upgradeFinalize, SchemaInv, TypeOK
  <2>3. Complete'
    BY <1>1, <2>1, <2>2, Zenon DEF Complete, SchemaInv, TypeOK, Schemas
  <2> QED BY <1>1, <1>2, <1>3, <2>1, <2>2, <2>3, OneServerMoves DEF Upgraded
<1>4. CASE ~tx[n].ended
  <2>1. /\ tx'[n] = [tx[n] EXCEPT !.version = CurrentVersion] /\ UNCHANGED schema
        /\ \A m \in Nodes \ {n} : tx'[m] = tx[m]
    BY <1>4 DEF upgradeFinalize, SchemaInv, TypeOK
  <2>2. /\ tx'[n] \in Transactions /\ tx'[n].tables = tx[n].tables /\ tx'[n].index = tx[n].index
        /\ tx'[n].ended = tx[n].ended /\ tx'[n].version = CurrentVersion
    BY <1>1, <2>1, VersionedTransaction
  <2> QED BY <1>1, <1>2, <1>4, <2>1, <2>2, SameSchema, OneServerMoves, Zenon DEF Upgraded
<1> QED BY <1>3, <1>4

\* A commit leaves a complete schema, whatever became of its answer.
LEMMA CommitCompletes ==
    ASSUME SchemaInv, NEW n \in Nodes, pc[n] = "commit",
           schema' = Committed(tx[n]), UNCHANGED driver
    PROVE  Complete' /\ Grows(schema, schema')
<1> DEFINE w == tx[n]
<1>1. /\ w \in Transactions /\ schema \in Schemas
      /\ AllTables \subseteq w.tables \cup schema.tables
      /\ driver # "mysql" => w.index /\ ~w.ended
      /\ IF w.ended THEN schema.version = CurrentVersion ELSE w.version = CurrentVersion
  BY DEF SchemaInv, TypeOK, NothingForgotten, StepsDone, Upgrading
<1>2. /\ schema'.tables = schema.tables \cup w.tables
      /\ schema'.version = IF w.version # 0 THEN w.version ELSE schema.version
      /\ w.index => schema'.index
  BY Zenon DEF Committed
<1>3. Grows(schema, schema')
  BY <1>1, CommittedSchema, Zenon
<1> HIDE DEF w
<1>4. schema'.tables = AllTables
  BY <1>1, <1>2 DEF Schemas, Transactions
<1>5. schema'.version = CurrentVersion
  BY <1>1, <1>2 DEF Schemas, Transactions, CurrentVersion
<1> QED BY <1>1, <1>2, <1>3, <1>4, <1>5, Zenon DEF Complete

\* tx.Commit: the schema is complete, and the server goes on.
LEMMA Committing ==
    ASSUME SchemaInv, TypeOK', NEW n \in Nodes, Commit(n)
    PROVE  SchemaInv'
<1>1. Complete' /\ Grows(schema, schema')
  BY CommitCompletes DEF Commit, deployment
<1>2. /\ pc'[n] = "users" /\ UNCHANGED <<driver, seen, todo>>
      /\ \A m \in Nodes \ {n} : pc'[m] = pc[m] /\ tx'[m] = tx[m]
  BY DEF Commit, GoTo, SchemaInv, TypeOK, deployment
<1> QED BY <1>1, <1>2, OneServerMoves DEF Upgrading

\* Every step of every server keeps the invariant.
LEMMA SchemaStep == SchemaInv /\ [Next]_vars => SchemaInv'
<1> SUFFICES ASSUME SchemaInv, [Next]_vars PROVE SchemaInv'
  OBVIOUS
<1>1. TypeOK'
  BY TypeStep DEF SchemaInv
<1>2. ASSUME UNCHANGED <<driver, schema, pc, seen, todo, tx>>
      PROVE  SchemaInv'
  <2>1. SeenExist' /\ NothingForgotten' /\ StepsDone'
    BY <1>2 DEF SchemaInv, SeenExist, NothingForgotten, StepsDone
  <2>2. VersionIsComplete' /\ ServesCompleteSchema' /\ UpgradeIsAtomic'
    BY <1>2 DEF SchemaInv, VersionIsComplete, ServesCompleteSchema, UpgradeIsAtomic,
       Complete
  <2> QED BY <1>1, <2>1, <2>2 DEF SchemaInv
<1>3. CASE UNCHANGED vars
  BY <1>2, <1>3 DEF vars, deployment
<1>4. CASE Next
  <2> PICK n \in Nodes : Start(n) \/ Edit(n) \/ startServer(n) \/ CommitFails(n) \/ Fail(n)
    BY <1>4 DEF Next
  <2>1. CASE Edit(n)
    BY <1>2, <2>1 DEF Edit, deployment
  <2>2. CASE \/ Start(n) \/ Read(n) \/ NewX509CertPool(n) \/ InitializeLogger(n)
    <3>1. /\ \E step \in {"read", "certificates", "logger", "tables"} : GoTo(n, step)
          /\ UNCHANGED <<driver, schema, seen, todo, tx>>
      BY <2>2, Zenon DEF Start, Read, NewX509CertPool, InitializeLogger, deployment
    <3> QED BY <1>1, <3>1, ProcessMoves DEF Steps, Upgrading, Upgraded
  <2>3. CASE \/ readDatabase(n) \/ checkServer(n)
             \/ SkipStartupCheck(n) \/ StartupCheckSMTP(n) \/ StartupCheckFile(n)
             \/ NewProvider(n) \/ NewOpenIDConnectProvider(n) \/ StartServer(n)
    <3>1. /\ pc[n] \in Upgraded
          /\ \E step \in {"notifier", "sessions", "oidc", "listen", "serving"} : GoTo(n, step)
          /\ UNCHANGED <<driver, schema, seen, todo, tx>>
      BY <2>3, Zenon DEF readDatabase, checkServer, SkipStartupCheck, StartupCheckSMTP,
                  StartupCheckFile, NewProvider, NewOpenIDConnectProvider, StartServer,
                  Upgraded, deployment
    <3> QED BY <1>1, <3>1, ProcessMoves DEF Steps, Upgrading
  <2>4. CASE Generate(n) \/ OpenTemplate(n) \/ Busy(n) \/ TableExists(n)
             \/ checkDatabase(n) \/ Fail(n)
    <3>1. Exit(n) /\ UNCHANGED <<driver, schema>>
      BY <2>4 DEF Generate, OpenTemplate, Busy, TableExists, handleUpgradeFailure,
                  checkDatabase, Fail, deployment
    <3> QED BY <1>1, <3>1, SameSchema, ProcessExits
  <2>5. CASE CommitFails(n)
    <3>1. Exit(n) /\ UNCHANGED driver /\ Complete' /\ Grows(schema, schema')
      BY <2>5, CommitCompletes, Zenon DEF CommitFails, deployment
    <3> QED BY <1>1, <3>1, ProcessExits
  <2>6. CASE Upgrade(n) /\ ~Busy(n) /\ ~TableExists(n)
    BY <1>1, <2>6, TablesRead, VersionRead, TableCreated, IndexCreated, VersionWritten,
       Committing DEF Upgrade
  <2> QED BY <2>1, <2>2, <2>3, <2>4, <2>5, <2>6 DEF startServer
<1> QED BY <1>3, <1>4

-----------------------------------------------------------------------------
(***************************************************************************)
(* The theorems.                                                           *)
(***************************************************************************)

\* The invariant, of every run of every number of servers.
LEMMA SchemaInvariant == Spec => []SchemaInv
BY SchemaInit, SchemaStep, PTL DEF Spec

\* A database that says it has the current version has all its tables, and the
\* index: whatever servers upgrade at the same time, fail or are killed, no start
\* that trusts the version (upgrade) misses a table.
THEOREM VersionMeansComplete == Spec => []VersionIsComplete
<1>1. SchemaInv => VersionIsComplete
  BY DEF SchemaInv
<1> QED BY <1>1, SchemaInvariant, PTL

\* A server that handles requests has a complete schema, although another one may
\* have been upgrading the same database while it started (startServer).
THEOREM ServersHaveSchema == Spec => []ServesCompleteSchema
<1>1. SchemaInv => ServesCompleteSchema
  BY DEF SchemaInv
<1> QED BY <1>1, SchemaInvariant, PTL

\* On PostgreSQL and SQLite the schema is the old one or the complete one, never
\* one in between (handleUpgradeFailure, Commit).
THEOREM UpgradesAreAtomic == Spec => []UpgradeIsAtomic
<1>1. SchemaInv => UpgradeIsAtomic
  BY DEF SchemaInv
<1> QED BY <1>1, SchemaInvariant, PTL


-----------------------------------------------------------------------------
(***************************************************************************)
(* The LDAP user provider implements UserDirectory: every step of a call   *)
(* is one of the directory or changes nothing there.                       *)
(***************************************************************************)

\* A request does what belongs to its operation, and knows its outcome when it
\* returns.
OnItsWay(k) ==
    /\ k.pc \in {"userDial", "userStartTLS", "userBind"} => k.op = "check"
    /\ k.pc = "groups" => k.op = "details"
    /\ k.pc \in {"modify", "modified"} => k.op = "update"
    /\ k.pc = "return" => k.outcome # "none"

CallInv ==
    /\ Entries = {} \/ Passwords # {}
    /\ directory \in [Entries -> Passwords \cup {NoPassword}]
    /\ request \in [Calls -> LDAPRequests \cup {Idle}]
    /\ \A c \in Calls : request[c] # Idle => OnItsWay(request[c])

\* A step of call c makes k of it.
StepTo(c, k) ==
    /\ request' = [request EXCEPT ![c] = k]
    /\ k = Idle \/ (k \in LDAPRequests /\ OnItsWay(k))

\* In the directory, too, only that call changes.
LEMMA AbstractStep ==
    ASSUME CallInv, NEW c \in Calls, NEW k, StepTo(c, k)
    PROVE  /\ AbstractCall' = [AbstractCall EXCEPT ![c] = Abstract(k)]
           /\ AbstractCall[c] = Abstract(request[c])
           /\ request' \in [Calls -> LDAPRequests \cup {Idle}]
           /\ \A d \in Calls : request'[d] # Idle => OnItsWay(request'[d])
<1>1. request \in [Calls -> LDAPRequests \cup {Idle}] /\ k \in LDAPRequests \cup {Idle}
  BY DEF CallInv, StepTo
<1>2. request' \in [Calls -> LDAPRequests \cup {Idle}]
  BY <1>1 DEF StepTo
<1>3. \A d \in Calls : request'[d] = IF d = c THEN k ELSE request[d]
  BY <1>1 DEF StepTo
<1>4. AbstractCall' = [d \in Calls |-> Abstract(request'[d])]
  BY DEF AbstractCall, Abstract, LDAPResult
<1>5. AbstractCall' = [AbstractCall EXCEPT ![c] = Abstract(k)]
  BY <1>3, <1>4, Zenon DEF AbstractCall
<1>6. \A d \in Calls : request'[d] # Idle => OnItsWay(request'[d])
  BY <1>3 DEF CallInv, StepTo
<1> QED BY <1>2, <1>5, <1>6 DEF AbstractCall

SameCall(k, l) == k.op = l.op /\ k.user = l.user /\ k.password = l.password

SameLinks(k, l) == k.conn = l.conn /\ k.userConn = l.userConn

\* A request that goes on changes nothing but its result there.
LEMMA ResultStep ==
    ASSUME IdleIsNoCall, CallInv, NEW c \in Calls, request[c] # Idle,
           NEW k \in LDAPRequests, StepTo(c, k), SameCall(k, request[c])
    PROVE  /\ request[c] \in LDAPRequests /\ OnItsWay(request[c])
           /\ AbstractCall' = [AbstractCall EXCEPT ![c].result = LDAPResult(k)]
           /\ AbstractCall[c] # Idle
           /\ SameCall(AbstractCall[c], request[c])
           /\ AbstractCall[c].result = LDAPResult(request[c])
           /\ LDAPResult(k) = LDAPResult(request[c]) => AbstractCall' = AbstractCall
<1> DEFINE call(l, r) == [op |-> l.op, user |-> l.user, password |-> l.password, result |-> r]
<1>1. request[c] \in LDAPRequests /\ OnItsWay(request[c])
  BY DEF CallInv
<1>2. /\ AbstractCall' = [AbstractCall EXCEPT ![c] = Abstract(k)]
      /\ AbstractCall[c] = Abstract(request[c])
  BY AbstractStep
<1>3. Abstract(k) = call(request[c], LDAPResult(k))
  BY DEF Abstract, SameCall, IdleIsNoCall
<1>4. Abstract(request[c]) = call(request[c], LDAPResult(request[c]))
  BY <1>1 DEF Abstract, IdleIsNoCall
<1>5. [Abstract(request[c]) EXCEPT !.result = LDAPResult(k)] = Abstract(k)
  BY <1>3, <1>4
<1>6. AbstractCall' = [AbstractCall EXCEPT ![c].result = LDAPResult(k)]
  BY <1>2, <1>5, Zenon
<1>7. Abstract(request[c]) # Idle
  <2>1. LDAPResult(request[c]) \in LDAPDirectory!Results \cup {"none"}
    BY <1>1 DEF LDAPResult, LDAPDirectory!Results, LDAPRequests
  <2>2. LDAPResult(request[c]) # "none"
    BY <1>1 DEF LDAPResult, OnItsWay
  <2>3. Abstract(request[c]) \in LDAPDirectory!DirCalls
    BY <1>1, <1>4, <2>1, <2>2 DEF LDAPDirectory!DirCalls, LDAPRequests
  <2> QED BY <2>3 DEF IdleIsNoCall
<1>8. LDAPResult(k) = LDAPResult(request[c]) => AbstractCall' = AbstractCall
  <2> SUFFICES ASSUME LDAPResult(k) = LDAPResult(request[c]) PROVE AbstractCall' = AbstractCall
    OBVIOUS
  <2>1. Abstract(k) = AbstractCall[c]
    BY <1>2, <1>3, <1>4, Zenon
  <2>2. AbstractCall = [d \in Calls |-> AbstractCall[d]]
    BY DEF AbstractCall
  <2> HIDE DEF call
  <2> QED BY <1>2, <2>1, <2>2, Zenon
<1>9. SameCall(Abstract(request[c]), request[c]) /\ Abstract(request[c]).result = LDAPResult(request[c])
  BY <1>4 DEF SameCall
<1>10. AbstractCall[c] # Idle /\ SameCall(AbstractCall[c], request[c])
       /\ AbstractCall[c].result = LDAPResult(request[c])
  BY <1>2, <1>7, <1>9, Zenon
<1> HIDE DEF call
<1> QED BY <1>1, <1>6, <1>8, <1>10, Zenon

\* The invariant after a step of one request.
LEMMA CallInvStep ==
    ASSUME CallInv, NEW c \in Calls, NEW k, StepTo(c, k),
           directory' \in [Entries -> Passwords \cup {NoPassword}]
    PROVE  CallInv'
BY AbstractStep DEF CallInv

\* A step that the directory does not notice.
LEMMA Unnoticed ==
    ASSUME IdleIsNoCall, CallInv, NEW c \in Calls, request[c] # Idle,
           NEW k \in LDAPRequests, StepTo(c, k), SameCall(k, request[c]),
           LDAPResult(k) = LDAPResult(request[c]), UNCHANGED directory
    PROVE  CallInv' /\ UNCHANGED LDAPDirectory!dirVars
<1>1. AbstractCall' = AbstractCall
  BY ResultStep
<1>2. CallInv'
  BY CallInvStep DEF CallInv
<1> QED BY <1>1, <1>2 DEF LDAPDirectory!dirVars

\* The error of a call, at any time before it returns.
LEMMA CallFails ==
    ASSUME IdleIsNoCall, CallInv, NEW c \in Calls, request[c] # Idle, request[c].pc # "return",
           NEW k \in LDAPRequests, StepTo(c, k), SameCall(k, request[c]),
           k.pc = "return", k.outcome = "error", UNCHANGED directory
    PROVE  CallInv' /\ LDAPDirectory!DirNext
<1>1. LDAPResult(request[c]) \in {"pending", "changed"} /\ LDAPResult(k) = "error"
  BY DEF LDAPResult
<1>2. LDAPDirectory!Fail(c)
  BY <1>1, ResultStep DEF LDAPDirectory!Fail, LDAPDirectory!SetResult
<1>3. AbstractCall[c] # Idle
  BY ResultStep
<1>4. CallInv'
  BY CallInvStep DEF CallInv
<1> QED BY <1>2, <1>3, <1>4, Zenon DEF LDAPDirectory!DirNext

\* Quit, and an error of connect: the request is about to return.
LEMMA QuitStep ==
    ASSUME CallInv, NEW c \in Calls, request[c] # Idle,
           NEW o \in {"yes", "no", "ok", "error"}, Quit(c, o)
    PROVE  \E k \in LDAPRequests :
              /\ StepTo(c, k) /\ SameCall(k, request[c]) /\ k.pc = "return" /\ k.outcome = o
              /\ SameLinks(k, request[c])
<1> DEFINE k == [request[c] EXCEPT !.pc = "return", !.outcome = o]
<1>1. request[c] \in LDAPRequests
  BY DEF CallInv
<1>2. /\ k \in LDAPRequests /\ SameCall(k, request[c]) /\ k.pc = "return" /\ k.outcome = o
      /\ SameLinks(k, request[c])
  BY <1>1, Zenon DEF LDAPRequests, LDAPSteps, SameCall, SameLinks
<1>3. request' = [request EXCEPT ![c] = k]
  BY Zenon DEF Quit
<1> HIDE DEF k
<1>4. OnItsWay(k)
  BY <1>2 DEF OnItsWay
<1> QED BY <1>2, <1>3, <1>4, Zenon DEF StepTo

GivesUp(k, l) ==
    IF User(l.pc) THEN k.conn = l.conn /\ k.userConn = NoConnection
                  ELSE k.conn = NoConnection /\ k.userConn = l.userConn

\* connect keeps no connection when it fails.
LEMMA RefusedStep ==
    ASSUME CallInv, NEW c \in Calls, request[c] # Idle, Refused(c)
    PROVE  \E k \in LDAPRequests :
              /\ StepTo(c, k) /\ SameCall(k, request[c]) /\ k.pc = "return" /\ k.outcome = "error"
              /\ GivesUp(k, request[c])
<1> DEFINE k == IF User(request[c].pc)
                THEN [request[c] EXCEPT !.pc = "return", !.outcome = "error", !.userConn = NoConnection]
                ELSE [request[c] EXCEPT !.pc = "return", !.outcome = "error", !.conn = NoConnection]
<1>1. request[c] \in LDAPRequests
  BY DEF CallInv
<1>2. /\ k \in LDAPRequests /\ SameCall(k, request[c]) /\ k.pc = "return" /\ k.outcome = "error"
      /\ GivesUp(k, request[c])
  BY <1>1, Zenon DEF LDAPRequests, LDAPSteps, SameCall, GivesUp
<1>3. request' = [request EXCEPT ![c] = k]
  BY DEF Refused
<1> HIDE DEF k
<1>4. OnItsWay(k)
  BY <1>2 DEF OnItsWay
<1> QED BY <1>2, <1>3, <1>4, Zenon DEF StepTo

\* A request goes on to a step which belongs to its operation.
LEMMA GoesOn ==
    ASSUME CallInv, NEW c \in Calls, request[c] # Idle, NEW step \in LDAPSteps \ {"return"},
           request' = [request EXCEPT ![c].pc = step], OnItsWay([request[c] EXCEPT !.pc = step])
    PROVE  \E k \in LDAPRequests :
              /\ StepTo(c, k) /\ SameCall(k, request[c]) /\ k.pc = step
              /\ SameLinks(k, request[c])
<1> DEFINE k == [request[c] EXCEPT !.pc = step]
<1>1. request[c] \in LDAPRequests
  BY DEF CallInv
<1>2. /\ k \in LDAPRequests /\ SameCall(k, request[c]) /\ k.pc = step
      /\ SameLinks(k, request[c])
  BY <1>1 DEF LDAPRequests, SameCall, SameLinks
<1>3. request' = [request EXCEPT ![c] = k] /\ OnItsWay(k)
  OBVIOUS
<1> HIDE DEF k
<1> QED BY <1>2, <1>3, Zenon DEF StepTo

\* Every step of the provider is one of the directory, or none.
StepOK == CallInv' /\ [LDAPDirectory!DirNext]_LDAPDirectory!dirVars

\* DialURL succeeds or not.
LEMMA DialOK ==
    ASSUME IdleIsNoCall, CallInv, NEW c \in Calls, Dial(c)
    PROVE  StepOK
<1>1. request[c] # Idle /\ request[c] \in LDAPRequests /\ OnItsWay(request[c])
      /\ request[c].pc \in {"dial", "userDial"} /\ UNCHANGED directory
  BY DEF Dial, Reached, CallInv
<1>2. CASE Quit(c, "error")
  BY <1>1, <1>2, QuitStep, CallFails, Zenon DEF StepOK
<1>3. CASE ~Quit(c, "error")
  <2> DEFINE free == Connections \ (Open \cup {StartupConnection})
  <2> DEFINE link == CHOOSE x \in free : TRUE
  <2> DEFINE k == IF User(request[c].pc)
                  THEN [request[c] EXCEPT
                           !.pc = IF ldapStartTLS THEN "userStartTLS" ELSE "userBind",
                           !.userConn = link]
                  ELSE [request[c] EXCEPT
                           !.pc = IF ldapStartTLS THEN "startTLS" ELSE "bind",
                           !.conn = link]
  <2>1. request' = [request EXCEPT ![c] = k] /\ link \in Connections
    BY <1>1, <1>3, Zenon DEF Dial
  <2> HIDE DEF link
  <2>2. k \in LDAPRequests /\ SameCall(k, request[c])
    BY <1>1, <2>1, Zenon DEF LDAPRequests, LDAPSteps, SameCall
  <2>3. OnItsWay(k) /\ LDAPResult(k) = "pending"
    BY <1>1 DEF OnItsWay, LDAPResult, User, LDAPRequests
  <2>4. LDAPResult(request[c]) = "pending"
    BY <1>1 DEF LDAPResult
  <2> HIDE DEF k
  <2> QED BY <1>1, <2>1, <2>2, <2>3, <2>4, Unnoticed, Zenon DEF StepTo, StepOK
<1> QED BY <1>2, <1>3

\* StartTLS and Bind as Authelia.
LEMMA ConnectOK ==
    ASSUME IdleIsNoCall, CallInv, NEW c \in Calls, StartTLS(c) \/ Bind(c)
    PROVE  StepOK
<1>1. request[c] # Idle /\ request[c] \in LDAPRequests /\ OnItsWay(request[c])
      /\ request[c].pc \in {"startTLS", "userStartTLS", "bind"} /\ UNCHANGED directory
  BY DEF StartTLS, Bind, Reached, CallInv
<1>2. PICK step \in {"bind", "userBind", "search"} :
         /\ request' = [request EXCEPT ![c].pc = step]
         /\ step = "userBind" => User(request[c].pc)
  BY <1>1 DEF StartTLS, Bind, Advance
<1>3. OnItsWay([request[c] EXCEPT !.pc = step])
  BY <1>1, <1>2 DEF OnItsWay, User, LDAPRequests
<1>4. PICK k \in LDAPRequests : StepTo(c, k) /\ SameCall(k, request[c]) /\ k.pc = step
  BY <1>1, <1>2, <1>3, GoesOn, Zenon DEF LDAPSteps
<1>5. LDAPResult(k) = "pending" /\ LDAPResult(request[c]) = "pending"
  BY <1>1, <1>4 DEF LDAPResult
<1> QED BY <1>1, <1>4, <1>5, Unnoticed DEF StepOK

\* Bind as the user: the password is accepted, or it is an error.
LEMMA UserBindOK ==
    ASSUME IdleIsNoCall, CallInv, NEW c \in Calls, UserBind(c)
    PROVE  StepOK
<1>1. request[c] # Idle /\ request[c] \in LDAPRequests /\ OnItsWay(request[c])
      /\ request[c].pc = "userBind" /\ UNCHANGED directory
  BY DEF UserBind, Reached, CallInv
<1>2. CASE directory[request[c].user] = request[c].password
  <2>1. PICK k \in LDAPRequests :
           StepTo(c, k) /\ SameCall(k, request[c]) /\ k.pc = "return" /\ k.outcome = "yes"
    BY <1>1, <1>2, QuitStep, Zenon DEF UserBind
  <2>2. LDAPResult(k) = "yes" /\ LDAPResult(request[c]) = "pending" /\ request[c].op = "check"
    BY <1>1, <2>1 DEF LDAPResult, OnItsWay
  <2>3. LDAPDirectory!Accept(c) /\ AbstractCall[c] # Idle
    BY <1>1, <1>2, <2>1, <2>2, ResultStep DEF LDAPDirectory!Accept,
       LDAPDirectory!SetResult, SameCall
  <2>4. CallInv'
    BY <1>1, <2>1, CallInvStep DEF CallInv
  <2> QED BY <2>3, <2>4 DEF StepOK, LDAPDirectory!DirNext
<1>3. CASE directory[request[c].user] # request[c].password
  BY <1>1, <1>3, RefusedStep, CallFails, Zenon DEF UserBind, StepOK
<1> QED BY <1>2, <1>3

\* The three operations of UserProvider begin.
LEMMA BeginOK ==
    ASSUME IdleIsNoCall, CallInv, NEW c \in Calls, NEW op \in {"check", "details", "update"},
           NEW u \in Entries, NEW p \in Passwords, BeginLDAP(c, op, u, p)
    PROVE  StepOK
<1> DEFINE k == [pc |-> "dial", op |-> op, user |-> u, password |-> p,
                 conn |-> NoConnection, userConn |-> NoConnection, outcome |-> "none"]
<1> DEFINE a == [op |-> op, user |-> u, password |-> p, result |-> "pending"]
<1>1. request[c] = Idle /\ request' = [request EXCEPT ![c] = k] /\ UNCHANGED directory
  BY DEF BeginLDAP
<1>2. k \in LDAPRequests /\ OnItsWay(k)
  BY DEF LDAPRequests, LDAPSteps, OnItsWay
<1>3. a \in LDAPDirectory!DirCalls /\ a.result = "pending"
  BY DEF LDAPDirectory!DirCalls, LDAPDirectory!Results
<1>4. Abstract(k) = a
  BY <1>2 DEF Abstract, LDAPResult, IdleIsNoCall
<1> HIDE DEF k, a
<1>5. StepTo(c, k)
  BY <1>1, <1>2 DEF StepTo
<1>6. AbstractCall[c] = Idle /\ AbstractCall' = [AbstractCall EXCEPT ![c] = a]
  BY <1>1, <1>4, <1>5, AbstractStep, Zenon DEF Abstract
<1>7. LDAPDirectory!Begin(c)
  BY <1>1, <1>3, <1>6, Zenon DEF LDAPDirectory!Begin
<1>8. CallInv'
  BY <1>1, <1>5, CallInvStep DEF CallInv
<1> QED BY <1>7, <1>8 DEF StepOK, LDAPDirectory!DirNext

\* The search for the user.
LEMMA SearchOK ==
    ASSUME IdleIsNoCall, CallInv, NEW c \in Calls, getUserProfile(c)
    PROVE  StepOK
<1>1. request[c] # Idle /\ request[c] \in LDAPRequests
      /\ request[c].pc = "search" /\ UNCHANGED directory
  BY DEF getUserProfile, Reached, CallInv
<1>2. CASE directory[request[c].user] = NoPassword
  BY <1>1, <1>2, QuitStep, CallFails DEF getUserProfile, StepOK
<1>3. CASE directory[request[c].user] # NoPassword
  <2> DEFINE step == CASE request[c].op = "check" -> "userDial"
                     [] request[c].op = "details" -> "groups"
                     [] OTHER -> "modify"
  <2>1. request' = [request EXCEPT ![c].pc = step]
    BY <1>3 DEF getUserProfile
  <2>2. request[c].op \in {"check", "details", "update"}
    BY <1>1 DEF LDAPRequests
  <2>3. step \in {"userDial", "groups", "modify"} /\ OnItsWay([request[c] EXCEPT !.pc = step])
    BY <1>1, <2>2 DEF OnItsWay, LDAPRequests
  <2> HIDE DEF step
  <2>4. PICK k \in LDAPRequests : StepTo(c, k) /\ SameCall(k, request[c]) /\ k.pc = step
    BY <1>1, <2>1, <2>3, GoesOn, Zenon DEF LDAPSteps
  <2>5. LDAPResult(k) = "pending" /\ LDAPResult(request[c]) = "pending"
    BY <1>1, <2>3, <2>4 DEF LDAPResult
  <2> QED BY <1>1, <2>4, <2>5, Unnoticed, Zenon DEF StepOK
<1> QED BY <1>2, <1>3

\* GetDetails has what it looked for.
LEMMA GroupsOK ==
    ASSUME IdleIsNoCall, CallInv, NEW c \in Calls, SearchGroups(c)
    PROVE  StepOK
<1>1. request[c] # Idle /\ OnItsWay(request[c])
      /\ request[c].pc = "groups" /\ UNCHANGED directory
  BY DEF SearchGroups, Reached, CallInv
<1>2. PICK k \in LDAPRequests :
         StepTo(c, k) /\ SameCall(k, request[c]) /\ k.pc = "return" /\ k.outcome = "ok"
  BY <1>1, QuitStep, Zenon DEF SearchGroups
<1>3. LDAPResult(k) = "ok" /\ LDAPResult(request[c]) = "pending" /\ request[c].op = "details"
  BY <1>1, <1>2 DEF LDAPResult, OnItsWay
<1>4. LDAPDirectory!Describe(c) /\ AbstractCall[c] # Idle
  BY <1>1, <1>2, <1>3, ResultStep DEF LDAPDirectory!Describe,
     LDAPDirectory!SetResult, SameCall
<1>5. CallInv'
  BY <1>1, <1>2, CallInvStep DEF CallInv
<1> QED BY <1>4, <1>5 DEF StepOK, LDAPDirectory!DirNext

\* UpdatePassword: the server changes the entry, and that is durable.
LEMMA ModifyOK ==
    ASSUME IdleIsNoCall, CallInv, NEW c \in Calls, Modify(c)
    PROVE  StepOK
<1>1. request[c] # Idle /\ request[c] \in LDAPRequests /\ OnItsWay(request[c]) /\ request[c].pc = "modify"
  BY DEF Modify, Reached, CallInv
<1>2. CASE directory[request[c].user] = NoPassword
  BY <1>1, <1>2, QuitStep, CallFails DEF Modify, StepOK
<1>3. CASE directory[request[c].user] # NoPassword
  <2>1. /\ request' = [request EXCEPT ![c].pc = "modified"]
        /\ directory' = [directory EXCEPT ![request[c].user] = request[c].password]
    BY <1>3 DEF Modify
  <2>2. request[c].op = "update" /\ request[c].password \in Passwords
    BY <1>1 DEF OnItsWay, LDAPRequests
  <2>3. OnItsWay([request[c] EXCEPT !.pc = "modified"])
    BY <1>1, <2>2 DEF OnItsWay, LDAPRequests
  <2>4. PICK k \in LDAPRequests : StepTo(c, k) /\ SameCall(k, request[c]) /\ k.pc = "modified"
    BY <1>1, <2>1, <2>3, GoesOn, Zenon DEF LDAPSteps
  <2>5. LDAPResult(k) = "changed" /\ LDAPResult(request[c]) = "pending"
    BY <1>1, <2>4 DEF LDAPResult
  <2>6. LDAPDirectory!Change(c) /\ AbstractCall[c] # Idle
    <3>1. /\ AbstractCall[c] # Idle
          /\ AbstractCall[c].op = "update" /\ AbstractCall[c].result = "pending"
          /\ AbstractCall[c].user = request[c].user
          /\ AbstractCall[c].password = request[c].password
          /\ AbstractCall' = [AbstractCall EXCEPT ![c].result = "changed"]
      BY <1>1, <2>2, <2>4, <2>5, ResultStep DEF SameCall
    <3> QED BY <2>1, <3>1 DEF LDAPDirectory!Change, LDAPDirectory!SetResult
  <2>7. directory' \in [Entries -> Passwords \cup {NoPassword}]
    BY <2>1, <2>2, Zenon DEF CallInv
  <2>8. CallInv'
    BY <2>4, <2>7, CallInvStep
  <2> QED BY <2>6, <2>8 DEF StepOK, LDAPDirectory!DirNext
<1> QED BY <1>2, <1>3

\* The answer to the change arrives.
LEMMA ModifiedOK ==
    ASSUME IdleIsNoCall, CallInv, NEW c \in Calls, Modified(c)
    PROVE  StepOK
<1>1. request[c] # Idle /\ OnItsWay(request[c])
      /\ request[c].pc = "modified" /\ UNCHANGED directory
  BY DEF Modified, Reached, CallInv
<1>2. PICK k \in LDAPRequests :
         StepTo(c, k) /\ SameCall(k, request[c]) /\ k.pc = "return" /\ k.outcome = "ok"
  BY <1>1, QuitStep, Zenon DEF Modified
<1>3. LDAPResult(k) = "ok" /\ LDAPResult(request[c]) = "changed" /\ request[c].op = "update"
  BY <1>1, <1>2 DEF LDAPResult, OnItsWay
<1>4. LDAPDirectory!Acknowledge(c) /\ AbstractCall[c] # Idle
  BY <1>1, <1>2, <1>3, ResultStep
     DEF LDAPDirectory!Acknowledge, LDAPDirectory!Changed, LDAPDirectory!SetResult, SameCall
<1>5. CallInv'
  BY <1>1, <1>2, CallInvStep DEF CallInv
<1> QED BY <1>4, <1>5 DEF StepOK, LDAPDirectory!DirNext

\* The server fails, before or after it has done what it was asked for.
LEMMA ServerFailsOK ==
    ASSUME IdleIsNoCall, CallInv, NEW c \in Calls, ServerFails(c)
    PROVE  StepOK
<1>1. request[c] # Idle /\ request[c].pc # "return" /\ UNCHANGED directory
  BY DEF ServerFails
<1>2. CASE Refused(c)
  BY <1>1, <1>2, RefusedStep, CallFails, Zenon DEF StepOK
<1>3. CASE Quit(c, "error")
  BY <1>1, <1>3, QuitStep, CallFails DEF StepOK
<1> QED BY <1>2, <1>3 DEF ServerFails

\* The call returns, with an outcome.
LEMMA ReturnOK ==
    ASSUME IdleIsNoCall, CallInv, NEW c \in Calls, ReturnLDAP(c)
    PROVE  StepOK
<1>1. request[c] # Idle /\ request[c] \in LDAPRequests /\ OnItsWay(request[c])
      /\ request[c].pc = "return" /\ UNCHANGED directory
  BY DEF ReturnLDAP, Reached, CallInv
<1>2. StepTo(c, Idle)
  BY DEF ReturnLDAP, StepTo
<1>3. AbstractCall' = [AbstractCall EXCEPT ![c] = Idle] /\ AbstractCall[c] = Abstract(request[c])
  BY <1>2, AbstractStep DEF Abstract
<1>4. Abstract(request[c]).result \in {"yes", "no", "ok", "error"}
  BY <1>1 DEF Abstract, LDAPResult, OnItsWay, LDAPRequests
<1>5. Abstract(request[c]) \in LDAPDirectory!DirCalls
  <2>1. Abstract(request[c]) =
          [op |-> request[c].op, user |-> request[c].user, password |-> request[c].password,
           result |-> LDAPResult(request[c])]
    BY <1>1 DEF Abstract
  <2> QED BY <1>1, <1>4, <2>1 DEF LDAPDirectory!DirCalls, LDAPDirectory!Results,
     LDAPRequests
<1>6. LDAPDirectory!Return(c) /\ AbstractCall[c] # Idle
  BY <1>1, <1>3, <1>4, <1>5 DEF LDAPDirectory!Return, IdleIsNoCall
<1>7. CallInv'
  BY <1>1, <1>2, CallInvStep DEF CallInv
<1> QED BY <1>6, <1>7 DEF StepOK, LDAPDirectory!DirNext

\* Steps of nobody's call.
LEMMA OthersOK ==
    ASSUME CallInv,
           \/ UNCHANGED ldapVars
           \/ \E k \in Connections : ServerCloses(k)
           \/ \E u \in Entries, p \in Passwords \cup {NoPassword} : AdministratorChanges(u, p)
    PROVE  StepOK
<1>1. request' = request /\ AbstractCall' = AbstractCall
  BY Zenon DEF ldapVars, ServerCloses, AdministratorChanges, AbstractCall, Abstract,
     LDAPResult
<1>2. CASE UNCHANGED directory
  BY <1>1, <1>2 DEF StepOK, CallInv, OnItsWay, LDAPDirectory!dirVars
<1>3. ASSUME NEW u \in Entries, NEW p \in Passwords \cup {NoPassword}, AdministratorChanges(u, p)
      PROVE  StepOK
  <2>1. directory' = [directory EXCEPT ![u] = p]
    BY <1>3 DEF AdministratorChanges
  <2>2. LDAPDirectory!Administer
    BY <1>1, <2>1, Zenon DEF LDAPDirectory!Administer
  <2>3. CallInv'
    BY <1>1, <2>1 DEF CallInv, OnItsWay
  <2> QED BY <2>2, <2>3 DEF StepOK, LDAPDirectory!DirNext
<1> QED BY <1>2, <1>3, Zenon DEF ldapVars, ServerCloses

\* One lemma for each action of the provider.
LEMMA EveryStepOK ==
    ASSUME IdleIsNoCall, CallInv, [LDAPNext]_ldapVars
    PROVE  StepOK
<1>1. ASSUME NEW c \in Calls, LDAPStep(c) \/ ServerFails(c) PROVE StepOK
  BY <1>1, DialOK, ConnectOK, UserBindOK, SearchOK, GroupsOK, ModifyOK, ModifiedOK,
     ServerFailsOK, ReturnOK DEF LDAPStep
<1>2. ASSUME NEW c \in Calls, NEW op \in {"check", "update"}, NEW u \in Entries,
             NEW p \in Passwords, BeginLDAP(c, op, u, p)
      PROVE  StepOK
  BY <1>2, BeginOK
<1>3. ASSUME NEW c \in Calls, NEW u \in Entries,
             BeginLDAP(c, "details", u, CHOOSE p \in Passwords : TRUE), Passwords # {}
      PROVE  StepOK
  <2>1. (CHOOSE p \in Passwords : TRUE) \in Passwords
    BY <1>3
  <2> QED BY <1>3, <2>1, BeginOK
<1>4. Passwords # {} \/ Entries = {}
  BY DEF CallInv
<1> QED BY <1>1, <1>2, <1>3, <1>4, OthersOK DEF LDAPNext

\* In the beginning nobody calls.
LEMMA CallInit ==
    LDAPInit => CallInv /\ LDAPDirectory!DirInit
<1> SUFFICES ASSUME LDAPInit PROVE CallInv /\ LDAPDirectory!DirInit
  OBVIOUS
<1>1. directory \in [Entries -> Passwords] /\ request = [c \in Calls |-> Idle]
  BY DEF LDAPInit
<1>2. AbstractCall = [c \in Calls |-> Idle]
  BY <1>1 DEF AbstractCall, Abstract
<1>3. CallInv
  BY <1>1 DEF CallInv
<1> QED BY <1>1, <1>2, <1>3 DEF LDAPDirectory!DirInit

\* The LDAP provider is a UserDirectory: a password is accepted only while it is
\* the user's, although the user is looked for on one connection and bound on
\* another, and a change is reported only when it was made (CheckUserPassword,
\* GetDetails, UpdatePassword).
THEOREM ProviderImplementsDirectory ==
    ASSUME IdleIsNoCall
    PROVE  LDAPSpec => LDAPImplementsDirectory
<1>1. CallInv /\ [LDAPNext]_ldapVars => CallInv'
  BY EveryStepOK DEF StepOK
<1>2. CallInv /\ [LDAPNext]_ldapVars => [LDAPDirectory!DirNext]_LDAPDirectory!dirVars
  BY EveryStepOK DEF StepOK
<1> QED BY <1>1, <1>2, CallInit, PTL DEF LDAPSpec, LDAPImplementsDirectory,
   LDAPDirectory!DirSpec

-----------------------------------------------------------------------------
(***************************************************************************)
(* The connections of the LDAP provider: each has one owner, who set it up *)
(* in the order of connect, or was given up by connect.                    *)
(***************************************************************************)

\* The connections that request k closes when it returns.
Links(k) == IF k = Idle THEN {} ELSE {k.conn, k.userConn} \ {NoConnection}

\* How far k has come with its connections, with those in B open and those in T
\* encrypted; S says that they have to be.
Equipped(k, S, B, T) ==
    /\ Links(k) \subseteq DOMAIN B \ {StartupConnection}
    /\ k.conn = k.userConn => k.conn = NoConnection
    /\ k.pc = "dial" => k.conn = NoConnection
    /\ k.pc \in {"dial", "startTLS", "bind", "search", "userDial"} => k.userConn = NoConnection
    /\ k.pc \in {"startTLS", "bind"} => k.conn # NoConnection
    /\ k.pc \in {"userStartTLS", "userBind"} => k.userConn # NoConnection
    /\ S /\ k.pc = "bind" => T[k.conn]
    /\ S /\ k.pc = "userBind" => T[k.userConn]

BoundOverTLS(B, T) == \A x \in DOMAIN B : B[x] # Nobody => T[x]

ConnInv ==
    /\ CallInv
    /\ Open \subseteq Connections \cup {StartupConnection}
    /\ tls \in [Open -> BOOLEAN]
    /\ ldapStartTLS => BoundOverTLS(bound, tls)
    /\ BoundConnectionsAreHeld
    /\ \A c \in Calls : request[c] # Idle => Equipped(request[c], ldapStartTLS, bound, tls)
    /\ \A c, d \in Calls : c # d => Links(request[c]) \cap Links(request[d]) = {}

\* One call makes k of its request and does not touch the connections of others;
\* what it opens is new and its own, and what it loses is closed or given up.
OneCallMoves(c, k) ==
    /\ StepTo(c, k)
    /\ directory' \in [Entries -> Passwords \cup {NoPassword}]
    /\ UNCHANGED ldapStartTLS
    /\ refused \subseteq refused'
    /\ DOMAIN bound' \subseteq (Connections \cup {StartupConnection})
    /\ tls' \in [DOMAIN bound' -> BOOLEAN]
    /\ ldapStartTLS => BoundOverTLS(bound', tls')
    /\ k # Idle => Equipped(k, ldapStartTLS, bound', tls')
    /\ \A x \in Links(k) : x \in Links(request[c]) \/ x \notin Open
    /\ \A x \in Open \ Links(request[c]) : x \in DOMAIN bound' /\ tls'[x] = tls[x]
    /\ \A x \in DOMAIN bound' :
          x \in Links(k) \/ x \in refused' \/ x \in Open \ Links(request[c])

\* The others keep their connections, and with them what they have done.
LEMMA OneCallKeepsConnInv ==
    ASSUME NoConnectionIsNone, ConnInv, NEW c \in Calls, NEW k, OneCallMoves(c, k)
    PROVE  ConnInv'
<1>1. CallInv'
  BY CallInvStep DEF ConnInv, OneCallMoves
<1>2. \A d \in Calls : request'[d] = IF d = c THEN k ELSE request[d]
  BY DEF ConnInv, CallInv, OneCallMoves, StepTo
<1>3. Open' = DOMAIN bound'
  BY DEF Open
<1>4. ASSUME NEW d \in Calls, d # c, request[d] # Idle
      PROVE  Equipped(request[d], ldapStartTLS, bound', tls') /\ Links(request[d]) \cap Links(k) = {}
  <2>1. Equipped(request[d], ldapStartTLS, bound, tls) /\ Links(request[d]) \cap Links(request[c]) = {}
    BY <1>4 DEF ConnInv
  <2>2. Links(request[d]) \subseteq Open \ {StartupConnection}
    BY <2>1, Zenon DEF Equipped, Open
  <2>3. \A x \in Links(request[d]) : x \in DOMAIN bound' /\ tls'[x] = tls[x] /\ x \notin Links(k)
    BY <2>1, <2>2, Zenon DEF OneCallMoves
  <2>4. Links(request[d]) \subseteq DOMAIN bound' \ {StartupConnection}
    BY <2>2, <2>3, Zenon
  <2>5. /\ request[d].conn # NoConnection => request[d].conn \in Links(request[d])
        /\ request[d].userConn # NoConnection => request[d].userConn \in Links(request[d])
    BY <1>4 DEF Links
  <2>6. ldapStartTLS /\ request[d].pc = "bind" => tls'[request[d].conn]
    BY <2>1, <2>3, <2>5, Zenon DEF Equipped
  <2>7. ldapStartTLS /\ request[d].pc = "userBind" => tls'[request[d].userConn]
    BY <2>1, <2>3, <2>5, Zenon DEF Equipped
  <2> QED BY <2>1, <2>3, <2>4, <2>6, <2>7, Zenon DEF Equipped
<1>5. \A d \in Calls : request'[d] # Idle => Equipped(request'[d], ldapStartTLS', bound', tls')
  BY <1>2, <1>4, Zenon DEF OneCallMoves
<1>6. \A d, e \in Calls : d # e => Links(request'[d]) \cap Links(request'[e]) = {}
  <2>1. \A d \in Calls : d # c => Links(request[d]) \cap Links(k) = {}
    BY <1>4, Zenon DEF Links
  <2> QED BY <1>2, <2>1, Zenon DEF ConnInv
<1>7. BoundConnectionsAreHeld'
  <2> SUFFICES ASSUME NEW x \in DOMAIN bound', x \notin refused', x # StartupConnection
               PROVE  \E d \in Calls : /\ request'[d] # Idle
                                       /\ x \in {request'[d].conn, request'[d].userConn}
    BY <1>3 DEF BoundConnectionsAreHeld
  <2>1. CASE x \in Links(k)
    BY <1>2, <2>1 DEF Links
  <2>2. CASE x \in Open \ Links(request[c])
    <3>1. x \notin refused /\ x # NoConnection
      BY <2>2 DEF OneCallMoves, ConnInv, NoConnectionIsNone
    <3>2. PICK d \in Calls : request[d] # Idle /\ x \in {request[d].conn, request[d].userConn}
      BY <2>2, <3>1, Zenon DEF ConnInv, BoundConnectionsAreHeld
    <3>3. d # c
      BY <2>2, <3>1, <3>2, Zenon DEF Links
    <3> QED BY <1>2, <3>2, <3>3
  <2> QED BY <2>1, <2>2, Zenon DEF OneCallMoves
<1>8. /\ Open' \subseteq Connections \cup {StartupConnection}
      /\ tls' \in [Open' -> BOOLEAN]
      /\ ldapStartTLS' => BoundOverTLS(bound', tls')
  BY <1>3, Zenon DEF OneCallMoves
<1> QED BY <1>1, <1>5, <1>6, <1>7, <1>8, Zenon DEF ConnInv

\* A step that leaves the connections alone, and that the call is equipped for.
LEMMA SilentStep ==
    ASSUME NoConnectionIsNone, ConnInv, NEW c \in Calls, NEW k, StepTo(c, k),
           directory' \in [Entries -> Passwords \cup {NoPassword}],
           UNCHANGED <<ldapStartTLS, bound, tls, refused>>,
           Links(k) = Links(request[c]),
           k # Idle => Equipped(k, ldapStartTLS, bound, tls)
    PROVE  ConnInv'
<1>1. \A x \in DOMAIN bound :
         x \in Links(k) \/ x \in Open \ Links(request[c])
  BY DEF Open
<1>2. OneCallMoves(c, k)
  BY <1>1 DEF OneCallMoves, ConnInv, Open
<1> QED BY <1>2, OneCallKeepsConnInv

\* In particular one that goes on with the same connections, on the way of
\* every operation.
LEMMA GoesOnEquipped ==
    ASSUME NoConnectionIsNone, IdleIsNoCall, ConnInv, NEW c \in Calls, request[c] # Idle,
           NEW k \in LDAPRequests, StepTo(c, k), SameLinks(k, request[c]),
           directory' \in [Entries -> Passwords \cup {NoPassword}],
           UNCHANGED <<ldapStartTLS, bound, tls, refused>>,
           \/ k.pc \in {"return", "modified", "groups", "modify"}
           \/ k.pc = "userDial" /\ request[c].pc = "search"
    PROVE  ConnInv'
<1>1. k # Idle /\ Links(k) = Links(request[c])
  BY Zenon DEF IdleIsNoCall, SameLinks, Links
<1>2. Equipped(request[c], ldapStartTLS, bound, tls)
  BY Zenon DEF ConnInv
<1>3. Equipped(k, ldapStartTLS, bound, tls)
  BY <1>1, <1>2, Zenon DEF Equipped, SameLinks
<1> QED BY <1>1, <1>3, SilentStep, Zenon

\* A call that gives up before or after it has its connections.
LEMMA QuitEquipped ==
    ASSUME NoConnectionIsNone, IdleIsNoCall, ConnInv, NEW c \in Calls, request[c] # Idle,
           NEW o \in {"yes", "no", "ok", "error"}, Quit(c, o),
           UNCHANGED <<ldapStartTLS, directory, bound, tls, refused>>
    PROVE  ConnInv'
<1>1. CallInv /\ directory' \in [Entries -> Passwords \cup {NoPassword}]
  BY DEF ConnInv, CallInv
<1>2. PICK k \in LDAPRequests : StepTo(c, k) /\ SameLinks(k, request[c]) /\ k.pc = "return"
  BY <1>1, QuitStep
<1> QED BY <1>1, <1>2, GoesOnEquipped, Zenon

\* A new call has no connection.
LEMMA BeginEquipped ==
    ASSUME NoConnectionIsNone, IdleIsNoCall, ConnInv, NEW c \in Calls,
           NEW op \in {"check", "details", "update"}, NEW u \in Entries, NEW p \in Passwords,
           BeginLDAP(c, op, u, p)
    PROVE  ConnInv'
<1> DEFINE k == [pc |-> "dial", op |-> op, user |-> u, password |-> p,
                 conn |-> NoConnection, userConn |-> NoConnection, outcome |-> "none"]
<1>1. /\ request[c] = Idle /\ request' = [request EXCEPT ![c] = k]
      /\ UNCHANGED <<ldapStartTLS, directory, bound, tls, refused>>
  BY DEF BeginLDAP
<1>2. k \in LDAPRequests /\ OnItsWay(k)
  BY DEF LDAPRequests, LDAPSteps, OnItsWay
<1>3. k.pc = "dial" /\ k.conn = NoConnection /\ k.userConn = NoConnection
  OBVIOUS
<1> HIDE DEF k
<1>4. StepTo(c, k)
  BY <1>1, <1>2 DEF StepTo
<1>5. Links(k) = {} /\ Links(request[c]) = {}
  BY <1>1, <1>3 DEF Links
<1>6. Equipped(k, ldapStartTLS, bound, tls)
  BY <1>3, <1>5, Zenon DEF Equipped
<1>7. directory' \in [Entries -> Passwords \cup {NoPassword}]
  BY <1>1 DEF ConnInv, CallInv
<1> QED BY <1>1, <1>4, <1>5, <1>6, <1>7, SilentStep

\* DialURL opens a connection that nobody has, and the call has none in its place.
LEMMA DialEquipped ==
    ASSUME NoConnectionIsNone, IdleIsNoCall, ConnInv, NEW c \in Calls, Dial(c)
    PROVE  ConnInv'
<1> DEFINE l == request[c]
           free == Connections \ (Open \cup {StartupConnection})
           x == CHOOSE x \in free : TRUE
           k == IF User(l.pc)
                THEN [l EXCEPT !.pc = IF ldapStartTLS THEN "userStartTLS" ELSE "userBind",
                               !.userConn = x]
                ELSE [l EXCEPT !.pc = IF ldapStartTLS THEN "startTLS" ELSE "bind",
                               !.conn = x]
<1>1. /\ l # Idle /\ l \in LDAPRequests /\ OnItsWay(l) /\ l.pc \in {"dial", "userDial"}
      /\ UNCHANGED <<ldapStartTLS, directory, refused>>
  BY DEF Dial, Reached, ConnInv, CallInv
<1>2. CASE free = {}
  BY <1>1, <1>2, QuitEquipped DEF Dial
<1>3. CASE free # {}
  <2>1. /\ bound' = [y \in Open \cup {x} |-> IF y = x THEN Nobody ELSE bound[y]]
        /\ tls' = [y \in Open \cup {x} |-> IF y = x THEN FALSE ELSE tls[y]]
        /\ request' = [request EXCEPT ![c] = k]
    BY <1>3, Zenon DEF Dial
  <2>2. x \in Connections /\ x \notin Open /\ x # StartupConnection /\ x # NoConnection
    BY <1>3 DEF NoConnectionIsNone
  <2> HIDE DEF x
  <2>3. /\ k \in LDAPRequests /\ OnItsWay(k)
    <3>1. k \in LDAPRequests
      BY <1>1, <2>2, Zenon DEF LDAPRequests, LDAPSteps
    <3>2. OnItsWay(k)
      BY <1>1 DEF OnItsWay, User, LDAPRequests
    <3> QED BY <3>1, <3>2
  <2>4. /\ l.pc = "dial" => k.conn = x /\ k.userConn = l.userConn
                              /\ k.pc = IF ldapStartTLS THEN "startTLS" ELSE "bind"
        /\ l.pc = "userDial" => k.conn = l.conn /\ k.userConn = x
                              /\ k.pc = IF ldapStartTLS THEN "userStartTLS" ELSE "userBind"
    BY <1>1 DEF User, LDAPRequests
  <2>5. k # Idle
    BY <2>3 DEF IdleIsNoCall
  <2> HIDE DEF k
  <2>6. Equipped(l, ldapStartTLS, bound, tls)
    BY <1>1, Zenon DEF ConnInv
  <2>7. Links(k) = Links(l) \cup {x} /\ Links(l) \subseteq Open \ {StartupConnection}
    <3>1. Links(l) \subseteq Open \ {StartupConnection}
      BY <2>6 DEF Equipped, Open
    <3>2. l.userConn = NoConnection /\ (l.pc = "dial" => l.conn = NoConnection)
      BY <1>1, <2>6, Zenon DEF Equipped
    <3>3. Links(k) = Links(l) \cup {x}
      BY <1>1, <2>2, <2>4, <2>5, <3>2, Zenon DEF Links
    <3> QED BY <3>1, <3>3
  <2>8. /\ DOMAIN bound' = Open \cup {x}
        /\ \A y \in Open : bound'[y] = bound[y] /\ tls'[y] = tls[y]
        /\ bound'[x] = Nobody
        /\ tls' \in [Open \cup {x} -> BOOLEAN]
    BY <2>1, <2>2, Zenon DEF ConnInv
  <2>9. Equipped(k, ldapStartTLS, bound', tls')
    <3>1. k.conn # k.userConn
      <4>1. l.conn # NoConnection => l.conn \in Open
        BY <1>1, <2>7, Zenon DEF Links
      <4>2. l.pc = "dial" => l.userConn = NoConnection
        BY <2>6 DEF Equipped
      <4> QED BY <1>1, <2>2, <2>4, <4>1, <4>2, Zenon
    <3>2. Links(k) \subseteq DOMAIN bound' \ {StartupConnection}
      BY <2>2, <2>7, <2>8
    <3>3. l.userConn = NoConnection
      BY <1>1, <2>6, Zenon DEF Equipped
    <3> QED BY <1>1, <2>2, <2>4, <3>1, <3>2, <3>3, Zenon DEF Equipped
  <2>10. ldapStartTLS => BoundOverTLS(bound', tls')
    <3>1. ldapStartTLS => \A y \in Open : bound[y] # Nobody => tls[y]
      BY DEF ConnInv, BoundOverTLS, Open
    <3> QED BY <2>8, <3>1 DEF BoundOverTLS
  <2>11. StepTo(c, k) /\ directory' \in [Entries -> Passwords \cup {NoPassword}]
    BY <1>1, <2>1, <2>3 DEF StepTo, ConnInv, CallInv
  <2>12. OneCallMoves(c, k)
    <3>1. \A y \in Links(k) : y \in Links(l) \/ y \notin Open
      BY <2>2, <2>7
    <3>2. \A y \in DOMAIN bound' : y \in Links(k) \/ y \in refused' \/ y \in Open \ Links(l)
      BY <2>7, <2>8, Zenon
    <3>3. DOMAIN bound' \subseteq (Connections \cup {StartupConnection})
      BY <2>2, <2>8, Zenon DEF ConnInv
    <3> QED BY <1>1, <2>8, <2>9, <2>10, <2>11, <3>1, <3>2, <3>3, Zenon DEF OneCallMoves
  <2> QED BY <2>12, OneCallKeepsConnInv
<1> QED BY <1>2, <1>3

\* The call works on a connection it holds, y: StartTLS encrypts it, Bind sends a
\* password on it.
LEMMA WorksOn ==
    ASSUME NoConnectionIsNone, IdleIsNoCall, ConnInv, NEW c \in Calls, request[c] # Idle,
           NEW k \in LDAPRequests, StepTo(c, k), SameLinks(k, request[c]),
           NEW y \in Links(request[c]),
           UNCHANGED <<ldapStartTLS, directory, refused>>,
           DOMAIN bound' = Open, tls' \in [Open -> BOOLEAN],
           \A x \in Open \ {y} : bound'[x] = bound[x] /\ tls'[x] = tls[x],
           ldapStartTLS /\ bound'[y] # Nobody => tls'[y],
           ldapStartTLS /\ k.pc = "bind" => y = k.conn /\ tls'[y],
           ldapStartTLS /\ k.pc = "userBind" => y = k.userConn /\ tls'[y],
           k.pc \in {"bind", "search"} => ~User(request[c].pc) /\ request[c].pc \in {"startTLS", "bind"},
           k.pc = "userBind" => request[c].pc = "userStartTLS",
           k.pc \in {"bind", "search", "userBind", "return"}
    PROVE  ConnInv'
<1> DEFINE l == request[c]
<1>1. Equipped(l, ldapStartTLS, bound, tls)
  BY Zenon DEF ConnInv
<1>2. k # Idle /\ Links(k) = Links(l) /\ Links(l) \subseteq Open \ {StartupConnection}
  BY <1>1, Zenon DEF IdleIsNoCall, SameLinks, Links, Equipped, Open
<1>3. Equipped(k, ldapStartTLS, bound', tls')
  BY <1>1, <1>2, Zenon DEF Equipped, SameLinks, Open
<1>4. ldapStartTLS => BoundOverTLS(bound', tls')
  BY Zenon DEF ConnInv, BoundOverTLS, Open
<1>5. OneCallMoves(c, k)
  <2>1. directory' \in [Entries -> Passwords \cup {NoPassword}]
    BY Zenon DEF ConnInv, CallInv
  <2>2. \A x \in DOMAIN bound' : x \in Links(k) \/ x \in refused' \/ x \in Open \ Links(l)
    BY <1>2, Zenon
  <2> QED BY <1>2, <1>3, <1>4, <2>1, <2>2, Zenon DEF OneCallMoves, ConnInv
<1> QED BY <1>5, OneCallKeepsConnInv, Zenon

\* The connection that the call sets up is its own.
LEMMA ConnIsHeld ==
    ASSUME ConnInv, NEW c \in Calls, request[c] # Idle,
           request[c].pc \in {"startTLS", "userStartTLS", "bind", "userBind"}
    PROVE  /\ Conn(c) \in Links(request[c]) /\ Conn(c) \in Open
           /\ Conn(c) = IF User(request[c].pc) THEN request[c].userConn ELSE request[c].conn
           /\ ldapStartTLS /\ request[c].pc \in {"bind", "userBind"} => tls[Conn(c)]
<1>1. Equipped(request[c], ldapStartTLS, bound, tls)
  BY Zenon DEF ConnInv
<1> QED BY <1>1, Zenon DEF Equipped, Links, Conn, User, Open

\* StartTLS encrypts it.
LEMMA StartTLSEquipped ==
    ASSUME NoConnectionIsNone, IdleIsNoCall, ConnInv, NEW c \in Calls, StartTLS(c)
    PROVE  ConnInv'
<1> DEFINE y == Conn(c)
<1>1. /\ request[c] # Idle /\ request[c] \in LDAPRequests /\ OnItsWay(request[c])
      /\ request[c].pc \in {"startTLS", "userStartTLS"}
      /\ tls' = [tls EXCEPT ![y] = TRUE]
      /\ UNCHANGED <<ldapStartTLS, directory, bound, refused>>
  BY DEF StartTLS, Reached, ConnInv, CallInv
<1> DEFINE step == IF User(request[c].pc) THEN "userBind" ELSE "bind"
<1>2. request' = [request EXCEPT ![c].pc = step]
  BY DEF StartTLS, Advance
<1>3. OnItsWay([request[c] EXCEPT !.pc = step])
  BY <1>1 DEF OnItsWay, User, LDAPRequests
<1>4. step \in LDAPSteps \ {"return"} /\ CallInv
  BY DEF LDAPSteps, ConnInv
<1>5. PICK k \in LDAPRequests : StepTo(c, k) /\ k.pc = step /\ SameLinks(k, request[c])
  BY <1>1, <1>2, <1>3, <1>4, GoesOn, Zenon
<1>6. /\ y \in Links(request[c]) /\ y \in Open
      /\ y = IF User(request[c].pc) THEN request[c].userConn ELSE request[c].conn
  BY <1>1, ConnIsHeld, Zenon
<1> HIDE DEF y
<1>7. /\ tls' \in [Open -> BOOLEAN] /\ tls'[y]
      /\ \A x \in Open \ {y} : tls'[x] = tls[x]
  BY <1>1, <1>6, Zenon DEF ConnInv
<1>8. /\ k.pc = "bind" => ~User(request[c].pc) /\ request[c].pc = "startTLS" /\ y = k.conn
      /\ k.pc = "userBind" => request[c].pc = "userStartTLS" /\ y = k.userConn
      /\ k.pc \in {"bind", "userBind"}
  BY <1>1, <1>5, <1>6, Zenon DEF User, SameLinks
<1>9. DOMAIN bound' = Open /\ \A x \in Open \ {y} : bound'[x] = bound[x]
  BY <1>1 DEF Open
<1> HIDE DEF step
<1>10. /\ k.pc \in {"bind", "search"} => ~User(request[c].pc) /\ request[c].pc \in {"startTLS", "bind"}
       /\ k.pc \in {"bind", "search", "userBind", "return"}
  BY <1>8, Zenon
<1>11. /\ ldapStartTLS /\ bound'[y] # Nobody => tls'[y]
       /\ ldapStartTLS /\ k.pc = "bind" => y = k.conn /\ tls'[y]
       /\ ldapStartTLS /\ k.pc = "userBind" => y = k.userConn /\ tls'[y]
       /\ \A x \in Open \ {y} : bound'[x] = bound[x] /\ tls'[x] = tls[x]
       /\ UNCHANGED <<ldapStartTLS, directory, refused>>
       /\ tls' \in [Open -> BOOLEAN] /\ DOMAIN bound' = Open
       /\ k.pc = "userBind" => request[c].pc = "userStartTLS"
       /\ request[c] # Idle /\ y \in Links(request[c])
       /\ StepTo(c, k) /\ SameLinks(k, request[c])
  BY <1>1, <1>5, <1>6, <1>7, <1>8, <1>9, Zenon
<1> QED BY <1>10, <1>11, WorksOn, Zenon

\* Authelia binds on it.
LEMMA BindEquipped ==
    ASSUME NoConnectionIsNone, IdleIsNoCall, ConnInv, NEW c \in Calls, Bind(c)
    PROVE  ConnInv'
<1> DEFINE y == Conn(c)
<1>1. /\ request[c] # Idle /\ request[c] \in LDAPRequests /\ OnItsWay(request[c])
      /\ request[c].pc = "bind"
      /\ bound' = [bound EXCEPT ![y] = Authelia]
      /\ UNCHANGED <<ldapStartTLS, directory, tls, refused>>
  BY DEF Bind, Reached, ConnInv, CallInv
<1>2. request' = [request EXCEPT ![c].pc = "search"]
  BY DEF Bind, Advance
<1>3. OnItsWay([request[c] EXCEPT !.pc = "search"])
  BY <1>1 DEF OnItsWay, LDAPRequests
<1>4. "search" \in LDAPSteps \ {"return"} /\ CallInv
  BY DEF LDAPSteps, ConnInv
<1>5. PICK k \in LDAPRequests : StepTo(c, k) /\ k.pc = "search" /\ SameLinks(k, request[c])
  BY <1>1, <1>2, <1>3, <1>4, GoesOn, Zenon
<1>6. y \in Links(request[c]) /\ y \in Open /\ (ldapStartTLS => tls[y])
  BY <1>1, ConnIsHeld, Zenon
<1> HIDE DEF y
<1>7. /\ tls' \in [Open -> BOOLEAN] /\ DOMAIN bound' = Open
      /\ \A x \in Open \ {y} : bound'[x] = bound[x] /\ tls'[x] = tls[x]
  BY <1>1 DEF ConnInv, Open
<1>8. ~User(request[c].pc)
  BY <1>1 DEF User
<1> QED BY <1>1, <1>5, <1>6, <1>7, <1>8, WorksOn, Zenon

\* connect gives a connection up: it stays open and is nobody's.
LEMMA RefusedEquipped ==
    ASSUME NoConnectionIsNone, IdleIsNoCall, ConnInv, NEW c \in Calls, request[c] # Idle,
           request[c].pc \in {"startTLS", "userStartTLS", "bind", "userBind"},
           Refused(c), UNCHANGED <<ldapStartTLS, directory, bound, tls>>
    PROVE  ConnInv'
<1> DEFINE l == request[c]
           y == Conn(c)
<1>1. CallInv /\ refused' = refused \cup {y}
  BY DEF ConnInv, Refused
<1>2. PICK k \in LDAPRequests : StepTo(c, k) /\ k.pc = "return" /\ GivesUp(k, l)
  BY <1>1, RefusedStep, Zenon
<1>3. Equipped(l, ldapStartTLS, bound, tls)
  BY Zenon DEF ConnInv
<1>4. y = IF User(l.pc) THEN l.userConn ELSE l.conn
  BY ConnIsHeld, Zenon
<1>5. k # Idle
  BY Zenon DEF IdleIsNoCall
<1>6. Links(k) = Links(l) \ {y} /\ Links(l) \subseteq Open \ {StartupConnection}
  BY <1>2, <1>3, <1>4, <1>5, Zenon DEF Equipped, GivesUp, Links, User, Open
<1>7. Equipped(k, ldapStartTLS, bound, tls)
  <2>1. k.conn = k.userConn => k.conn = NoConnection
    BY <1>2, Zenon DEF GivesUp
  <2> QED BY <1>2, <1>6, <2>1, Zenon DEF Equipped, Open
<1> HIDE DEF y
<1>8. OneCallMoves(c, k)
  <2>1. \A x \in DOMAIN bound' : x \in Links(k) \/ x \in refused' \/ x \in Open \ Links(l)
    BY <1>1, <1>6, Zenon DEF Open
  <2>2. directory' \in [Entries -> Passwords \cup {NoPassword}]
    BY <1>1 DEF CallInv
  <2> QED BY <1>1, <1>2, <1>6, <1>7, <2>1, <2>2, Zenon DEF OneCallMoves, ConnInv, Open
<1> QED BY <1>8, OneCallKeepsConnInv, Zenon

\* The user binds on it, or is refused.
LEMMA UserBindEquipped ==
    ASSUME NoConnectionIsNone, IdleIsNoCall, ConnInv, NEW c \in Calls, UserBind(c)
    PROVE  ConnInv'
<1> DEFINE y == Conn(c)
<1>1. /\ request[c] # Idle /\ request[c].pc = "userBind" /\ CallInv
      /\ UNCHANGED <<ldapStartTLS, directory, tls>>
  BY Zenon DEF UserBind, Reached, ConnInv
<1>2. CASE directory[request[c].user] # request[c].password
  BY <1>1, <1>2, RefusedEquipped, Zenon DEF UserBind
<1>3. CASE directory[request[c].user] = request[c].password
  <2>1. /\ bound' = [bound EXCEPT ![y] = request[c].user]
        /\ Quit(c, "yes") /\ UNCHANGED refused
    BY <1>3, Zenon DEF UserBind
  <2>2. PICK k \in LDAPRequests : StepTo(c, k) /\ k.pc = "return" /\ SameLinks(k, request[c])
    BY <1>1, <2>1, QuitStep, Zenon
  <2>3. y \in Links(request[c]) /\ y \in Open /\ (ldapStartTLS => tls[y])
    BY <1>1, ConnIsHeld, Zenon
  <2> HIDE DEF y
  <2>4. /\ tls' \in [Open -> BOOLEAN] /\ DOMAIN bound' = Open
        /\ \A x \in Open \ {y} : bound'[x] = bound[x] /\ tls'[x] = tls[x]
    BY <1>1, <2>1 DEF ConnInv, Open
  <2> QED BY <1>1, <2>1, <2>2, <2>3, <2>4, WorksOn, Zenon
<1> QED BY <1>2, <1>3

\* The search finds the user, or not.
LEMMA SearchEquipped ==
    ASSUME NoConnectionIsNone, IdleIsNoCall, ConnInv, NEW c \in Calls, getUserProfile(c)
    PROVE  ConnInv'
<1>1. /\ request[c] # Idle /\ request[c] \in LDAPRequests /\ request[c].pc = "search" /\ CallInv
      /\ UNCHANGED <<ldapStartTLS, directory, bound, tls, refused>>
  BY DEF getUserProfile, Reached, ConnInv, CallInv
<1>2. CASE directory[request[c].user] = NoPassword
  BY <1>1, <1>2, QuitEquipped DEF getUserProfile
<1>3. CASE directory[request[c].user] # NoPassword
  <2> DEFINE step == CASE request[c].op = "check" -> "userDial"
                     [] request[c].op = "details" -> "groups"
                     [] OTHER -> "modify"
  <2>1. request' = [request EXCEPT ![c].pc = step]
    BY <1>3 DEF getUserProfile
  <2>2. request[c].op \in {"check", "details", "update"}
    BY <1>1 DEF LDAPRequests
  <2>3. step \in {"userDial", "groups", "modify"} /\ OnItsWay([request[c] EXCEPT !.pc = step])
    BY <1>1, <2>2 DEF OnItsWay, LDAPRequests
  <2> HIDE DEF step
  <2>4. PICK k \in LDAPRequests : StepTo(c, k) /\ k.pc = step /\ SameLinks(k, request[c])
    BY <1>1, <2>1, <2>3, GoesOn, Zenon DEF LDAPSteps
  <2>5. directory' \in [Entries -> Passwords \cup {NoPassword}]
    BY <1>1 DEF CallInv
  <2> QED BY <1>1, <2>3, <2>4, <2>5, GoesOnEquipped
<1> QED BY <1>2, <1>3

\* The server changes the entry.
LEMMA ModifyEquipped ==
    ASSUME NoConnectionIsNone, IdleIsNoCall, ConnInv, NEW c \in Calls, Modify(c)
    PROVE  ConnInv'
<1>1. /\ request[c] # Idle /\ request[c] \in LDAPRequests /\ OnItsWay(request[c])
      /\ request[c].pc = "modify" /\ CallInv
      /\ UNCHANGED <<ldapStartTLS, bound, tls, refused>>
  BY DEF Modify, Reached, ConnInv, CallInv
<1>2. CASE directory[request[c].user] = NoPassword
  BY <1>1, <1>2, QuitEquipped DEF Modify
<1>3. CASE directory[request[c].user] # NoPassword
  <2>1. /\ request' = [request EXCEPT ![c].pc = "modified"]
        /\ directory' = [directory EXCEPT ![request[c].user] = request[c].password]
    BY <1>3 DEF Modify
  <2>2. OnItsWay([request[c] EXCEPT !.pc = "modified"]) /\ "modified" \in LDAPSteps \ {"return"}
    BY <1>1 DEF OnItsWay, LDAPRequests, LDAPSteps
  <2>3. PICK k \in LDAPRequests : StepTo(c, k) /\ k.pc = "modified" /\ SameLinks(k, request[c])
    BY <1>1, <2>1, <2>2, GoesOn, Zenon
  <2>4. request[c].password \in Passwords
    BY <1>1, Zenon DEF LDAPRequests
  <2>5. directory' \in [Entries -> Passwords \cup {NoPassword}]
    BY <1>1, <2>1, <2>4, Zenon DEF CallInv
  <2> QED BY <1>1, <2>3, <2>5, GoesOnEquipped, Zenon
<1> QED BY <1>2, <1>3

\* The deferred calls of Close close what the call holds, and nothing else.
LEMMA ReturnEquipped ==
    ASSUME NoConnectionIsNone, IdleIsNoCall, ConnInv, NEW c \in Calls, ReturnLDAP(c)
    PROVE  ConnInv'
<1> DEFINE K == {request[c].conn, request[c].userConn}
<1>1. /\ request[c] # Idle /\ StepTo(c, Idle)
      /\ bound' = [x \in Open \ K |-> bound[x]]
      /\ tls' = [x \in Open \ K |-> tls[x]]
      /\ UNCHANGED <<ldapStartTLS, directory, refused>>
  BY Zenon DEF ReturnLDAP, Reached, StepTo, CloseAll, Close
<1>2. Open \ K = Open \ Links(request[c]) /\ Links(Idle) = {}
  <2>1. Links(request[c]) = K \ {NoConnection} /\ Links(Idle) = {}
    BY <1>1, Zenon DEF Links
  <2>2. NoConnection \notin Open
    BY DEF ConnInv, NoConnectionIsNone
  <2> QED BY <2>1, <2>2
<1> HIDE DEF K
<1>3. /\ DOMAIN bound' = Open \ K /\ tls' \in [Open \ K -> BOOLEAN]
      /\ \A x \in Open \ K : bound'[x] = bound[x] /\ tls'[x] = tls[x]
  BY <1>1 DEF ConnInv
<1>4. ldapStartTLS => BoundOverTLS(bound', tls')
  BY <1>3, Zenon DEF ConnInv, BoundOverTLS, Open
<1>5. OneCallMoves(c, Idle)
  <2>1. directory' \in [Entries -> Passwords \cup {NoPassword}]
    BY <1>1 DEF ConnInv, CallInv
  <2> QED BY <1>1, <1>2, <1>3, <1>4, <2>1, Zenon DEF OneCallMoves, ConnInv
<1> QED BY <1>5, OneCallKeepsConnInv

\* The server closes a connection that nobody holds.
LEMMA ServerClosesEquipped ==
    ASSUME ConnInv, NEW x \in Connections, ServerCloses(x)
    PROVE  ConnInv'
<1>1. /\ x \in Open \ {StartupConnection}
      /\ \A c \in Calls : request[c] # Idle => x \notin {request[c].conn, request[c].userConn}
      /\ bound' = [y \in Open \ {x} |-> bound[y]]
      /\ tls' = [y \in Open \ {x} |-> tls[y]]
      /\ refused' = refused \ {x}
      /\ UNCHANGED <<ldapStartTLS, directory, request>>
  BY Zenon DEF ServerCloses, Close
<1>2. /\ DOMAIN bound' = Open \ {x} /\ Open' = Open \ {x} /\ tls' \in [Open \ {x} -> BOOLEAN]
      /\ \A y \in Open \ {x} : bound'[y] = bound[y] /\ tls'[y] = tls[y]
  BY <1>1, Zenon DEF ConnInv, Open
<1>3. CallInv'
  BY <1>1, Zenon DEF ConnInv, CallInv
<1>4. BoundConnectionsAreHeld'
  BY <1>1, <1>2, Zenon DEF ConnInv, BoundConnectionsAreHeld
<1>5. ldapStartTLS' => BoundOverTLS(bound', tls')
  BY <1>1, <1>2, Zenon DEF ConnInv, BoundOverTLS, Open
<1>6. ASSUME NEW c \in Calls, request[c] # Idle
      PROVE  Equipped(request[c], ldapStartTLS, bound', tls')
  <2>1. Equipped(request[c], ldapStartTLS, bound, tls) /\ x \notin Links(request[c])
    BY <1>1, <1>6, Zenon DEF ConnInv, Links
  <2>2. /\ request[c].conn # NoConnection => request[c].conn \in Open \ {x}
        /\ request[c].userConn # NoConnection => request[c].userConn \in Open \ {x}
    BY <1>6, <2>1, Zenon DEF Equipped, Links, Open
  <2>3. Links(request[c]) \subseteq DOMAIN bound' \ {StartupConnection}
    BY <1>2, <2>1, Zenon DEF Equipped, Open
  <2> QED BY <1>2, <2>1, <2>2, <2>3, Zenon DEF Equipped
<1>7. \A c \in Calls : request'[c] # Idle => Equipped(request'[c], ldapStartTLS', bound', tls')
  BY <1>1, <1>6, Zenon
<1>8. \A c, d \in Calls : c # d => Links(request'[c]) \cap Links(request'[d]) = {}
  BY <1>1, Zenon DEF ConnInv
<1>9. Open' \subseteq Connections \cup {StartupConnection} /\ tls' \in [Open' -> BOOLEAN]
  BY <1>2, Zenon DEF ConnInv
<1> QED BY <1>3, <1>4, <1>5, <1>7, <1>8, <1>9, Zenon DEF ConnInv

\* The administrator touches no connection.
LEMMA OthersEquipped ==
    ASSUME ConnInv,
           \/ UNCHANGED ldapVars
           \/ \E u \in Entries, p \in Passwords \cup {NoPassword} : AdministratorChanges(u, p)
    PROVE  ConnInv'
<1>1. UNCHANGED <<ldapStartTLS, bound, tls, request, refused>>
  BY DEF ldapVars, AdministratorChanges
<1>2. CallInv'
  BY OthersOK DEF ConnInv, StepOK
<1>3. Open' = Open
  BY <1>1 DEF Open
<1>4. BoundConnectionsAreHeld'
  BY <1>1, <1>3, Zenon DEF ConnInv, BoundConnectionsAreHeld
<1> QED BY <1>1, <1>2, <1>3, <1>4 DEF ConnInv

\* One lemma for each action, again.
LEMMA EveryStepEquipped ==
    ASSUME NoConnectionIsNone, IdleIsNoCall, ConnInv, [LDAPNext]_ldapVars
    PROVE  ConnInv'
<1>1. ASSUME NEW c \in Calls, SearchGroups(c) \/ Modified(c) PROVE ConnInv'
  BY <1>1, QuitEquipped, Zenon DEF SearchGroups, Modified, Reached
<1>2. ASSUME NEW c \in Calls, ServerFails(c) PROVE ConnInv'
  BY <1>2, QuitEquipped, RefusedEquipped, Zenon DEF ServerFails
<1>3. ASSUME NEW c \in Calls, LDAPStep(c) PROVE ConnInv'
  BY <1>1, <1>3, DialEquipped, StartTLSEquipped, BindEquipped, UserBindEquipped,
     SearchEquipped, ModifyEquipped, ReturnEquipped DEF LDAPStep
<1>4. ASSUME NEW c \in Calls, NEW op \in {"check", "update"}, NEW u \in Entries,
             NEW p \in Passwords, BeginLDAP(c, op, u, p)
      PROVE  ConnInv'
  BY <1>4, BeginEquipped
<1>5. ASSUME NEW c \in Calls, NEW u \in Entries,
             BeginLDAP(c, "details", u, CHOOSE p \in Passwords : TRUE)
      PROVE  ConnInv'
  <2>1. (CHOOSE p \in Passwords : TRUE) \in Passwords
    BY DEF ConnInv, CallInv
  <2> QED BY <1>5, <2>1, BeginEquipped
<1>6. ASSUME NEW x \in Connections, ServerCloses(x) PROVE ConnInv'
  BY <1>6, ServerClosesEquipped
<1> QED BY <1>2, <1>3, <1>4, <1>5, <1>6, OthersEquipped DEF LDAPNext

\* checkServer's connection is the only one, and bound the way connect binds.
LEMMA ConnInit ==
    ASSUME LDAPInit
    PROVE  ConnInv
<1>1. CallInv
  BY CallInit
<1>2. /\ Open = {StartupConnection} /\ tls \in [Open -> BOOLEAN]
      /\ \A c \in Calls : request[c] = Idle
      /\ ldapStartTLS => \A x \in Open : tls[x]
  BY DEF LDAPInit, Open
<1>3. ldapStartTLS => BoundOverTLS(bound, tls)
  BY <1>2 DEF BoundOverTLS, Open
<1> QED BY <1>1, <1>2, <1>3, Zenon DEF ConnInv, BoundConnectionsAreHeld, Links

\* Every state of the provider satisfies the invariants of calls and connections.
LEMMA ConnInvariant ==
    ASSUME IdleIsNoCall, NoConnectionIsNone
    PROVE  LDAPSpec => []ConnInv
BY ConnInit, EveryStepEquipped, PTL DEF LDAPSpec

\* For any number of calls, connections and failures of the server: a connection
\* that is still open without a call is the one of checkServer or one that
\* connect gave up (the deferred calls of Close).
THEOREM CallsCloseConnections ==
    ASSUME IdleIsNoCall, NoConnectionIsNone
    PROVE  LDAPSpec => []BoundConnectionsAreHeld
<1>1. ConnInv => BoundConnectionsAreHeld
  BY DEF ConnInv
<1> QED BY <1>1, ConnInvariant, PTL

\* With start_tls the passwords go over encrypted connections, although calls
\* open and close connections meanwhile and a number may be used again
\* (connect).
THEOREM PasswordsSentOverTLS ==
    ASSUME IdleIsNoCall, NoConnectionIsNone
    PROVE  LDAPSpec => []PasswordsOverTLS
<1>1. ConnInv => PasswordsOverTLS
  <2> SUFFICES ASSUME ConnInv, ldapStartTLS PROVE
          /\ \A k \in Open : bound[k] # Nobody => tls[k]
          /\ \A c \in Calls : Reached(c, "bind") \/ Reached(c, "userBind") => tls[Conn(c)]
    BY Zenon DEF PasswordsOverTLS
  <2>1. \A k \in Open : bound[k] # Nobody => tls[k]
    BY DEF ConnInv, BoundOverTLS, Open
  <2> QED BY <2>1, ConnIsHeld, Zenon DEF Reached
<1> QED BY <1>1, ConnInvariant, PTL

=============================================================================
