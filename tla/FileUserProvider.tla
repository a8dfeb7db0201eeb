-------------------------- MODULE FileUserProvider --------------------------
(***************************************************************************)
(* The users of a file (internal/authentication/file_user_provider.go).    *)
(*                                                                         *)
(* The users live in a map that UpdatePassword changes under a lock before *)
(* it writes the whole file; all reads of the map are without the lock.    *)
(* A read that meets the insertion into the map may end the process, as Go *)
(* does when it notices, and a read that meets the copy of the value may   *)
(* see a hash that is neither the old nor the new one.  The process can be *)
(* killed at every step; the supervisor starts it again.                   *)
(***************************************************************************)
EXTENDS Naturals, FiniteSets

CONSTANTS
    Usernames,      \* the users of the file
    Passwords,
    NoPassword,     \* of a user who is not in the file (any more)
    Calls,          \* requests that call the provider at the same time
    Idle,
    Algorithm,      \* the algorithm of the configuration
    Files,          \* the users files considered
    NoCall,         \* nobody holds the lock
    MaxFailures,    \* bound: failing writes, kills
    MaxUpdates      \* bound: calls of UpdatePassword

VARIABLES
    up,             \* the process runs
    memory,         \* p.database.Users
    file,           \* the users file, as far as it can be read
    lock,           \* p.lock: who holds it
    assigning,      \* what the assignment to the map is doing
    call,           \* call[c]
    failures, updates

fileVars == <<up, memory, file, lock, assigning, call, failures, updates>>

Algorithms == {"argon2id", "sha512"}

\* A hash tells its algorithm; {CRYPT} may stand before it in the file.
Hashes ==
    [crypt : BOOLEAN, algorithm : Algorithms,
     password : Passwords \cup {NoPassword}]

\* What is left of a hash that was cut, or overwritten while it was read.
Garbled == [crypt |-> FALSE, algorithm |-> "sha512", password |-> NoPassword]

Databases == UNION {[S -> Hashes] : S \in SUBSET Usernames}

FileSteps ==
    {"read", "compare", "hash", "lock", "assign", "marshal", "truncate", "write",
     "return"}

\* calm: history, no update of the user has run since the call began.
FileCalls ==
    [pc : FileSteps, op : {"check", "details", "update"}, user : Usernames,
     password : Passwords, hash : Hashes, outcome : {"none", "ok", "error"},
     calm : BOOLEAN]

FileTypeOK ==
    /\ up \in BOOLEAN
    /\ memory \in Databases
    /\ file \in Databases
    /\ lock \in Calls \cup {NoCall}
    /\ assigning \in {"nothing", "insertion", "value"}
    /\ call \in [Calls -> FileCalls \cup {Idle}]
    /\ failures \in 0..MaxFailures
    /\ updates \in 0..MaxUpdates

-----------------------------------------------------------------------------
(***************************************************************************)
(* password_hash.go, without salts and work factors: two hashes are equal  *)
(* when the password and the algorithm are.                                *)
(***************************************************************************)

HashPassword(p, algorithm) ==
    [crypt |-> FALSE, algorithm |-> algorithm, password |-> p]

\* Mutant: the hash is computed with the algorithm of the configuration.
CheckPasswordConfigured(p, hash) == ~hash.crypt /\ HashPassword(p, Algorithm) = hash

\* ParseHash knows no {CRYPT}; the password is hashed the way the hash was.
CheckPassword(p, hash) == ~hash.crypt /\ HashPassword(p, hash.algorithm) = hash

checkPasswordHashes(db) == [u \in DOMAIN db |-> [db[u] EXCEPT !.crypt = FALSE]]

FileInit ==
    /\ up = TRUE
    /\ file \in Files
    /\ memory = checkPasswordHashes(file)
    /\ lock = NoCall
    /\ assigning = "nothing"
    /\ call = [c \in Calls |-> Idle]
    /\ failures = 0
    /\ updates = 0

-----------------------------------------------------------------------------
(***************************************************************************)
(* The calls.                                                              *)
(***************************************************************************)

At(c, pc) == up /\ call[c] # Idle /\ call[c].pc = pc

Goto(c, pc) == call' = [call EXCEPT ![c].pc = pc]

Finish(c, outcome) ==
    call' = [call EXCEPT ![c].pc = "return", ![c].outcome = outcome]

Updating(u) ==
    \E c \in Calls : call[c] # Idle /\ call[c].op = "update" /\ call[c].user = u

BeginFile(c, op, u, p) ==
    /\ up
    /\ call[c] = Idle
    /\ op = "update" => updates < MaxUpdates
    /\ updates' = IF op = "update" THEN updates + 1 ELSE updates
    /\ LET k == [pc |-> "read", op |-> op, user |-> u, password |-> p,
                 hash |-> Garbled, outcome |-> "none",
                 calm |-> op # "update" /\ ~Updating(u)]
       IN call' = [d \in Calls |->
                      IF d = c THEN k
                      ELSE IF op = "update" /\ call[d] # Idle /\ call[d].user = u
                           THEN [call[d] EXCEPT !.calm = FALSE]
                           ELSE call[d]]
    /\ UNCHANGED <<up, memory, file, lock, assigning, failures>>

\* The update that is copying the value of the user.
Copying(u) == {d \in Calls : assigning = "value" /\ lock = d /\ call[d].user = u}

\* p.database.Users[username], without the lock.
ReadMap(c) ==
    /\ At(c, "read")
    /\ LET u == call[c].user IN
       IF u \notin DOMAIN memory THEN Finish(c, "error")
       ELSE \E h \in {memory[u]} \cup {Garbled : d \in Copying(u)} :
               CASE call[c].op = "check" ->
                        call' = [call EXCEPT ![c].pc = "compare", ![c].hash = h]
                 [] call[c].op = "details" -> Finish(c, "ok")
                 [] call[c].op = "update" -> Goto(c, "hash")
    /\ UNCHANGED <<up, memory, file, lock, assigning, failures, updates>>

\* CheckUserPassword compares its copy of the hash, and returns.
Compare(c) ==
    /\ At(c, "compare")
    /\ call' = [call EXCEPT ![c] = Idle]
    /\ UNCHANGED <<up, memory, file, lock, assigning, failures, updates>>

\* Mutant: the algorithm of the configuration was not recognised.
NewHashUnknown(c) ==
    /\ At(c, "hash")
    /\ call' = [call EXCEPT ![c].pc = "lock",
                            ![c].hash = HashPassword(call[c].password, "unknown")]
    /\ UNCHANGED <<up, memory, file, lock, assigning, failures, updates>>

\* The validator of the configuration keeps HashPassword from failing.
NewHash(c) ==
    /\ At(c, "hash")
    /\ call' = [call EXCEPT ![c].pc = "lock",
                            ![c].hash = HashPassword(call[c].password, Algorithm)]
    /\ UNCHANGED <<up, memory, file, lock, assigning, failures, updates>>

Lock(c) ==
    /\ At(c, "lock")
    /\ lock = NoCall
    /\ lock' = c
    /\ assigning' = "insertion"
    /\ Goto(c, "assign")
    /\ UNCHANGED <<up, memory, file, failures, updates>>

AssignValue(c) ==
    /\ At(c, "assign")
    /\ memory' = [memory EXCEPT ![call[c].user] = call[c].hash]
    /\ assigning' = "value"
    /\ Goto(c, "marshal")
    /\ UNCHANGED <<up, file, lock, failures, updates>>

\* Mutant: the early return keeps the lock.
MarshalFailsLocked(c) ==
    /\ failures < MaxFailures
    /\ failures' = failures + 1
    /\ Finish(c, "error")
    /\ UNCHANGED lock

MarshalFails(c) ==
    /\ failures < MaxFailures
    /\ failures' = failures + 1
    /\ lock' = NoCall
    /\ Finish(c, "error")

\* yaml.Marshal; the map already has the new hash.
Marshal(c) ==
    /\ At(c, "marshal")
    /\ assigning' = "nothing"
    /\ \/ Goto(c, "truncate") /\ UNCHANGED <<lock, failures>>
       \/ MarshalFails(c)
    /\ UNCHANGED <<up, memory, file, updates>>

\* ioutil.WriteFile opens the file, which makes it empty, ...
Truncate(c) ==
    /\ At(c, "truncate")
    /\ \/ /\ file' = [u \in {} |-> Garbled]
          /\ Goto(c, "write")
          /\ UNCHANGED <<lock, failures>>
       \/ /\ failures < MaxFailures
          /\ failures' = failures + 1
          /\ lock' = NoCall
          /\ Finish(c, "error")
          /\ UNCHANGED file
    /\ UNCHANGED <<up, memory, assigning, updates>>

\* What a write that stops half way leaves: some users, the last one cut.
Parts(db) ==
    {f \in UNION {[S -> Hashes] : S \in SUBSET DOMAIN db} :
        /\ \A u \in DOMAIN f : f[u] \in {db[u], Garbled}
        /\ Cardinality({u \in DOMAIN f : f[u] # db[u]}) <= 1}

WriteFile(c) == file' = memory

\* Mutant: the error of WriteFile is not returned.
WriteUnchecked(c) ==
    /\ At(c, "write")
    /\ \/ WriteFile(c) /\ UNCHANGED failures
       \/ /\ failures < MaxFailures
          /\ failures' = failures + 1
          /\ file' \in Parts(memory)
    /\ Finish(c, "ok")
    /\ lock' = NoCall
    /\ UNCHANGED <<up, memory, assigning, updates>>

\* ... and writes it; the lock is released on both ways.
Write(c) ==
    /\ At(c, "write")
    /\ \/ /\ WriteFile(c)
          /\ Finish(c, "ok")
          /\ UNCHANGED failures
       \/ /\ failures < MaxFailures
          /\ failures' = failures + 1
          /\ file' \in Parts(memory)
          /\ Finish(c, "error")
    /\ lock' = NoCall
    /\ UNCHANGED <<up, memory, assigning, updates>>

ReturnFile(c) ==
    /\ At(c, "return")
    /\ call' = [call EXCEPT ![c] = Idle]
    /\ UNCHANGED <<up, memory, file, lock, assigning, failures, updates>>

-----------------------------------------------------------------------------
(***************************************************************************)
(* The process.                                                            *)
(***************************************************************************)

\* memory keeps its value for the sake of the type only.
Exit ==
    /\ up' = FALSE
    /\ lock' = NoCall
    /\ assigning' = "nothing"
    /\ call' = [c \in Calls |-> Idle]
    /\ UNCHANGED <<memory, updates>>

\* "fatal error: concurrent map read and map write".
ConcurrentMapRead(c) ==
    /\ At(c, "read")
    /\ assigning = "insertion"
    /\ Exit
    /\ UNCHANGED <<file, failures>>

\* A kill in the middle of a write leaves what was written.
Kill ==
    /\ up
    /\ failures < MaxFailures
    /\ failures' = failures + 1
    /\ Exit
    /\ \/ UNCHANGED file
       \/ (\E c \in Calls : At(c, "write")) /\ file' \in Parts(memory)

readDatabase == checkPasswordHashes(file)

\* A file without users is not valid: NewFileUserProvider panics.
Restart ==
    /\ ~up
    /\ DOMAIN file # {}
    /\ memory' = readDatabase
    /\ up' = TRUE
    /\ UNCHANGED <<file, lock, assigning, call, failures, updates>>

FileStep(c) ==
    \/ ReadMap(c) \/ Compare(c) \/ NewHash(c) \/ Lock(c) \/ AssignValue(c)
    \/ Marshal(c) \/ Truncate(c) \/ Write(c) \/ ReturnFile(c)

FileNext ==
    \/ \E c \in Calls :
          \/ \E op \in {"check", "update"}, u \in Usernames, p \in Passwords :
                BeginFile(c, op, u, p)
          \/ \E u \in Usernames : BeginFile(c, "details", u, CHOOSE p \in Passwords : TRUE)
          \/ FileStep(c)
          \/ ConcurrentMapRead(c)
    \/ Kill
    \/ Restart

FileSpec == FileInit /\ [][FileNext]_fileVars

\* A goroutine runs on, and the mutex of Go is starvation free.
FileFairSpec ==
    /\ FileSpec
    /\ \A c \in Calls : WF_fileVars(FileStep(c)) /\ SF_fileVars(Lock(c))

-----------------------------------------------------------------------------
(***************************************************************************)
(* Properties.                                                             *)
(***************************************************************************)

PasswordOf(db) ==
    [u \in Usernames |-> IF u \in DOMAIN db THEN db[u].password ELSE NoPassword]

ResultOf(k) ==
    CASE k.pc = "compare" ->
             IF CheckPassword(k.password, k.hash) THEN "yes" ELSE "no"
      [] k.pc = "return" -> k.outcome
      [] k.pc \in {"marshal", "truncate", "write"} -> "changed"
      [] OTHER -> "pending"

\* The call of the directory that k is.
FileAbstract(k) ==
    IF k = Idle THEN Idle
    ELSE [op |-> k.op, user |-> k.user, password |-> k.password, result |-> ResultOf(k)]

FileCall == [c \in Calls |-> FileAbstract(call[c])]

FilePassword == PasswordOf(IF up THEN memory ELSE file)

Directory ==
    INSTANCE UserDirectory WITH
        Users    <- Usernames,
        password <- FilePassword,
        durable  <- PasswordOf(file),
        call     <- FileCall

\* The hashes of the files are made with the algorithms of the code, and so are
\* those of the provider: the validator of the configuration sees to it.
ASSUME FileAssumption ==
    /\ Idle \notin FileCalls \cup Directory!DirCalls
    /\ NoCall \notin Calls
    /\ Passwords # {} /\ NoPassword \notin Passwords
    /\ Algorithm \in Algorithms
    /\ Files \subseteq Databases

\* The provider is a UserDirectory: a password is accepted only while it is the
\* one in the map, and UpdatePassword returns no error only when the whole file
\* has been written, whatever else reads the map, fails or ends meanwhile.
FileImplementsDirectory == Directory!DirSpec

\* CheckUserPassword without an update of the same user meanwhile gives the
\* right verdict, however the hash was computed and written in the file.
VerdictIsRight ==
    \A c \in Calls :
        At(c, "compare") /\ call[c].calm =>
            LET k == call[c] IN
            CheckPassword(k.password, k.hash) <=>
                k.password = memory[k.user].password

\* Every call returns, or ends with the process: nobody keeps the lock.
FileCallsReturn == \A c \in Calls : call[c] # Idle ~> call[c] = Idle
=============================================================================
