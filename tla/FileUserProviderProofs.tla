----------------------- MODULE FileUserProviderProofs -----------------------
(***************************************************************************)
(* Proofs about FileUserProvider, for any users, passwords, databases,     *)
(* number of calls and ends of the process.                                *)
(***************************************************************************)
EXTENDS FileUserProvider, TLAPS

-----------------------------------------------------------------------------
(***************************************************************************)
(* The file user provider implements UserDirectory: every step of a call,  *)
(* and every end and start of the process, is a step of the directory or   *)
(* changes nothing there.                                                  *)
(***************************************************************************)

IsDatabase(db) == DOMAIN db \subseteq Usernames /\ \A u \in DOMAIN db : db[u] \in Hashes

\* A call does what belongs to its operation; an update has found its user in
\* the map, whose users are D, and goes on with the hash of its password.
OnTrack(k, D) ==
    /\ k.pc = "compare" => k.op = "check"
    /\ k.pc \in {"hash", "lock", "assign", "marshal", "truncate", "write"} => k.op = "update"
    /\ k.pc \in {"hash", "lock", "assign"} => k.user \in D
    /\ k.pc \in {"lock", "assign"} => k.hash = HashPassword(k.password, Algorithm)
    /\ k.pc = "return" => k.outcome # "none"

FileInv ==
    /\ up \in BOOLEAN
    /\ IsDatabase(memory) /\ IsDatabase(file)
    /\ call \in [Calls -> FileCalls \cup {Idle}]
    /\ ~up => \A c \in Calls : call[c] = Idle
    /\ \A c \in Calls : call[c] # Idle => OnTrack(call[c], DOMAIN memory)

\* A hash is of the algorithms of the code.
LEMMA HashIsTyped ==
    ASSUME NEW p \in Passwords
    PROVE  HashPassword(p, Algorithm) \in Hashes /\ HashPassword(p, Algorithm).password = p
BY FileAssumption DEF HashPassword, Hashes

\* So is what is left of one that was cut or overwritten.
LEMMA GarbledIsHash == Garbled \in Hashes
BY DEF Hashes, Garbled, Algorithms

\* A password is accepted only against a hash of it.
LEMMA CheckedPassword ==
    ASSUME NEW p \in Passwords, NEW h \in Hashes \cup {Garbled}, CheckPassword(p, h)
    PROVE  h.password = p /\ h # Garbled
<1>1. h.password = p
  BY DEF CheckPassword, HashPassword
<1> QED BY <1>1, FileAssumption DEF Garbled

\* ... and always against one without {CRYPT}, whatever its algorithm.
LEMMA CheckIsExact ==
    ASSUME NEW p, NEW h \in Hashes, ~h.crypt
    PROVE  CheckPassword(p, h) <=> p = h.password
<1>1. h = [crypt |-> h.crypt, algorithm |-> h.algorithm, password |-> h.password]
  BY DEF Hashes
<1>2. h.crypt = FALSE
  BY DEF Hashes
<1>3. p = h.password => HashPassword(p, h.algorithm) = h
  BY <1>1, <1>2 DEF HashPassword
<1>4. HashPassword(p, h.algorithm) = h => p = h.password
  BY DEF HashPassword
<1> QED BY <1>3, <1>4 DEF CheckPassword

\* The passwords of a database.
LEMMA PasswordsTyped ==
    ASSUME NEW db, IsDatabase(db)
    PROVE  PasswordOf(db) \in [Usernames -> Passwords \cup {NoPassword}]
BY DEF IsDatabase, PasswordOf, Hashes

\* In the directory only call c changes.
LEMMA FileMoves ==
    ASSUME NEW c \in Calls,
           \A d \in Calls \ {c} : FileAbstract(call'[d]) = FileAbstract(call[d])
    PROVE  /\ FileCall' = [FileCall EXCEPT ![c] = FileAbstract(call'[c])]
           /\ FileCall[c] = FileAbstract(call[c])
<1>1. FileCall' = [d \in Calls |-> FileAbstract(call'[d])]
  BY DEF FileCall, FileAbstract, ResultOf, CheckPassword, HashPassword
<1> QED BY <1>1, Zenon DEF FileCall

\* Call c becomes k.
MovesTo(c, k) ==
    /\ call' = [call EXCEPT ![c] = k]
    /\ k = Idle \/ (k \in FileCalls /\ OnTrack(k, DOMAIN memory))

\* The invariant after a step of one call, which leaves the users of the map.
LEMMA FileInvStep ==
    ASSUME FileInv, up, up' = up, NEW c \in Calls, NEW k, MovesTo(c, k),
           IsDatabase(memory'), IsDatabase(file'), DOMAIN memory' = DOMAIN memory
    PROVE  FileInv'
<1>1. call' \in [Calls -> FileCalls \cup {Idle}]
  BY DEF FileInv, MovesTo
<1>2. \A d \in Calls : call'[d] = IF d = c THEN k ELSE call[d]
  BY DEF FileInv, MovesTo
<1>3. \A d \in Calls : call'[d] # Idle => OnTrack(call'[d], DOMAIN memory')
  BY <1>2 DEF FileInv, MovesTo
<1>4. up' \in BOOLEAN /\ up'
  BY DEF FileInv
<1> QED BY <1>1, <1>3, <1>4 DEF FileInv

SameFileCall(k, l) == k.op = l.op /\ k.user = l.user /\ k.password = l.password

\* A call that goes on changes nothing but its result in the directory.
LEMMA FileResult ==
    ASSUME FileInv, NEW c \in Calls, call[c] # Idle,
           NEW k \in FileCalls, MovesTo(c, k), SameFileCall(k, call[c])
    PROVE  /\ call[c] \in FileCalls /\ OnTrack(call[c], DOMAIN memory)
           /\ FileCall' = [FileCall EXCEPT ![c].result = ResultOf(k)]
           /\ FileCall[c] # Idle
           /\ SameFileCall(FileCall[c], call[c])
           /\ FileCall[c].result = ResultOf(call[c])
           /\ ResultOf(k) = ResultOf(call[c]) => FileCall' = FileCall
<1> DEFINE dir(l, r) == [op |-> l.op, user |-> l.user, password |-> l.password, result |-> r]
<1>1. call[c] \in FileCalls /\ OnTrack(call[c], DOMAIN memory)
  BY DEF FileInv
<1>2. \A d \in Calls : call'[d] = IF d = c THEN k ELSE call[d]
  BY DEF FileInv, MovesTo
<1>3. /\ FileCall' = [FileCall EXCEPT ![c] = FileAbstract(k)]
      /\ FileCall[c] = FileAbstract(call[c])
  BY <1>2, FileMoves
<1>4. FileAbstract(k) = dir(call[c], ResultOf(k))
  BY FileAssumption DEF FileAbstract, SameFileCall
<1>5. FileAbstract(call[c]) = dir(call[c], ResultOf(call[c]))
  BY <1>1, FileAssumption DEF FileAbstract
<1>6. [FileAbstract(call[c]) EXCEPT !.result = ResultOf(k)] = FileAbstract(k)
  BY <1>4, <1>5
<1>7. FileCall' = [FileCall EXCEPT ![c].result = ResultOf(k)]
  BY <1>3, <1>6, Zenon
<1>8. FileAbstract(call[c]) # Idle
  <2>1. ResultOf(call[c]) \in Directory!Results
    BY <1>1 DEF ResultOf, Directory!Results, FileCalls, OnTrack
  <2>2. FileAbstract(call[c]) \in Directory!DirCalls
    BY <1>1, <1>5, <2>1 DEF Directory!DirCalls, FileCalls
  <2> QED BY <2>2, FileAssumption
<1>9. ResultOf(k) = ResultOf(call[c]) => FileCall' = FileCall
  <2> SUFFICES ASSUME ResultOf(k) = ResultOf(call[c]) PROVE FileCall' = FileCall
    OBVIOUS
  <2>1. FileAbstract(k) = FileCall[c]
    BY <1>3, <1>4, <1>5
  <2>2. FileCall = [d \in Calls |-> FileCall[d]]
    BY DEF FileCall
  <2> HIDE DEF dir
  <2> QED BY <1>3, <2>1, <2>2, Zenon
<1>10. SameFileCall(FileAbstract(call[c]), call[c]) /\ FileAbstract(call[c]).result = ResultOf(call[c])
  BY <1>5 DEF SameFileCall
<1>11. FileCall[c] # Idle /\ SameFileCall(FileCall[c], call[c])
       /\ FileCall[c].result = ResultOf(call[c])
  BY <1>3, <1>8, <1>10, Zenon
<1> HIDE DEF dir
<1> QED BY <1>1, <1>7, <1>9, <1>11, Zenon

FileStepOK == FileInv' /\ [Directory!DirNext]_Directory!dirVars

\* While the process runs, the directory is the map and the file.
LEMMA MapUnchanged ==
    ASSUME up, UNCHANGED <<up, memory>>
    PROVE  FilePassword' = FilePassword /\ FilePassword = PasswordOf(memory)
BY DEF FilePassword, PasswordOf

\* A step that the directory does not notice.
LEMMA FileUnnoticed ==
    ASSUME FileInv, up, NEW c \in Calls, call[c] # Idle,
           NEW k \in FileCalls, MovesTo(c, k), SameFileCall(k, call[c]),
           ResultOf(k) = ResultOf(call[c]), UNCHANGED <<up, memory, file>>
    PROVE  FileStepOK
<1>1. FileCall' = FileCall
  BY FileResult
<1>2. FileInv'
  BY FileInvStep DEF FileInv
<1>3. FilePassword' = FilePassword /\ PasswordOf(file)' = PasswordOf(file)
  BY MapUnchanged DEF PasswordOf
<1> QED BY <1>1, <1>2, <1>3 DEF FileStepOK, Directory!dirVars

\* A call that goes to its next step.
LEMMA GotoMoves ==
    ASSUME FileInv, NEW c \in Calls, call[c] # Idle, NEW pc \in FileSteps, Goto(c, pc)
    PROVE  LET k == [call[c] EXCEPT !.pc = pc] IN
           /\ call' = [call EXCEPT ![c] = k]
           /\ k \in FileCalls /\ SameFileCall(k, call[c])
           /\ k.pc = pc /\ k.hash = call[c].hash
           /\ call[c] \in FileCalls /\ OnTrack(call[c], DOMAIN memory)
<1>1. call[c] \in FileCalls /\ OnTrack(call[c], DOMAIN memory)
  BY DEF FileInv
<1>2. call' = [call EXCEPT ![c] = [call[c] EXCEPT !.pc = pc]]
  BY Zenon DEF Goto
<1> QED BY <1>1, <1>2 DEF FileCalls, SameFileCall

\* A call that is about to return.
LEMMA FinishMoves ==
    ASSUME FileInv, NEW c \in Calls, call[c] # Idle, NEW o \in {"ok", "error"}, Finish(c, o)
    PROVE  \E k \in FileCalls :
              MovesTo(c, k) /\ SameFileCall(k, call[c]) /\ ResultOf(k) = o
<1> DEFINE k == [call[c] EXCEPT !.pc = "return", !.outcome = o]
<1>1. call[c] \in FileCalls
  BY DEF FileInv
<1>2. call' = [call EXCEPT ![c] = k]
  BY Zenon DEF Finish, FileInv
<1>3. k \in FileCalls /\ SameFileCall(k, call[c]) /\ k.pc = "return" /\ k.outcome = o
  BY <1>1, Zenon DEF FileCalls, SameFileCall, FileSteps
<1> HIDE DEF k
<1>4. ResultOf(k) = o
  BY <1>3 DEF ResultOf
<1>5. OnTrack(k, DOMAIN memory)
  BY <1>3 DEF OnTrack
<1> QED BY <1>2, <1>3, <1>4, <1>5, Zenon DEF MovesTo

\* What the directory sees of a call that is about to return.
LEMMA FinishResult ==
    ASSUME FileInv, up, NEW c \in Calls, call[c] # Idle, NEW o \in {"ok", "error"},
           Finish(c, o), UNCHANGED <<up, memory>>, IsDatabase(file')
    PROVE  /\ FileInv' /\ UNCHANGED FilePassword
           /\ Directory!SetResult(c, o) /\ FileCall[c] # Idle
           /\ SameFileCall(FileCall[c], call[c]) /\ FileCall[c].result = ResultOf(call[c])
<1>1. PICK k \in FileCalls : MovesTo(c, k) /\ SameFileCall(k, call[c]) /\ ResultOf(k) = o
  BY FinishMoves
<1>2. FileInv'
  BY <1>1, FileInvStep DEF FileInv
<1>3. UNCHANGED FilePassword
  BY MapUnchanged
<1>4. /\ FileCall' = [FileCall EXCEPT ![c].result = o]
      /\ FileCall[c] # Idle /\ SameFileCall(FileCall[c], call[c])
      /\ FileCall[c].result = ResultOf(call[c])
  BY <1>1, FileResult
<1> QED BY <1>2, <1>3, <1>4 DEF Directory!SetResult

\* A call that fails, and may leave a part of what it stored.
LEMMA FileFails ==
    ASSUME FileInv, up, NEW c \in Calls, call[c] # Idle, Finish(c, "error"),
           UNCHANGED <<up, memory>>, IsDatabase(file'),
           ResultOf(call[c]) \in {"pending", "changed"},
           \/ file' = file
           \/ /\ ResultOf(call[c]) = "changed" /\ call[c].op = "update"
              /\ PasswordOf(file') \in Directory!Stores
    PROVE  FileStepOK
<1>1. /\ FileInv' /\ UNCHANGED FilePassword
      /\ Directory!SetResult(c, "error") /\ FileCall[c] # Idle
      /\ SameFileCall(FileCall[c], call[c]) /\ FileCall[c].result = ResultOf(call[c])
  BY FinishResult
<1>2. PasswordOf(file)' = PasswordOf(file')
  BY DEF PasswordOf
<1>3. \/ PasswordOf(file)' = PasswordOf(file)
      \/ Directory!Changed(c) /\ PasswordOf(file)' \in Directory!Stores
  BY <1>1, <1>2 DEF Directory!Changed, SameFileCall
<1>4. Directory!Fail(c)
  BY <1>1, <1>3 DEF Directory!Fail
<1> QED BY <1>1, <1>4 DEF FileStepOK, Directory!DirNext

-----------------------------------------------------------------------------
(***************************************************************************)
(* The steps of the calls.                                                 *)
(***************************************************************************)

\* A call begins; an update takes the calm from the other calls of its user,
\* which the directory does not see.
LEMMA BeginFileOK ==
    ASSUME FileInv, NEW c \in Calls, NEW op \in {"check", "details", "update"},
           NEW u \in Usernames, NEW p \in Passwords, BeginFile(c, op, u, p)
    PROVE  FileStepOK
<1> DEFINE k == [pc |-> "read", op |-> op, user |-> u, password |-> p,
                 hash |-> Garbled, outcome |-> "none",
                 calm |-> op # "update" /\ ~Updating(u)]
           disturbed(d) == op = "update" /\ call[d] # Idle /\ call[d].user = u
           a == [op |-> op, user |-> u, password |-> p, result |-> "pending"]
<1>1. \A d \in Calls : call'[d] = IF d = c THEN k
                                   ELSE IF disturbed(d) THEN [call[d] EXCEPT !.calm = FALSE]
                                   ELSE call[d]
  BY DEF BeginFile
<1>2. call' = [d \in Calls |-> call'[d]]
  BY DEF BeginFile
<1>3. Garbled \in Hashes
  BY GarbledIsHash
<1>4. k \in FileCalls /\ OnTrack(k, DOMAIN memory) /\ k # Idle
  <2>1. (op # "update" /\ ~Updating(u)) \in BOOLEAN
    BY Zenon
  <2>2. k \in FileCalls
    <3> DEFINE calm == op # "update" /\ ~Updating(u)
    <3>1. calm \in BOOLEAN
      BY <2>1
    <3> HIDE DEF calm
    <3> QED BY <1>3, <3>1 DEF FileCalls, FileSteps
  <2>3. OnTrack(k, DOMAIN memory)
    BY DEF OnTrack
  <2> QED BY <2>2, <2>3, FileAssumption
<1>5. FileAbstract(k) = a /\ a \in Directory!DirCalls
  BY <1>4 DEF FileAbstract, ResultOf, Directory!DirCalls, Directory!Results
<1> HIDE DEF k
<1>6. ASSUME NEW d \in Calls, d # c
      PROVE  /\ call'[d] \in FileCalls \cup {Idle}
             /\ call'[d] # Idle => OnTrack(call'[d], DOMAIN memory)
             /\ FileAbstract(call'[d]) = FileAbstract(call[d])
  <2>1. CASE disturbed(d)
    <3> DEFINE l == [call[d] EXCEPT !.calm = FALSE]
    <3>1. call'[d] = l
      BY <1>1, <1>6, <2>1
    <3>2. call[d] \in FileCalls /\ OnTrack(call[d], DOMAIN memory) /\ call[d] # Idle
      BY <2>1 DEF FileInv
    <3>3. l \in FileCalls /\ l.pc = call[d].pc /\ l.outcome = call[d].outcome
          /\ l.hash = call[d].hash /\ SameFileCall(l, call[d])
      BY <3>2, Zenon DEF FileCalls, SameFileCall
    <3>4. l # Idle
      BY <3>3, FileAssumption, Zenon
    <3> HIDE DEF l
    <3>5. OnTrack(l, DOMAIN memory)
      BY <3>2, <3>3 DEF OnTrack, SameFileCall
    <3>6. ResultOf(l) = ResultOf(call[d])
      BY <3>3 DEF ResultOf, SameFileCall
    <3>7. FileAbstract(l) = FileAbstract(call[d])
      BY <3>2, <3>3, <3>4, <3>6 DEF FileAbstract, SameFileCall
    <3> QED BY <3>1, <3>3, <3>5, <3>7, Zenon
  <2>2. CASE ~disturbed(d)
    <3>1. call'[d] = call[d]
      BY <1>1, <1>6, <2>2, Zenon
    <3>2. call[d] \in FileCalls \cup {Idle} /\ (call[d] # Idle => OnTrack(call[d], DOMAIN memory))
      BY DEF FileInv
    <3> QED BY <3>1, <3>2, Zenon
  <2> QED BY <2>1, <2>2
<1>7. call'[c] = k
  BY <1>1, Zenon
<1>8. UNCHANGED <<up, memory, file>> /\ up /\ call[c] = Idle
  BY DEF BeginFile
<1>9. FileInv'
  <2>1. call' \in [Calls -> FileCalls \cup {Idle}]
    BY <1>2, <1>4, <1>6, <1>7
  <2>2. \A d \in Calls : call'[d] # Idle => OnTrack(call'[d], DOMAIN memory)
    BY <1>4, <1>6, <1>7
  <2> QED BY <1>8, <2>1, <2>2 DEF FileInv, IsDatabase
<1>10. FileCall' = [FileCall EXCEPT ![c] = a] /\ FileCall[c] = Idle
  <2>1. FileCall' = [FileCall EXCEPT ![c] = FileAbstract(k)] /\ FileCall[c] = FileAbstract(call[c])
    BY <1>6, <1>7, FileMoves
  <2> QED BY <1>5, <1>8, <2>1, Zenon DEF FileAbstract
<1>11. UNCHANGED <<FilePassword, PasswordOf(file)>>
  BY <1>8, MapUnchanged DEF PasswordOf
<1>12. Directory!Begin(c)
  BY <1>5, <1>10, <1>11, Zenon DEF Directory!Begin
<1> QED BY <1>9, <1>12 DEF FileStepOK, Directory!DirNext

\* A call that returns.
LEMMA FileReturns ==
    ASSUME FileInv, NEW c \in Calls, At(c, "compare") \/ At(c, "return"),
           call' = [call EXCEPT ![c] = Idle], UNCHANGED <<up, memory, file>>
    PROVE  FileStepOK
<1>1. call[c] \in FileCalls /\ OnTrack(call[c], DOMAIN memory) /\ call[c] # Idle /\ up
  BY DEF FileInv, At
<1>2. ResultOf(call[c]) \in {"yes", "no", "ok", "error"}
  BY <1>1 DEF At, ResultOf, OnTrack, FileCalls
<1>3. \A d \in Calls \ {c} : FileAbstract(call'[d]) = FileAbstract(call[d])
  BY DEF FileInv
<1>4. FileAbstract(call'[c]) = Idle
  BY DEF FileAbstract, FileInv
<1>5. FileCall' = [FileCall EXCEPT ![c] = Idle] /\ FileCall[c] = FileAbstract(call[c])
  BY <1>3, <1>4, FileMoves, Zenon
<1>6. FileAbstract(call[c]).result = ResultOf(call[c]) /\ FileAbstract(call[c]) # Idle
  <2>1. FileAbstract(call[c]) \in Directory!DirCalls
    BY <1>1, <1>2 DEF FileAbstract, Directory!DirCalls, Directory!Results, FileCalls
  <2>2. FileAbstract(call[c]) # Idle
    BY <2>1, FileAssumption
  <2> QED BY <1>1, <2>2 DEF FileAbstract
<1>7. UNCHANGED <<FilePassword, PasswordOf(file)>>
  BY <1>1, MapUnchanged DEF PasswordOf
<1>8. Directory!Return(c) /\ FileCall[c] # Idle
  <2>1. FileCall[c].result \in {"yes", "no", "ok", "error"} /\ FileCall[c] # Idle
    BY <1>2, <1>5, <1>6, Zenon
  <2> QED BY <1>5, <1>7, <2>1, Zenon DEF Directory!Return
<1>9. MovesTo(c, Idle)
  BY DEF MovesTo
<1>10. FileInv'
  BY <1>1, <1>9, FileInvStep DEF FileInv
<1> QED BY <1>8, <1>10, Zenon DEF FileStepOK, Directory!DirNext

\* CheckUserPassword takes the hash h of its user, or what it sees of it while
\* it is written: the password is accepted only if it is the one in the map.
LEMMA HashIsRead ==
    ASSUME FileInv, NEW c \in Calls, At(c, "read"), call[c].op = "check",
           call[c].user \in DOMAIN memory, NEW h \in {memory[call[c].user], Garbled},
           call' = [call EXCEPT ![c].pc = "compare", ![c].hash = h],
           UNCHANGED <<up, memory, file>>
    PROVE  FileStepOK
<1> DEFINE k == [call[c] EXCEPT !.pc = "compare", !.hash = h]
           r == IF CheckPassword(call[c].password, h) THEN "yes" ELSE "no"
<1>1. call[c] \in FileCalls /\ call[c] # Idle /\ call[c].pc = "read" /\ up
  BY DEF FileInv, At
<1>2. h \in Hashes
  BY <1>1, GarbledIsHash DEF FileInv, IsDatabase
<1>3. call' = [call EXCEPT ![c] = k]
  BY Zenon DEF FileInv
<1>4. k \in FileCalls /\ SameFileCall(k, call[c]) /\ k.pc = "compare" /\ k.hash = h
  <2>1. "compare" \in FileSteps
    BY DEF FileSteps
  <2> QED BY <1>1, <1>2, <2>1, Zenon DEF FileCalls, SameFileCall
<1> HIDE DEF k
<1>5. MovesTo(c, k)
  BY <1>3, <1>4, Zenon DEF MovesTo, OnTrack, SameFileCall
<1>6. ResultOf(k) = r
  BY <1>4 DEF ResultOf, SameFileCall
<1>7. ResultOf(call[c]) = "pending"
  BY <1>1 DEF ResultOf
<1>8. /\ FileCall' = [FileCall EXCEPT ![c].result = r]
      /\ FileCall[c] # Idle /\ SameFileCall(FileCall[c], call[c])
      /\ FileCall[c].result = "pending"
  BY <1>1, <1>4, <1>5, <1>6, <1>7, FileResult
<1>9. UNCHANGED <<FilePassword, PasswordOf(file)>> /\ FilePassword = PasswordOf(memory)
  BY <1>1, MapUnchanged DEF PasswordOf
<1>10. FileInv'
  BY <1>1, <1>4, <1>5, FileInvStep DEF FileInv
<1>11. CASE CheckPassword(call[c].password, h)
  <2>1. call[c].password \in Passwords /\ call[c].user \in Usernames
    BY <1>1 DEF FileCalls
  <2>2. h.password = call[c].password /\ h # Garbled
    BY <1>2, <1>11, <2>1, CheckedPassword
  <2>3. PasswordOf(memory)[call[c].user] = call[c].password
    BY <2>1, <2>2 DEF PasswordOf
  <2>4. Directory!Accept(c)
    BY <1>8, <1>9, <1>11, <2>3 DEF Directory!Accept, Directory!SetResult, SameFileCall
  <2> QED BY <1>8, <1>10, <2>4, Zenon DEF FileStepOK, Directory!DirNext
<1>12. CASE ~CheckPassword(call[c].password, h)
  <2>1. Directory!Refuse(c)
    BY <1>8, <1>9, <1>12 DEF Directory!Refuse, Directory!SetResult, SameFileCall
  <2> QED BY <1>8, <1>10, <2>1, Zenon DEF FileStepOK, Directory!DirNext
<1> QED BY <1>11, <1>12

\* The read of the map.
LEMMA ReadMapOK ==
    ASSUME FileInv, NEW c \in Calls, ReadMap(c)
    PROVE  FileStepOK
<1> DEFINE u == call[c].user
<1>1. call[c] \in FileCalls /\ call[c] # Idle /\ call[c].pc = "read" /\ up
  BY DEF FileInv, At, ReadMap
<1>2. UNCHANGED <<up, memory, file>> /\ IsDatabase(file') /\ At(c, "read")
  BY DEF ReadMap, FileInv
<1>3. ResultOf(call[c]) = "pending"
  BY <1>1 DEF ResultOf
<1>4. CASE u \notin DOMAIN memory
  <2>1. Finish(c, "error")
    BY <1>4 DEF ReadMap
  <2> QED BY <1>1, <1>2, <1>3, <2>1, FileFails
<1>5. CASE u \in DOMAIN memory
  <2>1. PICK h \in {memory[u]} \cup {Garbled : d \in Copying(u)} :
           CASE call[c].op = "check" ->
                    call' = [call EXCEPT ![c].pc = "compare", ![c].hash = h]
             [] call[c].op = "details" -> Finish(c, "ok")
             [] call[c].op = "update" -> Goto(c, "hash")
    BY <1>5, Zenon DEF ReadMap
  <2>2. h \in {memory[u], Garbled}
    OBVIOUS
  <2>3. call[c].op \in {"check", "details", "update"}
    BY <1>1 DEF FileCalls
  <2>4. CASE call[c].op = "check"
    <3>1. call' = [call EXCEPT ![c].pc = "compare", ![c].hash = h]
      BY <2>1, <2>4
    <3> QED BY <1>2, <1>5, <2>2, <2>4, <3>1, HashIsRead, Zenon
  <2>5. CASE call[c].op = "details"
    <3>1. Finish(c, "ok")
      BY <2>1, <2>5
    <3>2. /\ FileInv' /\ UNCHANGED FilePassword
          /\ Directory!SetResult(c, "ok") /\ FileCall[c] # Idle
          /\ SameFileCall(FileCall[c], call[c]) /\ FileCall[c].result = "pending"
      BY <1>1, <1>2, <1>3, <3>1, FinishResult
    <3>3. Directory!Describe(c)
      BY <1>2, <2>5, <3>2 DEF Directory!Describe, SameFileCall, PasswordOf
    <3> QED BY <3>2, <3>3, Zenon DEF FileStepOK, Directory!DirNext
  <2>6. CASE call[c].op = "update"
    <3> DEFINE k == [call[c] EXCEPT !.pc = "hash"]
    <3>1. Goto(c, "hash") /\ "hash" \in FileSteps
      BY <2>1, <2>6 DEF FileSteps
    <3>2. call' = [call EXCEPT ![c] = k] /\ k \in FileCalls /\ SameFileCall(k, call[c])
          /\ k.pc = "hash"
      BY <1>1, <3>1, GotoMoves
    <3> HIDE DEF k
    <3>3. MovesTo(c, k) /\ ResultOf(k) = ResultOf(call[c])
      BY <1>3, <1>5, <2>6, <3>2 DEF MovesTo, OnTrack, SameFileCall, ResultOf
    <3> QED BY <1>1, <1>2, <3>2, <3>3, FileUnnoticed
  <2> QED BY <2>3, <2>4, <2>5, <2>6
<1> QED BY <1>4, <1>5

\* UpdatePassword computes the new hash.
LEMMA NewHashOK ==
    ASSUME FileInv, NEW c \in Calls, NewHash(c)
    PROVE  FileStepOK
<1> DEFINE h == HashPassword(call[c].password, Algorithm)
           k == [call[c] EXCEPT !.pc = "lock", !.hash = h]
<1>1. /\ call[c] \in FileCalls /\ call[c] # Idle /\ call[c].pc = "hash" /\ up
      /\ OnTrack(call[c], DOMAIN memory)
  BY DEF FileInv, At, NewHash
<1>2. h \in Hashes
  BY <1>1, HashIsTyped DEF FileCalls
<1> HIDE DEF h
<1>3. call' = [call EXCEPT ![c] = k]
  BY Zenon DEF FileInv, NewHash, h
<1>4. k \in FileCalls /\ SameFileCall(k, call[c]) /\ k.pc = "lock" /\ k.hash = h
  <2>1. "lock" \in FileSteps
    BY DEF FileSteps
  <2> QED BY <1>1, <1>2, <2>1, Zenon DEF FileCalls, SameFileCall
<1> HIDE DEF k
<1>5. OnTrack(k, DOMAIN memory)
  BY <1>1, <1>4 DEF OnTrack, SameFileCall, h
<1>6. MovesTo(c, k)
  BY <1>3, <1>4, <1>5 DEF MovesTo
<1>7. ResultOf(k) = ResultOf(call[c])
  BY <1>1, <1>4 DEF ResultOf
<1>8. UNCHANGED <<up, memory, file>>
  BY DEF NewHash
<1> QED BY <1>1, <1>4, <1>6, <1>7, <1>8, FileUnnoticed

\* UpdatePassword gets the lock.
LEMMA LockOK ==
    ASSUME FileInv, NEW c \in Calls, Lock(c)
    PROVE  FileStepOK
<1> DEFINE k == [call[c] EXCEPT !.pc = "assign"]
<1>1. /\ call[c] \in FileCalls /\ call[c] # Idle /\ call[c].pc = "lock" /\ up
      /\ OnTrack(call[c], DOMAIN memory) /\ Goto(c, "assign") /\ "assign" \in FileSteps
  BY DEF FileInv, At, Lock, FileSteps
<1>2. call' = [call EXCEPT ![c] = k] /\ k \in FileCalls /\ SameFileCall(k, call[c])
      /\ k.pc = "assign" /\ k.hash = call[c].hash
  BY <1>1, GotoMoves
<1> HIDE DEF k
<1>3. OnTrack(k, DOMAIN memory)
  BY <1>1, <1>2 DEF OnTrack, SameFileCall
<1>4. MovesTo(c, k) /\ ResultOf(k) = ResultOf(call[c])
  BY <1>1, <1>2, <1>3 DEF MovesTo, ResultOf
<1>5. UNCHANGED <<up, memory, file>>
  BY DEF Lock
<1> QED BY <1>1, <1>2, <1>4, <1>5, FileUnnoticed

\* The assignment to the map is the change of the password.
LEMMA AssignValueOK ==
    ASSUME FileInv, NEW c \in Calls, AssignValue(c)
    PROVE  FileStepOK
<1> DEFINE k == [call[c] EXCEPT !.pc = "marshal"]
           u == call[c].user
           p == call[c].password
<1>1. /\ call[c] \in FileCalls /\ call[c] # Idle /\ call[c].pc = "assign" /\ up
      /\ OnTrack(call[c], DOMAIN memory) /\ Goto(c, "marshal") /\ "marshal" \in FileSteps
  BY DEF FileInv, At, AssignValue, FileSteps
<1>2. /\ u \in DOMAIN memory /\ call[c].op = "update"
      /\ call[c].hash = HashPassword(p, Algorithm)
  BY <1>1 DEF OnTrack
<1>3. u \in Usernames /\ p \in Passwords
  BY <1>1 DEF FileCalls
<1>4. call[c].hash \in Hashes /\ call[c].hash.password = p
  BY <1>2, <1>3, HashIsTyped
<1>5. call' = [call EXCEPT ![c] = k] /\ k \in FileCalls /\ SameFileCall(k, call[c])
      /\ k.pc = "marshal"
  BY <1>1, GotoMoves
<1> HIDE DEF k
<1>6. MovesTo(c, k) /\ ResultOf(k) = "changed" /\ ResultOf(call[c]) = "pending"
  BY <1>1, <1>2, <1>5 DEF MovesTo, ResultOf, OnTrack, SameFileCall
<1>7. memory' = [memory EXCEPT ![u] = call[c].hash] /\ UNCHANGED <<up, file>>
  BY DEF AssignValue
<1>8. IsDatabase(memory') /\ DOMAIN memory' = DOMAIN memory
  BY <1>4, <1>7 DEF FileInv, IsDatabase
<1>9. FileInv'
  BY <1>1, <1>5, <1>6, <1>7, <1>8, FileInvStep, Zenon DEF FileInv
<1>10. /\ FileCall' = [FileCall EXCEPT ![c].result = "changed"]
       /\ FileCall[c] # Idle /\ SameFileCall(FileCall[c], call[c])
       /\ FileCall[c].result = "pending"
  BY <1>1, <1>5, <1>6, FileResult
<1>11. PasswordOf(memory') = [PasswordOf(memory) EXCEPT ![u] = p]
  BY <1>2, <1>3, <1>4, <1>7, Zenon DEF PasswordOf
<1>12. FilePassword = PasswordOf(memory) /\ FilePassword' = PasswordOf(memory')
  BY <1>1, <1>7 DEF FilePassword, PasswordOf
<1>13. PasswordOf(file)' = PasswordOf(file)
  BY <1>7 DEF PasswordOf
<1>14. FilePassword' = [FilePassword EXCEPT ![FileCall[c].user] = FileCall[c].password]
       /\ FileCall[c].op = "update"
  BY <1>2, <1>10, <1>11, <1>12 DEF SameFileCall
<1>15. Directory!Change(c)
  BY <1>10, <1>13, <1>14 DEF Directory!Change, Directory!SetResult
<1> QED BY <1>9, <1>10, <1>15, Zenon DEF FileStepOK, Directory!DirNext

\* What is left of a file that was not written to its end is a part of the map.
LEMMA PartsAreStores ==
    ASSUME FileInv, up, NEW f, f \in Parts(memory) \/ f = [u \in {} |-> Garbled]
    PROVE  IsDatabase(f) /\ PasswordOf(f) \in Directory!Stores
<1>1. /\ DOMAIN f \subseteq DOMAIN memory
      /\ \A u \in DOMAIN f : f[u] \in {memory[u], Garbled}
  BY DEF Parts
<1>2. IsDatabase(memory) /\ FilePassword = PasswordOf(memory)
  BY DEF FileInv, FilePassword
<1>3. IsDatabase(f)
  BY <1>1, <1>2, GarbledIsHash DEF IsDatabase
<1>4. PasswordOf(f) \in [Usernames -> Passwords \cup {NoPassword}]
  BY <1>3, PasswordsTyped
<1>5. Garbled.password = NoPassword
  BY DEF Garbled
<1>6. \A u \in Usernames : PasswordOf(f)[u] \in {FilePassword[u], NoPassword}
  BY <1>1, <1>2, <1>5 DEF PasswordOf
<1> QED BY <1>3, <1>4, <1>6 DEF Directory!Stores

\* yaml.Marshal and its failure.
LEMMA MarshalOK ==
    ASSUME FileInv, NEW c \in Calls, Marshal(c)
    PROVE  FileStepOK
<1> DEFINE k == [call[c] EXCEPT !.pc = "truncate"]
<1>1. /\ call[c] \in FileCalls /\ call[c] # Idle /\ call[c].pc = "marshal" /\ up
      /\ OnTrack(call[c], DOMAIN memory)
  BY DEF FileInv, At, Marshal
<1>2. UNCHANGED <<up, memory, file>> /\ IsDatabase(file')
  BY DEF Marshal, FileInv
<1>3. ResultOf(call[c]) = "changed"
  BY <1>1 DEF ResultOf
<1>4. CASE Goto(c, "truncate")
  <2>1. "truncate" \in FileSteps
    BY DEF FileSteps
  <2>2. call' = [call EXCEPT ![c] = k] /\ k \in FileCalls /\ SameFileCall(k, call[c])
        /\ k.pc = "truncate"
    BY <1>1, <1>4, <2>1, GotoMoves
  <2> HIDE DEF k
  <2>3. MovesTo(c, k) /\ ResultOf(k) = ResultOf(call[c])
    BY <1>1, <1>3, <2>2 DEF MovesTo, OnTrack, SameFileCall, ResultOf
  <2> QED BY <1>1, <1>2, <2>2, <2>3, FileUnnoticed
<1>5. CASE Finish(c, "error")
  BY <1>1, <1>2, <1>3, <1>5, FileFails
<1> QED BY <1>4, <1>5 DEF Marshal, MarshalFails

\* The file is made empty, or cannot be opened.
LEMMA TruncateOK ==
    ASSUME FileInv, NEW c \in Calls, Truncate(c)
    PROVE  FileStepOK
<1> DEFINE k == [call[c] EXCEPT !.pc = "write"]
<1>1. /\ call[c] \in FileCalls /\ call[c] # Idle /\ call[c].pc = "truncate" /\ up
      /\ OnTrack(call[c], DOMAIN memory)
  BY DEF FileInv, At, Truncate
<1>2. UNCHANGED <<up, memory>> /\ IsDatabase(file)
  BY DEF Truncate, FileInv
<1>3. ResultOf(call[c]) = "changed" /\ call[c].op = "update"
  BY <1>1 DEF ResultOf, OnTrack
<1>4. CASE Goto(c, "write") /\ file' = [u \in {} |-> Garbled]
  <2>1. "write" \in FileSteps
    BY DEF FileSteps
  <2>2. call' = [call EXCEPT ![c] = k] /\ k \in FileCalls /\ SameFileCall(k, call[c])
        /\ k.pc = "write"
    BY <1>1, <1>4, <2>1, GotoMoves
  <2> HIDE DEF k
  <2>3. MovesTo(c, k) /\ ResultOf(k) = ResultOf(call[c])
    BY <1>1, <1>3, <2>2 DEF MovesTo, OnTrack, SameFileCall, ResultOf
  <2>4. IsDatabase(file') /\ PasswordOf(file') \in Directory!Stores
    BY <1>1, <1>4, PartsAreStores
  <2>5. FileInv'
    BY <1>1, <1>2, <2>2, <2>3, <2>4, FileInvStep DEF FileInv
  <2>6. /\ FileCall' = FileCall /\ FileCall[c] # Idle
        /\ SameFileCall(FileCall[c], call[c]) /\ FileCall[c].result = ResultOf(call[c])
    BY <1>1, <2>2, <2>3, FileResult
  <2>7. UNCHANGED FilePassword /\ PasswordOf(file)' = PasswordOf(file')
    BY <1>1, <1>2, MapUnchanged DEF PasswordOf
  <2>8. Directory!Store(c)
    BY <1>3, <2>4, <2>6, <2>7 DEF Directory!Store, Directory!Changed, SameFileCall
  <2> QED BY <2>5, <2>6, <2>8, Zenon DEF FileStepOK, Directory!DirNext
<1>5. CASE Finish(c, "error") /\ file' = file
  BY <1>1, <1>2, <1>3, <1>5, FileFails
<1> QED BY <1>4, <1>5 DEF Truncate

\* The file is written, or a part of it.
LEMMA WriteOK ==
    ASSUME FileInv, NEW c \in Calls, Write(c)
    PROVE  FileStepOK
<1>1. /\ call[c] \in FileCalls /\ call[c] # Idle /\ call[c].pc = "write" /\ up
      /\ OnTrack(call[c], DOMAIN memory)
  BY DEF FileInv, At, Write
<1>2. UNCHANGED <<up, memory>> /\ IsDatabase(memory)
  BY DEF Write, FileInv
<1>3. ResultOf(call[c]) = "changed" /\ call[c].op = "update"
  BY <1>1 DEF ResultOf, OnTrack
<1>4. CASE file' = memory /\ Finish(c, "ok")
  <2>1. /\ FileInv' /\ UNCHANGED FilePassword
        /\ Directory!SetResult(c, "ok") /\ FileCall[c] # Idle
        /\ SameFileCall(FileCall[c], call[c]) /\ FileCall[c].result = ResultOf(call[c])
    BY <1>1, <1>2, <1>4, FinishResult
  <2>2. PasswordOf(file)' = FilePassword
    BY <1>1, <1>4, MapUnchanged DEF PasswordOf, FilePassword
  <2>3. Directory!Acknowledge(c)
    BY <1>3, <2>1, <2>2 DEF Directory!Acknowledge, Directory!Changed, SameFileCall
  <2> QED BY <2>1, <2>3, Zenon DEF FileStepOK, Directory!DirNext
<1>5. CASE file' \in Parts(memory) /\ Finish(c, "error")
  <2>1. IsDatabase(file') /\ PasswordOf(file') \in Directory!Stores
    BY <1>1, <1>5, PartsAreStores
  <2> QED BY <1>1, <1>2, <1>3, <1>5, <2>1, FileFails
<1> QED BY <1>4, <1>5 DEF Write, WriteFile

-----------------------------------------------------------------------------
(***************************************************************************)
(* The end and the start of the process, and the theorem.                  *)
(***************************************************************************)

\* The process ends: the directory is what the file holds, which only an update
\* in the middle of its write leaves incomplete.
LEMMA ExitOK ==
    ASSUME FileInv, up, Exit,
           \/ file' = file
           \/ file' \in Parts(memory) /\ \E c \in Calls : At(c, "write")
    PROVE  FileStepOK
<1>1. /\ ~up' /\ up' \in BOOLEAN /\ memory' = memory
      /\ call' = [c \in Calls |-> Idle]
  BY Zenon DEF Exit
<1>2. IsDatabase(file')
  BY PartsAreStores DEF FileInv
<1>3. FileInv'
  BY <1>1, <1>2 DEF FileInv
<1>4. FilePassword' = PasswordOf(file') /\ PasswordOf(file)' = PasswordOf(file')
  BY <1>1 DEF FilePassword, PasswordOf
<1>5. FileCall' = [c \in Calls |-> Idle]
  <2>1. FileCall' = [c \in Calls |-> FileAbstract(call'[c])]
    BY DEF FileCall, FileAbstract, ResultOf, CheckPassword, HashPassword
  <2>2. \A c \in Calls : FileAbstract(call'[c]) = Idle
    BY <1>1 DEF FileAbstract
  <2> QED BY <2>1, <2>2, Zenon
<1>6. \/ PasswordOf(file') = PasswordOf(file)
      \/ /\ PasswordOf(file') \in Directory!Stores
         /\ \E c \in Calls : FileCall[c] # Idle /\ Directory!Changed(c)
  <2>1. CASE file' = file
    BY <2>1
  <2>2. CASE file' \in Parts(memory) /\ \E c \in Calls : At(c, "write")
    <3>1. PICK c \in Calls : At(c, "write")
      BY <2>2
    <3>2. /\ call[c] \in FileCalls /\ call[c] # Idle /\ call[c].pc = "write"
          /\ OnTrack(call[c], DOMAIN memory)
      BY <3>1 DEF FileInv, At
    <3>3. call[c].op = "update" /\ ResultOf(call[c]) = "changed"
      BY <3>2 DEF OnTrack, ResultOf
    <3>4. FileCall[c] = FileAbstract(call[c])
      BY DEF FileCall
    <3>5. FileAbstract(call[c]).op = "update" /\ FileAbstract(call[c]).result = "changed"
          /\ FileAbstract(call[c]) \in Directory!DirCalls
      BY <3>2, <3>3 DEF FileAbstract, Directory!DirCalls, Directory!Results, FileCalls
    <3>6. FileCall[c] # Idle /\ Directory!Changed(c)
      BY <3>4, <3>5, FileAssumption DEF Directory!Changed
    <3> QED BY <2>2, <3>6, PartsAreStores
  <2> QED BY <2>1, <2>2
<1>7. Directory!Stop
  BY <1>4, <1>5, <1>6 DEF Directory!Stop
<1> QED BY <1>3, <1>7 DEF FileStepOK, Directory!DirNext

\* The process starts again: readDatabase finds the users that the file holds,
\* {CRYPT} or not.
LEMMA RestartOK ==
    ASSUME FileInv, Restart
    PROVE  FileStepOK
<1>1. /\ ~up /\ up' /\ up' \in BOOLEAN /\ memory' = checkPasswordHashes(file)
      /\ UNCHANGED <<file, call>>
  BY DEF Restart, readDatabase
<1>2. IsDatabase(checkPasswordHashes(file)) /\ DOMAIN checkPasswordHashes(file) = DOMAIN file
  BY Zenon DEF FileInv, IsDatabase, checkPasswordHashes, Hashes
<1>3. FileInv'
  BY <1>1, <1>2 DEF FileInv
<1>4. PasswordOf(checkPasswordHashes(file)) = PasswordOf(file)
  BY DEF FileInv, IsDatabase, PasswordOf, checkPasswordHashes, Hashes
<1>5. FilePassword = PasswordOf(file) /\ FilePassword' = PasswordOf(memory')
      /\ PasswordOf(file)' = PasswordOf(file)
  BY <1>1 DEF FilePassword, PasswordOf
<1>6. FileCall' = FileCall
  BY <1>1 DEF FileCall, FileAbstract, ResultOf, CheckPassword, HashPassword
<1> QED BY <1>1, <1>3, <1>4, <1>5, <1>6 DEF FileStepOK, Directory!dirVars

\* Every step of the provider is one of the directory.
LEMMA FileNextOK ==
    ASSUME FileInv, [FileNext]_fileVars
    PROVE  FileStepOK
<1>1. ASSUME NEW c \in Calls, NEW op \in {"check", "update"}, NEW u \in Usernames,
             NEW p \in Passwords, BeginFile(c, op, u, p)
      PROVE  FileStepOK
  BY <1>1, BeginFileOK
<1>2. ASSUME NEW c \in Calls, NEW u \in Usernames,
             BeginFile(c, "details", u, CHOOSE p \in Passwords : TRUE)
      PROVE  FileStepOK
  <2>1. (CHOOSE p \in Passwords : TRUE) \in Passwords
    BY FileAssumption
  <2> QED BY <1>2, <2>1, BeginFileOK
<1>3. ASSUME NEW c \in Calls, FileStep(c)
      PROVE  FileStepOK
  <2>1. CASE Compare(c)
    BY <2>1, FileReturns, Zenon DEF Compare
  <2>2. CASE ReturnFile(c)
    BY <2>2, FileReturns, Zenon DEF ReturnFile
  <2> QED BY <1>3, <2>1, <2>2, ReadMapOK, NewHashOK, LockOK, AssignValueOK,
             MarshalOK, TruncateOK, WriteOK DEF FileStep
<1>4. ASSUME NEW c \in Calls, ConcurrentMapRead(c)
      PROVE  FileStepOK
  BY <1>4, ExitOK DEF ConcurrentMapRead, At
<1>5. CASE Kill
  BY <1>5, ExitOK DEF Kill
<1>6. CASE Restart
  BY <1>6, RestartOK
<1>7. CASE UNCHANGED fileVars
  <2>1. UNCHANGED <<up, memory, file, call>>
    BY <1>7 DEF fileVars
  <2>2. FileInv'
    BY <2>1 DEF FileInv, IsDatabase
  <2>3. UNCHANGED <<FilePassword, PasswordOf(file), FileCall>>
    BY <2>1 DEF FilePassword, PasswordOf, FileCall, FileAbstract, ResultOf,
                CheckPassword, HashPassword
  <2> QED BY <2>2, <2>3 DEF FileStepOK, Directory!dirVars
<1> QED BY <1>1, <1>2, <1>3, <1>4, <1>5, <1>6, <1>7 DEF FileNext

\* The provider starts as a directory with the users of its file.
LEMMA FileInitOK == FileInit => FileInv /\ Directory!DirInit
<1> SUFFICES ASSUME FileInit PROVE FileInv /\ Directory!DirInit
  OBVIOUS
<1>1. IsDatabase(file) /\ memory = checkPasswordHashes(file) /\ up /\ up \in BOOLEAN
      /\ call = [c \in Calls |-> Idle]
  BY FileAssumption DEF FileInit, Databases, IsDatabase
<1>2. IsDatabase(checkPasswordHashes(file))
      /\ PasswordOf(checkPasswordHashes(file)) = PasswordOf(file)
  BY <1>1, Zenon DEF IsDatabase, checkPasswordHashes, PasswordOf, Hashes
<1>3. FileInv
  BY <1>1, <1>2 DEF FileInv
<1>4. FilePassword = PasswordOf(file)
  BY <1>1, <1>2 DEF FilePassword
<1>5. PasswordOf(file) \in [Usernames -> Passwords \cup {NoPassword}]
  BY <1>1, PasswordsTyped
<1>6. FileCall = [c \in Calls |-> Idle]
  BY <1>1 DEF FileCall, FileAbstract
<1> QED BY <1>3, <1>4, <1>5, <1>6 DEF Directory!DirInit

\* The file user provider is a UserDirectory for all users, passwords, calls and
\* failures: CheckUserPassword accepts only the password of the map, and
\* UpdatePassword reports success only once the file holds what the map does.
THEOREM FileRefinesDirectory == FileSpec => FileImplementsDirectory
<1>1. FileInit => FileInv /\ Directory!DirInit
  BY FileInitOK
<1>2. FileInv /\ [FileNext]_fileVars => FileInv' /\ [Directory!DirNext]_Directory!dirVars
  BY FileNextOK DEF FileStepOK
<1> QED BY <1>1, <1>2, PTL DEF FileSpec, FileImplementsDirectory, Directory!DirSpec

-----------------------------------------------------------------------------
(***************************************************************************)
(* The verdict of CheckUserPassword while nobody updates the user.         *)
(***************************************************************************)

LockSteps == {"assign", "marshal", "truncate", "write"}

\* Updating, in the calls cs.
UpdateIn(cs, u) ==
    \E c \in Calls : cs[c] # Idle /\ cs[c].op = "update" /\ cs[c].user = u

\* The hashes of the map are stripped of {CRYPT}, the lock is with an update that
\* is past Lock, and a call without an update meanwhile compares with the map.
FileVerdictInv ==
    /\ up => \A u \in DOMAIN memory : ~memory[u].crypt
    /\ lock \in Calls => call[lock] # Idle /\ call[lock].pc \in LockSteps
    /\ \A c \in Calls : call[c] # Idle /\ call[c].calm =>
          /\ call[c].op # "update"
          /\ ~UpdateIn(call, call[c].user)
          /\ call[c].pc = "compare" => /\ call[c].user \in DOMAIN memory
                                       /\ call[c].hash = memory[call[c].user]

\* The map after a step of call k, old and new.
MapStep(k, old, new) ==
    \/ new = old
    \/ /\ k.op = "update" /\ k.user \in DOMAIN old
       /\ new = [old EXCEPT ![k.user] = k.hash] /\ ~k.hash.crypt

\* A step of one call, which becomes k: it changes the map only at the user that
\* it updates, and compares with what is there.
LEMMA VerdictStep ==
    ASSUME FileInv, FileVerdictInv, up, NEW c \in Calls, call[c] # Idle, NEW k,
           call' = [call EXCEPT ![c] = k],
           k # Idle => SameFileCall(k, call[c]) /\ k.calm = call[c].calm,
           k # Idle /\ k.calm /\ k.pc = "compare" =>
              k.user \in DOMAIN memory' /\ k.hash = memory'[k.user],
           \/ lock' = NoCall
           \/ lock' = lock /\ (lock = c => k # Idle /\ k.pc \in LockSteps)
           \/ lock' = c /\ k # Idle /\ k.pc \in LockSteps,
           MapStep(call[c], memory, memory')
    PROVE  FileVerdictInv'
<1>1. \A d \in Calls : call'[d] = IF d = c THEN k ELSE call[d]
  BY DEF FileInv
<1>2. \A u \in DOMAIN memory' : ~memory'[u].crypt
  BY DEF FileVerdictInv, MapStep
<1>3. lock' \in Calls => call'[lock'] # Idle /\ call'[lock'].pc \in LockSteps
  BY <1>1, FileAssumption DEF FileVerdictInv
<1>4. \A u : UpdateIn(call', u) => UpdateIn(call, u)
  BY <1>1 DEF UpdateIn, SameFileCall
<1>5. ASSUME NEW d \in Calls, call'[d] # Idle, call'[d].calm
      PROVE  /\ call'[d].op # "update"
             /\ ~UpdateIn(call', call'[d].user)
             /\ call'[d].pc = "compare" => /\ call'[d].user \in DOMAIN memory'
                                           /\ call'[d].hash = memory'[call'[d].user]
  <2>1. CASE d = c
    <3>1. call'[d] = k /\ k # Idle /\ k.calm /\ SameFileCall(k, call[c]) /\ call[c].calm
      BY <1>1, <1>5, <2>1
    <3>2. call[c].op # "update" /\ ~UpdateIn(call, call[c].user)
      BY <3>1 DEF FileVerdictInv
    <3> QED BY <1>4, <3>1, <3>2, Zenon DEF SameFileCall
  <2>2. CASE d # c
    <3>1. call'[d] = call[d] /\ call[d] # Idle /\ call[d].calm
      BY <1>1, <1>5, <2>2
    <3>2. /\ call[d].op # "update" /\ ~UpdateIn(call, call[d].user)
          /\ call[d].pc = "compare" => /\ call[d].user \in DOMAIN memory
                                       /\ call[d].hash = memory[call[d].user]
      BY <3>1 DEF FileVerdictInv
    <3>3. call[c].op = "update" => call[c].user # call[d].user
      BY <3>2 DEF UpdateIn
    <3> QED BY <1>4, <3>1, <3>2, <3>3, Zenon DEF MapStep
  <2> QED BY <2>1, <2>2
<1> QED BY <1>2, <1>3, <1>5, Zenon DEF FileVerdictInv

\* A call that begins is calm only without an update of its user, and a new
\* update ends the calm of the others.
LEMMA VerdictBegin ==
    ASSUME FileInv, FileVerdictInv, NEW c \in Calls, NEW op, NEW u, NEW p,
           BeginFile(c, op, u, p)
    PROVE  FileVerdictInv'
<1> DEFINE k == [pc |-> "read", op |-> op, user |-> u, password |-> p,
                 hash |-> Garbled, outcome |-> "none",
                 calm |-> op # "update" /\ ~Updating(u)]
           disturbed(d) == op = "update" /\ call[d] # Idle /\ call[d].user = u
<1>1. \A d \in Calls : call'[d] = IF d = c THEN k
                                   ELSE IF disturbed(d) THEN [call[d] EXCEPT !.calm = FALSE]
                                   ELSE call[d]
  BY DEF BeginFile
<1>2. call[c] = Idle /\ UNCHANGED <<up, memory, lock>>
  BY DEF BeginFile
<1>3. /\ k.op = op /\ k.user = u /\ k.pc = "read"
      /\ k.calm = (op # "update" /\ ~UpdateIn(call, u))
  BY DEF Updating, UpdateIn
<1> HIDE DEF k
<1>4. ASSUME NEW d \in Calls, d # c, call'[d] # Idle
      PROVE  /\ call[d] # Idle /\ SameFileCall(call'[d], call[d])
             /\ call'[d].pc = call[d].pc /\ call'[d].hash = call[d].hash
             /\ call'[d].calm => call[d].calm /\ ~disturbed(d)
  <2>1. CASE disturbed(d)
    <3>1. call[d] \in FileCalls /\ call'[d] = [call[d] EXCEPT !.calm = FALSE]
      BY <1>1, <1>4, <2>1 DEF FileInv
    <3> QED BY <2>1, <3>1 DEF FileCalls, SameFileCall
  <2>2. CASE ~disturbed(d)
    BY <1>1, <1>4, <2>2, Zenon DEF SameFileCall
  <2> QED BY <2>1, <2>2
<1>5. \A v : UpdateIn(call', v) => UpdateIn(call, v) \/ (op = "update" /\ v = u)
  BY <1>1, <1>3, <1>4, Zenon DEF UpdateIn, SameFileCall
<1>6. lock' \in Calls => call'[lock'] # Idle /\ call'[lock'].pc \in LockSteps
  <2> SUFFICES ASSUME lock \in Calls
               PROVE  call'[lock] # Idle /\ call'[lock].pc \in LockSteps
    BY <1>2
  <2>1. lock # c /\ call[lock] \in FileCalls /\ call[lock].pc \in LockSteps
    BY <1>2 DEF FileVerdictInv, FileInv
  <2>2. call'[lock] \in FileCalls /\ call'[lock].pc = call[lock].pc
    BY <1>1, <2>1, Zenon DEF FileCalls
  <2> QED BY <2>1, <2>2, FileAssumption
<1>7. ASSUME NEW d \in Calls, call'[d] # Idle, call'[d].calm
      PROVE  /\ call'[d].op # "update"
             /\ ~UpdateIn(call', call'[d].user)
             /\ call'[d].pc = "compare" => /\ call'[d].user \in DOMAIN memory'
                                           /\ call'[d].hash = memory'[call'[d].user]
  <2>1. CASE d = c
    <3>1. call'[d] = k
      BY <1>1, <2>1, Zenon
    <3> QED BY <1>3, <1>5, <1>7, <3>1, Zenon
  <2>2. CASE d # c
    <3>1. /\ call[d] # Idle /\ SameFileCall(call'[d], call[d])
          /\ call'[d].pc = call[d].pc /\ call'[d].hash = call[d].hash
          /\ call[d].calm /\ ~disturbed(d)
      BY <1>4, <1>7, <2>2
    <3>2. /\ call[d].op # "update" /\ ~UpdateIn(call, call[d].user)
          /\ call[d].pc = "compare" => /\ call[d].user \in DOMAIN memory
                                       /\ call[d].hash = memory[call[d].user]
      BY <3>1 DEF FileVerdictInv
    <3> QED BY <1>2, <1>5, <3>1, <3>2 DEF SameFileCall
  <2> QED BY <2>1, <2>2
<1> QED BY <1>2, <1>6, <1>7 DEF FileVerdictInv

\* A call that is about to return gives up the lock, if it has it.
LEMMA VerdictFinish ==
    ASSUME FileInv, FileVerdictInv, up, NEW c \in Calls, call[c] # Idle,
           NEW o, Finish(c, o), memory' = memory,
           lock' = NoCall \/ (lock' = lock /\ call[c].pc \notin LockSteps)
    PROVE  FileVerdictInv'
<1> DEFINE k == [call[c] EXCEPT !.pc = "return", !.outcome = o]
<1>1. call[c] \in FileCalls
  BY DEF FileInv
<1>2. call' = [call EXCEPT ![c] = k]
  BY Zenon DEF Finish, FileInv
<1>3. SameFileCall(k, call[c]) /\ k.pc = "return" /\ k.calm = call[c].calm
  BY <1>1 DEF FileCalls, SameFileCall
<1> HIDE DEF k
<1>4. lock' = NoCall \/ (lock' = lock /\ lock # c)
  BY DEF FileVerdictInv
<1>5. MapStep(call[c], memory, memory')
  BY DEF MapStep
<1> QED BY <1>2, <1>3, <1>4, <1>5, VerdictStep, Zenon

\* The same for a call that goes on.
LEMMA VerdictGoto ==
    ASSUME FileInv, FileVerdictInv, up, NEW c \in Calls, call[c] # Idle,
           NEW pc \in FileSteps \ {"compare"}, Goto(c, pc),
           MapStep(call[c], memory, memory'),
           \/ pc \in LockSteps /\ lock' \in {lock, c}
           \/ call[c].pc \notin LockSteps /\ lock' = lock
    PROVE  FileVerdictInv'
<1> DEFINE k == [call[c] EXCEPT !.pc = pc]
<1>1. /\ call' = [call EXCEPT ![c] = k] /\ k \in FileCalls
      /\ SameFileCall(k, call[c]) /\ k.pc = pc /\ call[c] \in FileCalls
  BY GotoMoves
<1>2. k.calm = call[c].calm /\ k # Idle
  BY <1>1, FileAssumption DEF FileCalls
<1> HIDE DEF k
<1>3. \/ lock' = lock /\ (lock = c => k # Idle /\ k.pc \in LockSteps)
      \/ lock' = c /\ k # Idle /\ k.pc \in LockSteps
  BY <1>1, <1>2 DEF FileVerdictInv
<1> QED BY <1>1, <1>2, <1>3, VerdictStep, Zenon

\* The map is read: a calm call meets no copy of the value of its user.
LEMMA VerdictRead ==
    ASSUME FileInv, FileVerdictInv, NEW c \in Calls, ReadMap(c)
    PROVE  FileVerdictInv'
<1> DEFINE u == call[c].user
<1>1. /\ call[c] \in FileCalls /\ call[c] # Idle /\ call[c].pc = "read" /\ up
      /\ UNCHANGED <<up, memory, lock>> /\ call[c].pc \notin LockSteps
  BY DEF FileInv, At, ReadMap, LockSteps
<1>2. MapStep(call[c], memory, memory')
  BY <1>1 DEF MapStep
<1>3. CASE u \notin DOMAIN memory
  <2>1. Finish(c, "error")
    BY <1>3 DEF ReadMap
  <2> QED BY <1>1, <2>1, VerdictFinish
<1>4. CASE u \in DOMAIN memory
  <2>1. PICK h \in {memory[u]} \cup {Garbled : d \in Copying(u)} :
           CASE call[c].op = "check" ->
                    call' = [call EXCEPT ![c].pc = "compare", ![c].hash = h]
             [] call[c].op = "details" -> Finish(c, "ok")
             [] call[c].op = "update" -> Goto(c, "hash")
    BY <1>4, Zenon DEF ReadMap
  <2>2. call[c].op \in {"check", "details", "update"}
    BY <1>1 DEF FileCalls
  <2>3. CASE call[c].op = "check"
    <3> DEFINE k == [call[c] EXCEPT !.pc = "compare", !.hash = h]
    <3>1. call' = [call EXCEPT ![c] = k]
      BY <2>1, <2>3, Zenon DEF FileInv
    <3>2. SameFileCall(k, call[c]) /\ k.hash = h /\ k.calm = call[c].calm
      BY <1>1 DEF FileCalls, SameFileCall
    <3> HIDE DEF k
    <3>3. call[c].calm => Copying(u) = {}
      <4> SUFFICES ASSUME call[c].calm, NEW d \in Copying(u) PROVE FALSE
        OBVIOUS
      <4>1. d \in Calls /\ lock = d /\ call[d].user = u
        BY DEF Copying
      <4>2. call[d] # Idle /\ call[d].pc \in LockSteps
        BY <4>1 DEF FileVerdictInv
      <4>3. call[d].op = "update"
        BY <4>1, <4>2 DEF FileInv, OnTrack, LockSteps
      <4>4. ~UpdateIn(call, u)
        BY <1>1 DEF FileVerdictInv
      <4> QED BY <4>1, <4>2, <4>3, <4>4 DEF UpdateIn
    <3>4. k # Idle /\ k.calm /\ k.pc = "compare" =>
             k.user \in DOMAIN memory' /\ k.hash = memory'[k.user]
      BY <1>1, <1>4, <3>2, <3>3 DEF SameFileCall
    <3>5. lock # c
      BY <1>1 DEF FileVerdictInv
    <3> QED BY <1>1, <1>2, <3>1, <3>2, <3>4, <3>5, VerdictStep, Zenon
  <2>4. CASE call[c].op = "details"
    <3>1. Finish(c, "ok")
      BY <2>1, <2>4
    <3> QED BY <1>1, <3>1, VerdictFinish
  <2>5. CASE call[c].op = "update"
    <3>1. Goto(c, "hash") /\ "hash" \in FileSteps \ {"compare"}
      BY <2>1, <2>5 DEF FileSteps
    <3> QED BY <1>1, <1>2, <3>1, VerdictGoto
  <2> QED BY <2>2, <2>3, <2>4, <2>5
<1> QED BY <1>3, <1>4

\* The other steps of a call.
LEMMA VerdictFileStep ==
    ASSUME FileInv, FileVerdictInv, NEW c \in Calls, FileStep(c)
    PROVE  FileVerdictInv'
<1>1. /\ call[c] \in FileCalls /\ call[c] # Idle /\ up
      /\ OnTrack(call[c], DOMAIN memory)
  BY Zenon DEF FileStep, ReadMap, Compare, NewHash, Lock, AssignValue, Marshal, Truncate, Write,
         ReturnFile, At, FileInv
<1>2. memory' = memory => MapStep(call[c], memory, memory')
  BY DEF MapStep
<1>3. CASE ReadMap(c)
  BY <1>3, VerdictRead
<1>4. CASE Compare(c) \/ ReturnFile(c)
  <2>1. /\ call' = [call EXCEPT ![c] = Idle] /\ UNCHANGED <<memory, lock>>
        /\ call[c].pc \notin LockSteps
    BY <1>4 DEF Compare, ReturnFile, At, LockSteps
  <2>2. lock # c
    BY <2>1 DEF FileVerdictInv
  <2> QED BY <1>1, <1>2, <2>1, <2>2, VerdictStep, Zenon
<1>5. CASE NewHash(c)
  <2> DEFINE h == HashPassword(call[c].password, Algorithm)
             k == [call[c] EXCEPT !.pc = "lock", !.hash = h]
  <2>1. call' = [call EXCEPT ![c] = k] /\ UNCHANGED <<memory, lock>> /\ call[c].pc = "hash"
    BY <1>5, Zenon DEF NewHash, At, FileInv
  <2> HIDE DEF h
  <2>2. SameFileCall(k, call[c]) /\ k.pc = "lock" /\ k.calm = call[c].calm
    BY <1>1 DEF FileCalls, SameFileCall
  <2> HIDE DEF k
  <2>3. lock # c
    BY <2>1 DEF FileVerdictInv, LockSteps
  <2> QED BY <1>1, <1>2, <2>1, <2>2, <2>3, VerdictStep, Zenon
<1>6. CASE Lock(c)
  <2>1. /\ Goto(c, "assign") /\ memory' = memory /\ lock' = c
        /\ "assign" \in FileSteps \ {"compare"} /\ "assign" \in LockSteps
    BY <1>6 DEF Lock, FileSteps, LockSteps
  <2> QED BY <1>1, <1>2, <2>1, VerdictGoto
<1>7. CASE AssignValue(c)
  <2>1. /\ Goto(c, "marshal") /\ lock' = lock /\ call[c].pc = "assign"
        /\ memory' = [memory EXCEPT ![call[c].user] = call[c].hash]
        /\ "marshal" \in FileSteps \ {"compare"} /\ "marshal" \in LockSteps
    BY <1>7 DEF AssignValue, At, FileSteps, LockSteps
  <2>2. /\ call[c].op = "update" /\ call[c].user \in DOMAIN memory
        /\ call[c].hash = HashPassword(call[c].password, Algorithm)
    BY <1>1, <2>1 DEF OnTrack
  <2>3. MapStep(call[c], memory, memory')
    BY <2>1, <2>2 DEF MapStep, HashPassword
  <2> QED BY <1>1, <2>1, <2>3, VerdictGoto, Zenon
<1>8. CASE Marshal(c)
  <2>1. "truncate" \in FileSteps \ {"compare"} /\ "truncate" \in LockSteps /\ memory' = memory
    BY <1>8 DEF Marshal, FileSteps, LockSteps
  <2>2. CASE Goto(c, "truncate") /\ lock' = lock
    BY <1>1, <1>2, <2>1, <2>2, VerdictGoto
  <2>3. CASE MarshalFails(c)
    BY <1>1, <2>1, <2>3, VerdictFinish DEF MarshalFails
  <2> QED BY <1>8, <2>2, <2>3 DEF Marshal
<1>9. CASE Truncate(c)
  <2>1. "write" \in FileSteps \ {"compare"} /\ "write" \in LockSteps /\ memory' = memory
    BY <1>9 DEF Truncate, FileSteps, LockSteps
  <2>2. CASE Goto(c, "write") /\ lock' = lock
    BY <1>1, <1>2, <2>1, <2>2, VerdictGoto
  <2>3. CASE Finish(c, "error") /\ lock' = NoCall
    BY <1>1, <2>1, <2>3, VerdictFinish
  <2> QED BY <1>9, <2>2, <2>3 DEF Truncate
<1>10. CASE Write(c)
  <2>1. memory' = memory /\ lock' = NoCall /\ (Finish(c, "ok") \/ Finish(c, "error"))
    BY <1>10 DEF Write
  <2> QED BY <1>1, <2>1, VerdictFinish
<1> QED BY <1>3, <1>4, <1>5, <1>6, <1>7, <1>8, <1>9, <1>10 DEF FileStep

\* The invariant is kept by the calls and by the ends and starts of the process.
LEMMA VerdictNext ==
    ASSUME FileInv, FileVerdictInv, [FileNext]_fileVars
    PROVE  FileVerdictInv'
<1>1. ASSUME NEW c \in Calls, NEW op, NEW u, NEW p, BeginFile(c, op, u, p)
      PROVE  FileVerdictInv'
  BY <1>1, VerdictBegin
<1>2. CASE \E c \in Calls : FileStep(c)
  BY <1>2, VerdictFileStep
<1>3. CASE Exit
  BY <1>3, FileAssumption DEF Exit, FileVerdictInv
<1>4. CASE Restart
  <2>1. ~up /\ memory' = checkPasswordHashes(file) /\ UNCHANGED <<lock, call>>
    BY <1>4 DEF Restart, readDatabase
  <2>2. \A c \in Calls : call[c] = Idle
    BY <2>1 DEF FileInv
  <2>3. \A u \in DOMAIN memory' : ~memory'[u].crypt
    BY <2>1 DEF checkPasswordHashes, FileInv, IsDatabase, Hashes
  <2> QED BY <2>1, <2>2, <2>3 DEF FileVerdictInv
<1>5. CASE UNCHANGED fileVars
  BY <1>5 DEF fileVars, FileVerdictInv
<1> QED BY <1>1, <1>2, <1>3, <1>4, <1>5 DEF FileNext, ConcurrentMapRead, Kill

\* For all users, passwords, calls and failures, CheckUserPassword without an
\* update of the same user meanwhile gives the right verdict.
THEOREM VerdictsAreRight == FileSpec => []VerdictIsRight
<1>1. FileInit => FileInv
  BY FileInitOK
<1>2. FileInv /\ [FileNext]_fileVars => FileInv'
  BY FileNextOK DEF FileStepOK
<1>3. FileInit => FileVerdictInv
  <2> SUFFICES ASSUME FileInit PROVE FileVerdictInv
    OBVIOUS
  <2>1. \A u \in DOMAIN memory : ~memory[u].crypt
    BY <1>1 DEF FileInit, checkPasswordHashes, FileInv, IsDatabase, Hashes
  <2> QED BY <2>1, FileAssumption DEF FileInit, FileVerdictInv
<1>4. FileInv /\ FileVerdictInv /\ [FileNext]_fileVars => FileVerdictInv'
  BY VerdictNext
<1>5. FileInv /\ FileVerdictInv => VerdictIsRight
  <2> SUFFICES ASSUME FileInv, FileVerdictInv, NEW c \in Calls, At(c, "compare"), call[c].calm
               PROVE  CheckPassword(call[c].password, call[c].hash) <=>
                         call[c].password = memory[call[c].user].password
    BY DEF VerdictIsRight
  <2>1. call[c].user \in DOMAIN memory /\ call[c].hash = memory[call[c].user] /\ up
    BY DEF At, FileVerdictInv
  <2>2. call[c].hash \in Hashes /\ ~call[c].hash.crypt
    BY <2>1 DEF FileInv, IsDatabase, FileVerdictInv
  <2> QED BY <2>1, <2>2, CheckIsExact
<1> QED BY <1>1, <1>2, <1>3, <1>4, <1>5, PTL DEF FileSpec
=============================================================================
