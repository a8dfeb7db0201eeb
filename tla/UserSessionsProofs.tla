------------------------- MODULE UserSessionsProofs -------------------------
(***************************************************************************)
(* Proofs about UserSessions, for any sets of users, ids and requests.     *)
(***************************************************************************)
EXTENDS UserSessions, TLAPS

\* The handlers that raise the level of a session.
Elevates(h) == h \in {"FirstFactorPost", "TOTPPost", "DuoPost", "U2FSignPost"}

\* The session of somebody who has none.
LEMMA DefaultTyped ==
    /\ NewDefaultUserSession \in UserSession
    /\ NewDefaultUserSession.username = NoUser
    /\ NewDefaultUserSession.level = 0
    /\ NewDefaultUserSession.registration = NoUser
  BY DEF NewDefaultUserSession, UserSession, Levels, NotAuthenticated, TwoFactor

\* GetSession returns a session whatever the id.
LEMMA GetTyped ==
    ASSUME TypeOK, NEW id \in SessionIds \cup {NoId}
    PROVE  GetSession(id) \in UserSession
  BY DefaultTyped DEF GetSession, TypeOK

\* What the handlers write: a session, of the same user and level unless the
\* handler raises it.
LEMMA UpdateTyped ==
    ASSUME NEW s \in UserSession, NEW h \in AllHandlers,
           NEW u \in Users \cup {NoUser}
    PROVE  /\ Update(h, s, u) \in UserSession
           /\ ~Elevates(h) => /\ Update(h, s, u).username = s.username
                              /\ Update(h, s, u).level = s.level
  <1> USE DEF UserSession, Levels, NotAuthenticated, OneFactor, TwoFactor
  <1>1. CASE h = "FirstFactorPost"
    <2>1. Update(h, s, u) = SetOneFactor(s, u)
      BY <1>1 DEF Update, FirstFactorPost
    <2>2. SetOneFactor(s, u) \in UserSession
      <3>1. 1 \in Levels
        OBVIOUS
      <3>2. [s EXCEPT !.username = u] \in UserSession
        OBVIOUS
      <3>3. [[s EXCEPT !.username = u] EXCEPT !.level = 1] \in UserSession
        BY Zenon, <3>1, <3>2
      <3> QED
        BY <3>3 DEF SetOneFactor
    <2> QED
      BY <1>1, <2>1, <2>2 DEF Elevates
  <1>2. CASE h \in {"TOTPPost", "DuoPost", "U2FSignPost"}
    <2>1. Update(h, s, u) = SetTwoFactor(s)
      BY <1>2 DEF Update, SecondFactorTOTPPost, SecondFactorDuoPost,
                  SecondFactorU2FSignPost
    <2>2. SetTwoFactor(s) \in UserSession
      BY DEF SetTwoFactor
    <2> QED
      BY <1>2, <2>1, <2>2 DEF Elevates
  <1>3. CASE h = "U2FSignGet"
    BY Zenon, <1>3 DEF Update, SecondFactorU2FSignGet
  <1>4. CASE h = "U2FIdentityFinish"
    BY Zenon, <1>4 DEF Update, SecondFactorU2FIdentityFinish
  <1>5. CASE h = "U2FRegister"
    BY Zenon, <1>5 DEF Update, SecondFactorU2FRegister
  <1>6. CASE h = "ResetPasswordIdentityFinish"
    BY <1>6 DEF Update, resetPasswordIdentityFinish
  <1>7. CASE h = "ResetPasswordPost"
    BY <1>7 DEF Update, ResetPasswordPost
  <1>8. CASE h \in {"VerifyGet", "LogoutPost"}
    BY Zenon, <1>8 DEF Update
  <1> QED
    BY <1>1, <1>2, <1>3, <1>4, <1>5, <1>6, <1>7, <1>8 DEF AllHandlers

\* The privilege of a session, or of none, is one.
LEMMA PrivilegeTyped ==
    ASSUME NEW s \in UserSession \cup {Absent}
    PROVE  Privilege(s) \in Privileges
  BY DEF Privilege, Privileges, UserSession, Levels, NotAuthenticated, TwoFactor

\* The handlers go to steps there are.
LEMMA StepsTyped ==
    ASSUME NEW h \in AllHandlers, NEW s \in UserSession
    PROVE  /\ FirstStep(h) \in Steps
           /\ StepsAfterGet(h, s) \subseteq Steps
  BY DEF AllHandlers, FirstStep, RequiresFirstFactor, StepsAfterGet, Steps

\* Saving a session keeps the types of what it changes.
LEMMA SaveTyped ==
    ASSUME TypeOK, NEW r \in Requests, NEW s \in UserSession, SaveSession(r, s)
    PROVE  /\ store' \in [SessionIds -> UserSession \cup {Absent}]
           /\ used' \subseteq SessionIds
           /\ sid' \in [Requests -> SessionIds \cup {NoId}]
  BY DEF TypeOK, SaveSession, Fresh

\* Only ids die.
LEMMA BuryTyped ==
    ASSUME TypeOK, NEW r \in Requests, Bury(r)
    PROVE  dead' \subseteq SessionIds
  BY DEF TypeOK, Bury

-----------------------------------------------------------------------------
(***************************************************************************)
(* Type correctness.                                                       *)
(***************************************************************************)

\* The types at the start.
LEMMA TypeInit == Init => TypeOK
  BY DefaultTyped DEF Init, TypeOK, AllHandlers, Steps

\* The types after every step.
LEMMA TypeStep == TypeOK /\ [Next]_vars => TypeOK'
  <1> SUFFICES ASSUME TypeOK, [Next]_vars PROVE TypeOK'
    OBVIOUS
  <1>1. ASSUME NEW r \in Requests, NEW h \in Handlers, NEW u \in Users,
               Receive(r, h, u)
        PROVE  TypeOK'
    <2>1. Privilege(Absent) \in Privileges
      BY PrivilegeTyped
    <2>2. h \in AllHandlers /\ FirstStep(h) \in Steps
      BY StepsTyped, DefaultTyped, SessionsAssumption
    <2> QED
      BY <1>1, <2>1, <2>2 DEF TypeOK, Receive, Fresh
  <1>2. ASSUME NEW r \in Requests, RequireFirstFactor(r) PROVE TypeOK'
    BY <1>2 DEF TypeOK, RequireFirstFactor, Steps
  <1>3. ASSUME NEW r \in Requests, IsTokenUserValid(r) PROVE TypeOK'
    BY <1>3 DEF TypeOK, IsTokenUserValid, Steps
  <1>4. ASSUME NEW r \in Requests, Get(r) PROVE TypeOK'
    <2>1. PICK s \in {GetSession(sid[r]), NewDefaultUserSession} :
             /\ copy' = [copy EXCEPT ![r] = s]
             /\ \E next \in StepsAfterGet(handler[r], s) :
                    pc' = [pc EXCEPT ![r] = next]
      BY Zenon, <1>4 DEF Get
    <2>2. s \in UserSession
      BY GetTyped, DefaultTyped DEF TypeOK
    <2>3. StepsAfterGet(handler[r], s) \subseteq Steps
      BY <2>2, StepsTyped DEF TypeOK
    <2> QED
      BY <1>4, <2>1, <2>2, <2>3 DEF TypeOK, Get
  <1>5. ASSUME NEW r \in Requests, Reset(r) PROVE TypeOK'
    BY <1>5, DefaultTyped, SaveTyped DEF TypeOK, Reset, Steps
  <1>6. ASSUME NEW r \in Requests, Regenerate(r) PROVE TypeOK'
    BY <1>6, BuryTyped DEF TypeOK, Regenerate, RegenerateSession, Fresh, Steps
  <1>7. ASSUME NEW r \in Requests, Save(r) PROVE TypeOK'
    <2>1. Update(handler[r], copy[r], user[r]) \in UserSession
      BY UpdateTyped DEF TypeOK
    <2> QED
      BY <1>7, <2>1, SaveTyped DEF TypeOK, Save, Steps
  <1>8. ASSUME NEW r \in Requests, Destroy(r) PROVE TypeOK'
    BY <1>8, BuryTyped DEF TypeOK, Destroy, DestroySession, Steps
  <1>9. ASSUME NEW r \in Requests, GoOn(r) PROVE TypeOK'
    BY <1>9 DEF TypeOK, GoOn, Steps
  <1>10. ASSUME NEW r \in Requests, Touch(r) PROVE TypeOK'
    BY <1>10, GetTyped DEF TypeOK, Touch, Steps
  <1>11. ASSUME NEW r \in Requests, Mark(r) PROVE TypeOK'
    BY <1>11, SaveTyped DEF TypeOK, Mark, Steps
  <1>12. ASSUME NEW r \in Requests, Abort(r) PROVE TypeOK'
    BY <1>12 DEF TypeOK, Abort, Steps
  <1>13. ASSUME NEW r \in Requests, Respond(r) PROVE TypeOK'
    <2>1. sid[r] # NoId => Privilege(store[sid[r]]) \in Privileges
      BY PrivilegeTyped DEF TypeOK
    <2> QED
      BY <1>13, <2>1, DefaultTyped DEF TypeOK, Respond, Steps, AllHandlers
  <1>14. ASSUME NEW id \in SessionIds, Expire(id) PROVE TypeOK'
    BY <1>14 DEF TypeOK, Expire
  <1>15. CASE UNCHANGED vars
    BY <1>15 DEF TypeOK, vars
  <1> QED
    BY <1>1, <1>2, <1>3, <1>4, <1>5, <1>6, <1>7, <1>8, <1>9, <1>10, <1>11,
       <1>12, <1>13, <1>14, <1>15 DEF Next, Handle

\* Type correctness: whatever the handlers interleave, the store holds sessions
\* of known users and levels.
THEOREM TypeCorrect == Spec => []TypeOK
  BY TypeInit, TypeStep, PTL DEF Spec

-----------------------------------------------------------------------------
(***************************************************************************)
(* An id a client has never gains.  The session under an id is written by  *)
(* requests that read it earlier, so the invariant speaks of their copies; *)
(* a request that raises the level writes to an id nobody else has.        *)
(***************************************************************************)

FreshIdsUnknown ==
    \A id \in SessionIds \ used :
        /\ store[id] = Absent
        /\ issued[id] = Absent
        /\ id \notin dead
        /\ \A r \in Requests : sid[r] # id

\* Only ids that were handed out are shared.
UnissuedIdsUnshared ==
    \A q, r \in Requests :
        q # r /\ sid[q] = sid[r] /\ sid[r] # NoId => issued[sid[r]] # Absent

\* The next call of r writes its copy back under the id it was read from.
WritesBack(r) ==
    pc[r] = "mark" \/ (pc[r] = "save" /\ ~Elevates(handler[r]))

WritesHigher(r) == pc[r] = "save" /\ Elevates(handler[r])

StepsFollowHandlers ==
    \A r \in Requests :
        pc[r] \in {"reset", "regenerate"} => Elevates(handler[r])

CopiesWithin ==
    \A r \in Requests :
        /\ WritesBack(r) /\ sid[r] # NoId /\ issued[sid[r]] # Absent =>
              Within(copy[r], issued[sid[r]])
        /\ WritesHigher(r) => sid[r] # NoId /\ issued[sid[r]] = Absent

PrivilegeInv ==
    /\ TypeOK
    /\ FreshIdsUnknown
    /\ UnissuedIdsUnshared
    /\ StepsFollowHandlers
    /\ CopiesWithin
    /\ NoPrivilegeGain

\* The default session is within every privilege.
LEMMA DefaultWithin ==
    ASSUME NEW p \in Privileges
    PROVE  Within(NewDefaultUserSession, p)
  BY DefaultTyped DEF Within, Privileges, Levels, NotAuthenticated, TwoFactor

\* What GetSession returns is within what the id was handed out with.
LEMMA GetWithin ==
    ASSUME PrivilegeInv, NEW id \in SessionIds, issued[id] # Absent
    PROVE  Within(GetSession(id), issued[id])
  <1>1. issued[id] \in Privileges
    BY DEF PrivilegeInv, TypeOK
  <1> QED
    BY <1>1, DefaultWithin DEF PrivilegeInv, NoPrivilegeGain, GetSession

\* A step that only moves r on.
LEMMA MoveKeepsPrivilegeInv ==
    ASSUME PrivilegeInv, TypeOK', NEW r \in Requests,
           NEW p \in Steps \ {"reset", "regenerate", "save", "mark"},
           pc' = [pc EXCEPT ![r] = p],
           UNCHANGED <<store, used, handler, user, sid, copy, issued, dead>>
    PROVE  PrivilegeInv'
  <1> USE DEF PrivilegeInv
  <1>1. FreshIdsUnknown'
    BY DEF FreshIdsUnknown
  <1>2. UnissuedIdsUnshared'
    BY DEF UnissuedIdsUnshared
  <1>3. StepsFollowHandlers'
    BY DEF StepsFollowHandlers, TypeOK
  <1>4. CopiesWithin'
    BY DEF CopiesWithin, WritesBack, WritesHigher, TypeOK
  <1>5. NoPrivilegeGain'
    BY DEF NoPrivilegeGain
  <1> QED
    BY <1>1, <1>2, <1>3, <1>4, <1>5

\* A step that saves a session the id of the context may hold.
LEMMA SaveKeepsPrivilegeInv ==
    ASSUME PrivilegeInv, TypeOK', NEW r \in Requests, NEW s \in UserSession,
           NEW p \in Steps \ {"reset", "save", "mark"},
           p = "regenerate" => Elevates(handler[r]),
           SaveSession(r, s),
           sid[r] # NoId /\ issued[sid[r]] # Absent => Within(s, issued[sid[r]]),
           pc' = [pc EXCEPT ![r] = p],
           UNCHANGED <<handler, user, copy, issued, dead>>
    PROVE  PrivilegeInv'
  <1> USE DEF PrivilegeInv
  <1>1. FreshIdsUnknown'
    BY DEF FreshIdsUnknown, SaveSession, Fresh, TypeOK
  <1>2. UnissuedIdsUnshared'
    BY DEF UnissuedIdsUnshared, FreshIdsUnknown, SaveSession, Fresh, TypeOK
  <1>3. StepsFollowHandlers'
    BY DEF StepsFollowHandlers, TypeOK
  <1>4. CopiesWithin'
    BY DEF CopiesWithin, WritesBack, WritesHigher, SaveSession, TypeOK
  <1>5. NoPrivilegeGain'
    BY DEF NoPrivilegeGain, FreshIdsUnknown, SaveSession, Fresh, TypeOK
  <1> QED
    BY <1>1, <1>2, <1>3, <1>4, <1>5

\* At the start no session has a privilege.
LEMMA PrivilegeInit == Init => PrivilegeInv
  <1> SUFFICES ASSUME Init PROVE PrivilegeInv
    OBVIOUS
  <1>1. TypeOK
    BY TypeInit
  <1> QED
    BY <1>1, SessionsAssumption
    DEF Init, PrivilegeInv, FreshIdsUnknown, UnissuedIdsUnshared,
        StepsFollowHandlers, CopiesWithin, WritesBack, WritesHigher,
        NoPrivilegeGain

\* Every step keeps the copies and the store within the privileges handed out.
LEMMA PrivilegeStep == PrivilegeInv /\ [Next]_vars => PrivilegeInv'
  <1> SUFFICES ASSUME PrivilegeInv, [Next]_vars PROVE PrivilegeInv'
    OBVIOUS
  <1>t. TypeOK /\ TypeOK'
    BY TypeStep DEF PrivilegeInv
  <1>1. ASSUME NEW r \in Requests, NEW h \in Handlers, NEW u \in Users,
               Receive(r, h, u)
        PROVE  PrivilegeInv'
    <2> USE <1>1, <1>t DEF PrivilegeInv, Receive
    <2>p. Privilege(Absent) \in Privileges /\ Privilege(Absent) # Absent
      BY PrivilegeTyped, SessionsAssumption
    <2>s. FirstStep(h) \notin {"reset", "regenerate", "save", "mark"}
      BY DEF FirstStep, RequiresFirstFactor
    <2>1. FreshIdsUnknown'
      BY DEF FreshIdsUnknown, Fresh, TypeOK
    <2>2. UnissuedIdsUnshared'
      BY <2>p DEF UnissuedIdsUnshared, FreshIdsUnknown, Fresh, TypeOK
    <2>3. StepsFollowHandlers'
      BY <2>s DEF StepsFollowHandlers, TypeOK
    <2>4. CopiesWithin'
      <3>1. \A q \in Requests \ {r} :
               sid[q] # NoId => issued'[sid[q]] = issued[sid[q]]
        BY DEF FreshIdsUnknown, Fresh, TypeOK
      <3> QED
        BY <2>s, <3>1 DEF CopiesWithin, WritesBack, WritesHigher, TypeOK
    <2>5. NoPrivilegeGain'
      BY DEF NoPrivilegeGain, FreshIdsUnknown, Fresh, TypeOK
    <2> QED
      BY <2>1, <2>2, <2>3, <2>4, <2>5
  <1>2. ASSUME NEW r \in Requests, RequireFirstFactor(r) PROVE PrivilegeInv'
    BY Zenon, <1>2, <1>t, MoveKeepsPrivilegeInv DEF RequireFirstFactor, Steps
  <1>3. ASSUME NEW r \in Requests, IsTokenUserValid(r) PROVE PrivilegeInv'
    BY Zenon, <1>3, <1>t, MoveKeepsPrivilegeInv DEF IsTokenUserValid, Steps
  <1>4. ASSUME NEW r \in Requests, Get(r) PROVE PrivilegeInv'
    <2>1. PICK s \in {GetSession(sid[r]), NewDefaultUserSession} :
             /\ copy' = [copy EXCEPT ![r] = s]
             /\ \E next \in StepsAfterGet(handler[r], s) :
                    pc' = [pc EXCEPT ![r] = next]
      BY Zenon, <1>4 DEF Get
    <2>2. PICK next \in StepsAfterGet(handler[r], s) :
             pc' = [pc EXCEPT ![r] = next]
      BY Zenon, <2>1
    <2>3. /\ next \in {"reset", "regenerate"} => Elevates(handler[r])
          /\ next = "save" => ~Elevates(handler[r])
          /\ next # "mark"
      BY <2>2, <1>t DEF StepsAfterGet, Elevates, TypeOK, AllHandlers
    <2>4. sid[r] # NoId /\ issued[sid[r]] # Absent => Within(s, issued[sid[r]])
      BY <1>t, GetWithin, DefaultWithin DEF TypeOK
    <2> USE <1>4, <1>t DEF PrivilegeInv, Get
    <2>5. FreshIdsUnknown'
      BY DEF FreshIdsUnknown
    <2>6. UnissuedIdsUnshared'
      BY DEF UnissuedIdsUnshared
    <2>7. StepsFollowHandlers'
      BY <2>2, <2>3 DEF StepsFollowHandlers, TypeOK
    <2>8. CopiesWithin'
      BY <2>1, <2>2, <2>3, <2>4 DEF CopiesWithin, WritesBack, WritesHigher, TypeOK
    <2>9. NoPrivilegeGain'
      BY DEF NoPrivilegeGain
    <2> QED
      BY <2>5, <2>6, <2>7, <2>8, <2>9
  <1>5. ASSUME NEW r \in Requests, Reset(r) PROVE PrivilegeInv'
    <2>1. sid[r] # NoId /\ issued[sid[r]] # Absent =>
             Within(NewDefaultUserSession, issued[sid[r]])
      BY <1>t, DefaultWithin DEF TypeOK
    <2>2. Elevates(handler[r])
      BY <1>5 DEF Reset, PrivilegeInv, StepsFollowHandlers
    <2> QED
      BY Zenon, <1>5, <1>t, <2>1, <2>2, SaveKeepsPrivilegeInv, DefaultTyped
      DEF Reset, Steps
  <1>6. ASSUME NEW r \in Requests, Regenerate(r) PROVE PrivilegeInv'
    <2> USE <1>6, <1>t DEF PrivilegeInv, Regenerate
    <2>1. PICK id \in Fresh :
             /\ store' = IF sid[r] = NoId THEN store
                         ELSE [store EXCEPT ![id] = store[sid[r]],
                                            ![sid[r]] = Absent]
             /\ used' = used \cup {id}
             /\ sid' = [sid EXCEPT ![r] = id]
             /\ Bury(r)
      BY Zenon DEF RegenerateSession
    <2>2. /\ id \in SessionIds
          /\ id # NoId
          /\ issued[id] = Absent
          /\ id \notin dead
          /\ \A q \in Requests : sid[q] # id
      BY <2>1, SessionsAssumption DEF Fresh, FreshIdsUnknown, TypeOK
    <2>3. Elevates(handler[r])
      BY DEF StepsFollowHandlers
    <2>4. FreshIdsUnknown'
      BY SMTT(60), <2>1, <2>2 DEF FreshIdsUnknown, Bury, TypeOK
    <2>5. UnissuedIdsUnshared'
      BY SMTT(60), <2>1, <2>2 DEF UnissuedIdsUnshared, TypeOK
    <2>6. StepsFollowHandlers'
      BY DEF StepsFollowHandlers, TypeOK
    <2>7. CopiesWithin'
      BY <2>1, <2>2, <2>3 DEF CopiesWithin, WritesBack, WritesHigher, TypeOK
    <2>8. NoPrivilegeGain'
      BY <2>1, <2>2 DEF NoPrivilegeGain, TypeOK
    <2> QED
      BY <2>4, <2>5, <2>6, <2>7, <2>8
  <1>7. ASSUME NEW r \in Requests, Save(r) PROVE PrivilegeInv'
    <2>1. Update(handler[r], copy[r], user[r]) \in UserSession
      BY <1>t, UpdateTyped DEF TypeOK
    <2>2. sid[r] # NoId /\ issued[sid[r]] # Absent =>
             Within(Update(handler[r], copy[r], user[r]), issued[sid[r]])
      <3>1. CASE Elevates(handler[r])
        BY <1>7, <3>1 DEF Save, PrivilegeInv, CopiesWithin, WritesHigher
      <3>2. CASE ~Elevates(handler[r])
        <4>1. /\ Update(handler[r], copy[r], user[r]).username = copy[r].username
              /\ Update(handler[r], copy[r], user[r]).level = copy[r].level
          BY <1>t, <3>2, UpdateTyped DEF TypeOK
        <4>2. sid[r] # NoId /\ issued[sid[r]] # Absent =>
                 Within(copy[r], issued[sid[r]])
          BY <1>7, <3>2 DEF Save, PrivilegeInv, CopiesWithin, WritesBack
        <4> QED
          BY <4>1, <4>2 DEF Within
      <3> QED
        BY <3>1, <3>2
    <2>3. PICK next \in {"touch", "destroy", "respond"} :
             pc' = [pc EXCEPT ![r] = next]
      BY Zenon, <1>7 DEF Save
    <2> QED
      BY Zenon, <1>7, <1>t, <2>1, <2>2, <2>3, SaveKeepsPrivilegeInv DEF Save, Steps
  <1>8. ASSUME NEW r \in Requests, Destroy(r) PROVE PrivilegeInv'
    <2> USE <1>8, <1>t DEF PrivilegeInv, Destroy, DestroySession
    <2>1. FreshIdsUnknown'
      BY SessionsAssumption DEF FreshIdsUnknown, Bury, TypeOK
    <2>2. UnissuedIdsUnshared'
      BY DEF UnissuedIdsUnshared, TypeOK
    <2>3. StepsFollowHandlers'
      BY DEF StepsFollowHandlers, TypeOK
    <2>4. CopiesWithin'
      BY DEF CopiesWithin, WritesBack, WritesHigher, TypeOK
    <2>5. NoPrivilegeGain'
      BY DEF NoPrivilegeGain, TypeOK
    <2> QED
      BY <2>1, <2>2, <2>3, <2>4, <2>5
  <1>9. ASSUME NEW r \in Requests, GoOn(r) PROVE PrivilegeInv'
    BY Zenon, <1>9, <1>t, MoveKeepsPrivilegeInv DEF GoOn, Steps
  <1>10. ASSUME NEW r \in Requests, Touch(r) PROVE PrivilegeInv'
    <2> USE <1>10, <1>t DEF PrivilegeInv, Touch
    <2>1. FreshIdsUnknown'
      BY DEF FreshIdsUnknown
    <2>2. UnissuedIdsUnshared'
      BY DEF UnissuedIdsUnshared
    <2>3. StepsFollowHandlers'
      BY DEF StepsFollowHandlers, TypeOK
    <2>4. CopiesWithin'
      BY GetWithin, Zenon DEF CopiesWithin, WritesBack, WritesHigher, TypeOK
    <2>5. NoPrivilegeGain'
      BY DEF NoPrivilegeGain
    <2> QED
      BY <2>1, <2>2, <2>3, <2>4, <2>5
  <1>11. ASSUME NEW r \in Requests, Mark(r) PROVE PrivilegeInv'
    <2>1. sid[r] # NoId /\ issued[sid[r]] # Absent =>
             Within(copy[r], issued[sid[r]])
      BY <1>11 DEF Mark, PrivilegeInv, CopiesWithin, WritesBack
    <2> QED
      BY Zenon, <1>11, <1>t, <2>1, SaveKeepsPrivilegeInv DEF Mark, Steps, TypeOK
  <1>12. ASSUME NEW r \in Requests, Abort(r) PROVE PrivilegeInv'
    BY Zenon, <1>12, <1>t, MoveKeepsPrivilegeInv DEF Abort, Steps
  <1>13. ASSUME NEW r \in Requests, Respond(r) PROVE PrivilegeInv'
    <2> USE <1>13, <1>t DEF PrivilegeInv, Respond
    <2>p. sid[r] # NoId => /\ Privilege(store[sid[r]]) \in Privileges
                           /\ Privilege(store[sid[r]]) # Absent
      BY SMTT(60), PrivilegeTyped, SessionsAssumption DEF TypeOK
    <2>1. FreshIdsUnknown'
      BY SMTT(60), SessionsAssumption DEF FreshIdsUnknown, TypeOK
    <2>2. UnissuedIdsUnshared'
      BY SMTT(60) DEF UnissuedIdsUnshared, TypeOK
    <2>3. StepsFollowHandlers'
      BY DEF StepsFollowHandlers, TypeOK
    <2>4. CopiesWithin'
      <3>1. \A q \in Requests \ {r} :
               sid[q] # NoId => issued'[sid[q]] = issued[sid[q]]
        BY DEF UnissuedIdsUnshared, TypeOK
      <3> QED
        BY <3>1 DEF CopiesWithin, WritesBack, WritesHigher, TypeOK
    <2>5. NoPrivilegeGain'
      <3>1. ASSUME NEW id \in SessionIds, issued'[id] # Absent, store'[id] # Absent
            PROVE  Within(store'[id], issued'[id])
        <4>1. CASE issued'[id] = issued[id]
          BY <3>1, <4>1 DEF NoPrivilegeGain
        <4>2. CASE issued'[id] # issued[id]
          <5>1. issued'[id] = Privilege(store[id]) /\ store[id] \in UserSession
            BY <3>1, <4>2 DEF TypeOK
          <5> QED
            BY SMTT(60), <3>1, <5>1 DEF Within, Privilege, UserSession, Levels,
                              NotAuthenticated, TwoFactor
        <4> QED
          BY <4>1, <4>2
      <3> QED
        BY <3>1 DEF NoPrivilegeGain
    <2> QED
      BY <2>1, <2>2, <2>3, <2>4, <2>5, Zenon
  <1>14. ASSUME NEW id \in SessionIds, Expire(id) PROVE PrivilegeInv'
    BY SMTT(60), <1>14, <1>t
    DEF PrivilegeInv, Expire, FreshIdsUnknown, UnissuedIdsUnshared,
        StepsFollowHandlers, CopiesWithin, WritesBack, WritesHigher,
        NoPrivilegeGain, TypeOK
  <1>15. CASE UNCHANGED vars
    BY Zenon, <1>15, <1>t
    DEF vars, PrivilegeInv, FreshIdsUnknown, UnissuedIdsUnshared,
        StepsFollowHandlers, CopiesWithin, WritesBack, WritesHigher,
        NoPrivilegeGain
  <1> QED
    BY <1>1, <1>2, <1>3, <1>4, <1>5, <1>6, <1>7, <1>8, <1>9, <1>10, <1>11,
       <1>12, <1>13, <1>14, <1>15 DEF Next, Handle

\* The id of a session is never worth more to a client than when it was handed
\* out, for any number of users, ids and concurrent requests: raising the level
\* (FirstFactorPost, the second factor handlers) always comes with a new id.
THEOREM PrivilegeNeverGained == Spec => []NoPrivilegeGain
  <1>1. Spec => []PrivilegeInv
    BY PrivilegeInit, PrivilegeStep, PTL DEF Spec
  <1>2. PrivilegeInv => NoPrivilegeGain
    BY DEF PrivilegeInv
  <1> QED
    BY <1>1, <1>2, PTL

-----------------------------------------------------------------------------
(***************************************************************************)
(* Sessions that ended while nobody else had their id stay ended.          *)
(***************************************************************************)

DeadCopies ==
    \A r \in Requests :
        sid[r] \in dead =>
            /\ WritesBack(r) => copy[r].level = NotAuthenticated
            /\ ~WritesHigher(r)

DeadInv ==
    /\ PrivilegeInv
    /\ DeadCopies
    /\ DeadIdsStayUnauthenticated

\* What GetSession returns for a dead id.
LEMMA GetDead ==
    ASSUME DeadInv, NEW id \in dead
    PROVE  GetSession(id).level = NotAuthenticated
  BY DefaultTyped
  DEF DeadInv, DeadIdsStayUnauthenticated, GetSession, NotAuthenticated

\* Every step keeps the dead ids unauthenticated.
LEMMA DeadStep == DeadInv /\ [Next]_vars => DeadInv'
  <1> SUFFICES ASSUME DeadInv, [Next]_vars
               PROVE  DeadCopies' /\ DeadIdsStayUnauthenticated'
    BY PrivilegeStep DEF DeadInv
  <1>t. /\ TypeOK /\ TypeOK' /\ FreshIdsUnknown /\ StepsFollowHandlers
        /\ DeadCopies /\ DeadIdsStayUnauthenticated /\ NoId \notin dead
    BY TypeStep, SessionsAssumption DEF DeadInv, PrivilegeInv, TypeOK
  <1> USE <1>t
  <1>1. ASSUME NEW r \in Requests, NEW h \in Handlers, NEW u \in Users,
               Receive(r, h, u)
        PROVE  DeadCopies' /\ DeadIdsStayUnauthenticated'
    <2>1. FirstStep(h) \notin {"save", "mark"}
      BY DEF FirstStep, RequiresFirstFactor
    <2> QED
      BY <1>1, <2>1 DEF Receive, DeadCopies, WritesBack, WritesHigher,
                        DeadIdsStayUnauthenticated, TypeOK
  <1>2. ASSUME NEW r \in Requests,
               \/ RequireFirstFactor(r)
               \/ IsTokenUserValid(r)
               \/ GoOn(r)
               \/ Abort(r)
        PROVE  DeadCopies' /\ DeadIdsStayUnauthenticated'
    <2>1. PICK p \in Steps \ {"save", "mark"} : pc' = [pc EXCEPT ![r] = p]
      BY <1>2 DEF RequireFirstFactor, IsTokenUserValid, GoOn, Abort, Steps
    <2>2. UNCHANGED <<store, handler, sid, copy, dead>>
      BY <1>2 DEF RequireFirstFactor, IsTokenUserValid, GoOn, Abort
    <2> QED
      BY <2>1, <2>2 DEF DeadCopies, WritesBack, WritesHigher,
                        DeadIdsStayUnauthenticated, TypeOK
  <1>3. ASSUME NEW r \in Requests, Get(r)
        PROVE  DeadCopies' /\ DeadIdsStayUnauthenticated'
    <2>1. PICK s \in {GetSession(sid[r]), NewDefaultUserSession} :
             /\ copy' = [copy EXCEPT ![r] = s]
             /\ \E next \in StepsAfterGet(handler[r], s) :
                    pc' = [pc EXCEPT ![r] = next]
      BY Zenon, <1>3 DEF Get
    <2>2. PICK next \in StepsAfterGet(handler[r], s) :
             pc' = [pc EXCEPT ![r] = next]
      BY Zenon, <2>1
    <2>3. next = "save" => ~Elevates(handler[r])
      BY <2>2 DEF StepsAfterGet, Elevates, TypeOK, AllHandlers
    <2>4. sid[r] \in dead => s.level = NotAuthenticated
      BY GetDead, DefaultTyped DEF NotAuthenticated
    <2>5. UNCHANGED <<store, handler, sid, dead>>
      BY <1>3, Zenon DEF Get
    <2> QED
      BY <2>1, <2>2, <2>3, <2>4, <2>5
      DEF DeadCopies, WritesBack, WritesHigher, DeadIdsStayUnauthenticated, TypeOK
  <1>4. ASSUME NEW r \in Requests, NEW s \in UserSession,
               NEW p \in Steps \ {"save", "mark"},
               SaveSession(r, s), pc' = [pc EXCEPT ![r] = p],
               sid[r] \in dead => s.level = NotAuthenticated,
               UNCHANGED <<handler, copy, dead>>
        PROVE  DeadCopies' /\ DeadIdsStayUnauthenticated'
    <2>1. DeadIdsStayUnauthenticated'
      BY <1>4 DEF SaveSession, Fresh, FreshIdsUnknown,
                  DeadIdsStayUnauthenticated, TypeOK
    <2>2. DeadCopies'
      BY <1>4 DEF SaveSession, Fresh, FreshIdsUnknown, DeadCopies, WritesBack,
                  WritesHigher, TypeOK
    <2> QED
      BY <2>1, <2>2
  <1>5. ASSUME NEW r \in Requests, Reset(r)
        PROVE  DeadCopies' /\ DeadIdsStayUnauthenticated'
    BY Zenon, <1>4, <1>5, DefaultTyped DEF Reset, Steps, NotAuthenticated
  <1>6. ASSUME NEW r \in Requests, Regenerate(r)
        PROVE  DeadCopies' /\ DeadIdsStayUnauthenticated'
    <2>1. PICK id \in Fresh :
             /\ store' = IF sid[r] = NoId THEN store
                         ELSE [store EXCEPT ![id] = store[sid[r]],
                                            ![sid[r]] = Absent]
             /\ sid' = [sid EXCEPT ![r] = id]
             /\ Bury(r)
      BY Zenon, <1>6 DEF Regenerate, RegenerateSession
    <2>2. /\ id \in SessionIds \ dead
          /\ sid[r] # id
          /\ dead' \subseteq dead \cup {sid[r]}
          /\ sid[r] \in dead' => sid[r] \in dead \/ Alone(r)
          /\ id \notin dead'
      BY <2>1 DEF Fresh, FreshIdsUnknown, Bury
    <2>3. DeadIdsStayUnauthenticated'
      <3>1. ASSUME NEW d \in dead'
            PROVE  store'[d] = Absent \/ (d \in dead /\ store'[d] = store[d])
        BY <2>1, <2>2, SessionsAssumption DEF TypeOK
      <3> QED
        BY <3>1 DEF DeadIdsStayUnauthenticated
    <2>4. DeadCopies'
      BY <1>6, <2>1, <2>2, Zenon DEF Regenerate, DeadCopies, Alone, WritesBack,
                              WritesHigher, TypeOK
    <2> QED
      BY <2>3, <2>4
  <1>7. ASSUME NEW r \in Requests, Save(r)
        PROVE  DeadCopies' /\ DeadIdsStayUnauthenticated'
    <2>1. Update(handler[r], copy[r], user[r]) \in UserSession
      BY UpdateTyped DEF TypeOK
    <2>2. sid[r] \in dead =>
             Update(handler[r], copy[r], user[r]).level = NotAuthenticated
      <3> SUFFICES ASSUME sid[r] \in dead
                   PROVE  Update(handler[r], copy[r], user[r]).level = NotAuthenticated
        OBVIOUS
      <3>1. ~Elevates(handler[r]) /\ copy[r].level = NotAuthenticated
        BY <1>7, Zenon DEF Save, DeadCopies, WritesBack, WritesHigher
      <3> QED
        BY <3>1, UpdateTyped DEF TypeOK
    <2>3. PICK next \in {"touch", "destroy", "respond"} :
             pc' = [pc EXCEPT ![r] = next]
      BY Zenon, <1>7 DEF Save
    <2> QED
      BY Zenon, <1>4, <1>7, <2>1, <2>2, <2>3 DEF Save, Steps
  <1>8. ASSUME NEW r \in Requests, Destroy(r)
        PROVE  DeadCopies' /\ DeadIdsStayUnauthenticated'
    <2>1. dead' \subseteq dead \cup {sid[r]} /\
          (sid[r] \in dead' => sid[r] \in dead \/ Alone(r))
      BY <1>8 DEF Destroy, DestroySession, Bury
    <2>2. DeadIdsStayUnauthenticated'
      <3>1. ASSUME NEW d \in dead'
            PROVE  store'[d] = Absent \/ (d \in dead /\ store'[d] = store[d])
        BY SMTT(60), <1>8, <2>1, SessionsAssumption
        DEF Destroy, DestroySession, TypeOK
      <3> QED
        BY <3>1 DEF DeadIdsStayUnauthenticated
    <2>3. DeadCopies'
      BY <1>8, <2>1 DEF Destroy, DestroySession, DeadCopies, Alone, WritesBack,
                        WritesHigher, TypeOK
    <2> QED
      BY <2>2, <2>3
  <1>9. ASSUME NEW r \in Requests, Touch(r)
        PROVE  DeadCopies' /\ DeadIdsStayUnauthenticated'
    BY <1>9, GetDead DEF Touch, DeadCopies, WritesBack, WritesHigher,
                         DeadIdsStayUnauthenticated, TypeOK
  <1>10. ASSUME NEW r \in Requests, Mark(r)
         PROVE  DeadCopies' /\ DeadIdsStayUnauthenticated'
    BY Zenon, <1>4, <1>10 DEF Mark, Steps, DeadCopies, WritesBack, TypeOK
  <1>11. ASSUME NEW r \in Requests, Respond(r)
         PROVE  DeadCopies' /\ DeadIdsStayUnauthenticated'
    BY <1>11 DEF Respond, DeadCopies, WritesBack, WritesHigher,
                 DeadIdsStayUnauthenticated, TypeOK
  <1>12. ASSUME NEW id \in SessionIds, Expire(id)
         PROVE  DeadCopies' /\ DeadIdsStayUnauthenticated'
    BY <1>12 DEF Expire, DeadCopies, WritesBack, WritesHigher,
                 DeadIdsStayUnauthenticated, TypeOK
  <1>13. CASE UNCHANGED vars
    BY <1>13, Zenon DEF vars, DeadCopies, WritesBack, WritesHigher,
                 DeadIdsStayUnauthenticated
  <1> QED
    BY <1>1, <1>2, <1>3, <1>5, <1>6, <1>7, <1>8, <1>9, <1>10, <1>11, <1>12,
       <1>13 DEF Next, Handle

\* A session that LogoutPost destroys (or a regeneration moves, or the store
\* expires) while no other request has its id never authenticates anyone again.
THEOREM DeadSessionsStayDead == Spec => []DeadIdsStayUnauthenticated
  <1>1. Init => DeadInv
    BY PrivilegeInit, Zenon DEF Init, DeadInv, DeadCopies, DeadIdsStayUnauthenticated
  <1>2. DeadInv => DeadIdsStayUnauthenticated
    BY DEF DeadInv
  <1> QED
    BY <1>1, <1>2, DeadStep, PTL DEF Spec

-----------------------------------------------------------------------------
(***************************************************************************)
(* A session without a user is never authenticated.                        *)
(***************************************************************************)

Identified(s) ==
    s.username = NoUser => s.level = NotAuthenticated /\ s.registration = NoUser

\* The handlers that set the second factor.
SecondFactor(h) == h \in {"TOTPPost", "DuoPost", "U2FSignPost"}

IdentifiedInv ==
    /\ TypeOK
    /\ \A id \in SessionIds : store[id] # Absent => Identified(store[id])
    /\ \A r \in Requests :
          /\ Identified(copy[r])
          /\ pc[r] # "idle" => user[r] \in Users
          /\ pc[r] \in {"regenerate", "save"} /\ SecondFactor(handler[r]) =>
                copy[r].username # NoUser
          /\ pc[r] = "reset" => handler[r] = "FirstFactorPost"

\* No handler gives a level to a session without a user.
LEMMA UpdateIdentified ==
    ASSUME NEW s \in UserSession, NEW h \in AllHandlers, NEW u \in Users,
           Identified(s), SecondFactor(h) => s.username # NoUser
    PROVE  Identified(Update(h, s, u))
  <1> USE SessionsAssumption DEF UserSession, Identified
  <1>1. CASE h = "FirstFactorPost"
    <2>1. Update(h, s, u) = SetOneFactor(s, u)
      BY <1>1 DEF Update, FirstFactorPost
    <2>2. SetOneFactor(s, u).username = u
      BY DEF SetOneFactor
    <2> QED
      BY <2>1, <2>2
  <1>2. CASE SecondFactor(h)
    <2>1. Update(h, s, u) = SetTwoFactor(s)
      BY <1>2 DEF Update, SecondFactor, SecondFactorTOTPPost,
                  SecondFactorDuoPost, SecondFactorU2FSignPost
    <2>2. SetTwoFactor(s).username = s.username
      BY DEF SetTwoFactor
    <2> QED
      BY <1>2, <2>1, <2>2
  <1>3. CASE h = "U2FSignGet"
    BY Zenon, <1>3 DEF Update, SecondFactorU2FSignGet
  <1>4. CASE h = "U2FIdentityFinish"
    BY <1>4 DEF Update, SecondFactorU2FIdentityFinish
  <1>5. CASE h = "U2FRegister"
    BY <1>5 DEF Update, SecondFactorU2FRegister
  <1>6. CASE h = "ResetPasswordIdentityFinish"
    BY <1>6 DEF Update, resetPasswordIdentityFinish
  <1>7. CASE h = "ResetPasswordPost"
    BY <1>7 DEF Update, ResetPasswordPost
  <1>8. CASE h \in {"VerifyGet", "LogoutPost"}
    BY Zenon, <1>8 DEF Update
  <1> QED
    BY <1>1, <1>2, <1>3, <1>4, <1>5, <1>6, <1>7, <1>8 DEF AllHandlers, SecondFactor

\* What is read from the store has a user if it has a level.
LEMMA GetIdentified ==
    ASSUME IdentifiedInv, NEW id \in SessionIds \cup {NoId}
    PROVE  Identified(GetSession(id))
  BY DefaultTyped DEF IdentifiedInv, GetSession, Identified, NotAuthenticated

\* Every step keeps that.
LEMMA IdentifiedStep == IdentifiedInv /\ [Next]_vars => IdentifiedInv'
  <1> SUFFICES ASSUME IdentifiedInv, [Next]_vars PROVE IdentifiedInv'
    OBVIOUS
  <1>t. TypeOK /\ TypeOK'
    BY TypeStep, Zenon DEF IdentifiedInv
  <1>d. Identified(NewDefaultUserSession)
    BY DefaultTyped DEF Identified, NotAuthenticated
  <1> USE <1>t
  <1>1. ASSUME NEW r \in Requests, NEW h \in Handlers, NEW u \in Users,
               Receive(r, h, u)
        PROVE  IdentifiedInv'
    <2>1. FirstStep(h) \notin {"reset", "regenerate", "save"}
      BY DEF FirstStep, RequiresFirstFactor
    <2> QED
      BY <1>1, <2>1, Zenon DEF Receive, IdentifiedInv, TypeOK
  <1>2. ASSUME NEW r \in Requests,
               \/ RequireFirstFactor(r)
               \/ IsTokenUserValid(r)
               \/ GoOn(r)
               \/ Abort(r)
        PROVE  IdentifiedInv'
    <2>1. PICK p \in Steps \ {"reset", "regenerate", "save"} :
             pc' = [pc EXCEPT ![r] = p]
      BY <1>2, Zenon DEF RequireFirstFactor, IsTokenUserValid, GoOn, Abort, Steps
    <2>2. UNCHANGED <<store, handler, user, copy>> /\ pc[r] # "idle"
      BY <1>2 DEF RequireFirstFactor, IsTokenUserValid, GoOn, Abort
    <2> QED
      BY <2>1, <2>2, Zenon DEF IdentifiedInv, TypeOK
  <1>3. ASSUME NEW r \in Requests, Get(r) PROVE IdentifiedInv'
    <2>1. PICK s \in {GetSession(sid[r]), NewDefaultUserSession} :
             /\ Accepts(handler[r], s)
             /\ copy' = [copy EXCEPT ![r] = s]
             /\ \E next \in StepsAfterGet(handler[r], s) :
                    pc' = [pc EXCEPT ![r] = next]
      BY Zenon, <1>3 DEF Get
    <2>2. PICK next \in StepsAfterGet(handler[r], s) :
             pc' = [pc EXCEPT ![r] = next]
      BY Zenon, <2>1
    <2>3. Identified(s)
      BY GetIdentified, <1>d DEF TypeOK
    <2>4. SecondFactor(handler[r]) => s.username # NoUser
      BY <2>1, <2>3 DEF SecondFactor, Accepts, Identified
    <2>5. next = "reset" => handler[r] = "FirstFactorPost"
      BY <2>2 DEF StepsAfterGet, TypeOK, AllHandlers
    <2>6. UNCHANGED <<store, handler, user>> /\ pc[r] # "idle"
      BY <1>3 DEF Get
    <2> QED
      BY <2>1, <2>2, <2>3, <2>4, <2>5, <2>6, Zenon DEF IdentifiedInv, TypeOK
  <1>4. ASSUME NEW r \in Requests, NEW s \in UserSession, Identified(s),
               SaveSession(r, s)
        PROVE  \A id \in SessionIds : store'[id] # Absent => Identified(store'[id])
    BY <1>4 DEF SaveSession, Fresh, IdentifiedInv, TypeOK
  <1>5. ASSUME NEW r \in Requests, Reset(r) PROVE IdentifiedInv'
    <2>1. \A id \in SessionIds : store'[id] # Absent => Identified(store'[id])
      BY <1>4, <1>5, <1>d, DefaultTyped DEF Reset
    <2> QED
      BY <1>5, <2>1, Zenon DEF Reset, IdentifiedInv, SecondFactor, TypeOK
  <1>6. ASSUME NEW r \in Requests, Regenerate(r) PROVE IdentifiedInv'
    <2>1. \A id \in SessionIds : store'[id] # Absent => Identified(store'[id])
      <3>1. PICK new \in Fresh :
               store' = IF sid[r] = NoId THEN store
                        ELSE [store EXCEPT ![new] = store[sid[r]], ![sid[r]] = Absent]
        BY <1>6, Zenon DEF Regenerate, RegenerateSession
      <3> SUFFICES ASSUME NEW id \in SessionIds, store'[id] # Absent
                   PROVE  Identified(store'[id])
        OBVIOUS
      <3>2. CASE sid[r] = NoId
        BY <3>1, <3>2, Zenon DEF IdentifiedInv
      <3>3. CASE sid[r] # NoId
        <4>1. sid[r] \in SessionIds /\ new \in SessionIds
          BY <3>3, Zenon DEF Fresh, TypeOK
        <4>2. store'[id] = Absent \/ store'[id] = store[sid[r]] \/ store'[id] = store[id]
          <5>1. CASE id = sid[r]
            BY <3>1, <3>3, <4>1, <5>1 DEF TypeOK
          <5>2. CASE id # sid[r] /\ id = new
            BY <3>1, <3>3, <4>1, <5>2 DEF TypeOK
          <5>3. CASE id # sid[r] /\ id # new
            BY <3>1, <3>3, <4>1, <5>3 DEF TypeOK
          <5> QED BY <5>1, <5>2, <5>3, Zenon
        <4> QED BY <4>1, <4>2, Zenon DEF IdentifiedInv
      <3> QED BY <3>2, <3>3, Zenon
    <2> QED
      BY <1>6, <2>1, Zenon DEF Regenerate, IdentifiedInv, TypeOK
  <1>7. ASSUME NEW r \in Requests, Save(r) PROVE IdentifiedInv'
    <2>1. /\ Update(handler[r], copy[r], user[r]) \in UserSession
          /\ Identified(Update(handler[r], copy[r], user[r]))
      BY Zenon, <1>7, UpdateTyped, UpdateIdentified DEF Save, IdentifiedInv, TypeOK
    <2>2. \A id \in SessionIds : store'[id] # Absent => Identified(store'[id])
      BY <1>4, <1>7, <2>1, Zenon DEF Save
    <2>3. PICK next \in {"touch", "destroy", "respond"} :
             pc' = [pc EXCEPT ![r] = next]
      BY Zenon, <1>7 DEF Save
    <2> QED
      BY <1>7, <2>2, <2>3, Zenon DEF Save, IdentifiedInv, TypeOK
  <1>8. ASSUME NEW r \in Requests, Destroy(r) PROVE IdentifiedInv'
    BY <1>8, Zenon DEF Destroy, DestroySession, IdentifiedInv, TypeOK
  <1>9. ASSUME NEW r \in Requests, Touch(r) PROVE IdentifiedInv'
    BY <1>9, GetIdentified, Zenon DEF Touch, IdentifiedInv, TypeOK
  <1>10. ASSUME NEW r \in Requests, Mark(r) PROVE IdentifiedInv'
    <2>1. \A id \in SessionIds : store'[id] # Absent => Identified(store'[id])
      BY <1>4, <1>10, Zenon DEF Mark, IdentifiedInv, TypeOK
    <2> QED
      BY <1>10, <2>1, Zenon DEF Mark, IdentifiedInv, TypeOK
  <1>11. ASSUME NEW r \in Requests, Respond(r) PROVE IdentifiedInv'
    <2>1. /\ store' = store /\ pc'[r] = "idle" /\ copy'[r] = NewDefaultUserSession
          /\ \A q \in Requests \ {r} : /\ pc'[q] = pc[q] /\ handler'[q] = handler[q]
                                       /\ user'[q] = user[q] /\ copy'[q] = copy[q]
      <3>1. store' = store /\ pc'[r] = "idle" /\ copy'[r] = NewDefaultUserSession
        BY <1>11, Zenon DEF Respond, TypeOK
      <3>2. \A q \in Requests \ {r} : pc'[q] = pc[q] /\ handler'[q] = handler[q]
        BY <1>11, Zenon DEF Respond, TypeOK
      <3>3. \A q \in Requests \ {r} : user'[q] = user[q] /\ copy'[q] = copy[q]
        BY <1>11, Zenon DEF Respond, TypeOK
      <3> QED BY <3>1, <3>2, <3>3, Zenon
    <2>2. ASSUME NEW q \in Requests
          PROVE  /\ Identified(copy'[q])
                 /\ pc'[q] # "idle" => user'[q] \in Users
                 /\ pc'[q] \in {"regenerate", "save"} /\ SecondFactor(handler'[q]) =>
                       copy'[q].username # NoUser
                 /\ pc'[q] = "reset" => handler'[q] = "FirstFactorPost"
      <3>1. CASE q = r
        BY <1>d, <2>1, <3>1, Zenon
      <3>2. CASE q # r
        BY <2>1, <3>2, Zenon DEF IdentifiedInv
      <3> QED BY <3>1, <3>2, Zenon
    <2> QED BY <2>1, <2>2, Zenon DEF IdentifiedInv, SecondFactor
  <1>12. ASSUME NEW id \in SessionIds, Expire(id) PROVE IdentifiedInv'
    BY <1>12, Zenon DEF Expire, IdentifiedInv, TypeOK
  <1>13. CASE UNCHANGED vars
    BY <1>13, Zenon DEF vars, IdentifiedInv
  <1> QED
    BY <1>1, <1>2, <1>3, <1>5, <1>6, <1>7, <1>8, <1>9, <1>10, <1>11, <1>12,
       <1>13 DEF Next, Handle

\* No interleaving of the handlers leaves a session without a username at an
\* authenticated level, so the check of verifySessionCookie never fires.
THEOREM AnonymousUnauthenticated == Spec => []AnonymousNeverAuthenticated
  <1>1. Init => IdentifiedInv
    <2> SUFFICES ASSUME Init PROVE IdentifiedInv
      OBVIOUS
    <2>1. Identified(NewDefaultUserSession)
      BY DefaultTyped, Zenon DEF Identified, NotAuthenticated
    <2> QED
      BY <2>1, TypeInit DEF Init, IdentifiedInv
  <1>2. IdentifiedInv => AnonymousNeverAuthenticated
    BY DEF IdentifiedInv, Identified, AnonymousNeverAuthenticated
  <1> QED
    BY <1>1, <1>2, IdentifiedStep, PTL DEF Spec
=============================================================================
