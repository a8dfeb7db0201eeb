--------------------- MODULE IdentityVerificationProofs ---------------------
(***************************************************************************)
(* Proofs about IdentityVerification, for any users, sessions, requests    *)
(* and lifetime of a link; and about Configuration, for any numbers in the *)
(* file.                                                                   *)
(***************************************************************************)
EXTENDS IdentityVerification, Configuration, FiniteSetTheorems, TLAPS

-----------------------------------------------------------------------------
(***************************************************************************)
(* What a request knows at each of its steps.                              *)
(***************************************************************************)

\* The steps of a request that was made with a token.
WithToken == {"insert", "send", "find", "parse", "remove", "secret", "save"}

\* A request has the session it came in, and the token it is about.
Located ==
    \A r \in Requests :
        /\ pc[r] # "idle" => session[r] \in Sessions
        /\ pc[r] \in WithToken => token[r] \in Token /\ endpoint[r] \in Actions

\* The claims that ParseWithClaims has compared still hold.
Verified ==
    \A r \in Requests :
        pc[r] \in {"remove", "secret", "save"} =>
            /\ token[r].action = endpoint[r]
            /\ IsTokenUserValid(session[r], endpoint[r], token[r])

\* The token has opened the flow in the session of the request.
Opening ==
    \A r \in Requests :
        /\ pc[r] = "secret" => endpoint[r] = "RegisterTOTPDevice"
        /\ pc[r] = "save" => endpoint[r] = "ResetPassword"
        /\ pc[r] \in {"secret", "save"} => session[r] \in openers[token[r]]

\* By the openers o the flow of action a was opened in session s for user u.
OpenedFor(o, s, a, u) ==
    \E t \in Token : t.action = a /\ t.user = u /\ s \in o[t]

\* Wherever PasswordResetUsername is, in the store or in a handler's copy, a
\* link has put it there.
ResetsAreVerified ==
    /\ \A s \in Sessions :
          flag[s] # NoUser => OpenedFor(openers, s, "ResetPassword", flag[s])
    /\ \A r \in Requests :
          /\ copy[r] # NoUser => OpenedFor(openers, session[r], "ResetPassword", copy[r])
          /\ pc[r] = "update" => copy[r] # NoUser
          /\ pc[r] = "idle" => copy[r] = NoUser

FlowInv ==
    /\ TypeOK
    /\ Located
    /\ Verified
    /\ Opening
    /\ ResetsAreVerified
    /\ EffectsFollowVerification
    /\ RegistrationByOwner

\* The requests that have found the token t and may still open its flow.
Holders(t) == {r \in Requests : pc[r] \in {"parse", "remove"} /\ token[r] = t}

\* While t is in the table every request may find it; once it is deleted only
\* the requests that have found it count.
OpensInv ==
    LET N == Cardinality(Requests) IN
    \A t \in Token :
        /\ t \in saved => opened[t] + N <= inserts[t] * N
        /\ t \notin saved => opened[t] + Cardinality(Holders(t)) <= inserts[t] * N

-----------------------------------------------------------------------------
(***************************************************************************)
(* The shapes of the steps.                                                *)
(***************************************************************************)

\* The token that IdentityVerificationStart signs.
LEMMA SignedToken ==
    ASSUME TypeOK, NEW s \in Sessions, NEW a \in Actions, Reachable(s, a),
           NEW u \in IdentityRetriever(s, a)
    PROVE  [action |-> a, user |-> u, expires |-> now + Lifetime] \in Token
<1>1. u \in Users
  BY IdentityAssumption
  DEF Reachable, IdentityRetriever, identityRetrieverFromStorage,
      identityRetrieverFromSession, Actions
<1>2. now + Lifetime \in 0..(MaxTime + Lifetime)
  BY IdentityAssumption DEF TypeOK
<1> QED BY <1>1, <1>2 DEF Token

\* What holds initially.
LEMMA FlowInit == Init => FlowInv
<1> SUFFICES ASSUME Init PROVE FlowInv
  OBVIOUS
<1>1. TypeOK
  BY IdentityAssumption DEF Init, TypeOK, Steps
<1>2. Located /\ Verified /\ Opening /\ ResetsAreVerified
  BY DEF Init, Located, Verified, Opening, ResetsAreVerified, WithToken
<1>3. EffectsFollowVerification /\ RegistrationByOwner
  BY DEF Init, EffectsFollowVerification, RegistrationByOwner
<1> QED BY <1>1, <1>2, <1>3 DEF FlowInv

\* The types, from the type of what each step writes.
LEMMA TypeStep == TypeOK /\ Located /\ ResetsAreVerified /\ [Next]_vars => TypeOK'
<1> SUFFICES ASSUME TypeOK, Located, ResetsAreVerified, [Next]_vars PROVE TypeOK'
  OBVIOUS
<1> USE DEF tables, request, history
<1>1. ASSUME NEW r \in Requests, NEW s \in Sessions, NEW a \in Actions, Start(r, s, a)
      PROVE  TypeOK'
  BY <1>1, SignedToken, IdentityAssumption DEF TypeOK, Start, Begin, GoTo, Steps
<1>2. ASSUME NEW r \in Requests, NEW s \in Sessions, NEW a \in Actions, NEW t \in mailed,
             Finish(r, s, a, t)
      PROVE  TypeOK'
  BY <1>2 DEF TypeOK, Finish, Begin, GoTo, Steps
<1>3. ASSUME NEW r \in Requests, NEW s \in Sessions, ResetPasswordPost(r, s) \/ Load(r, s)
      PROVE  TypeOK'
  BY <1>3 DEF TypeOK, ResetPasswordPost, Load, Begin, GoTo, Steps
<1>4. ASSUME NEW r \in Requests, SaveIdentityVerificationToken(r) PROVE TypeOK'
  BY <1>4 DEF TypeOK, Located, WithToken, SaveIdentityVerificationToken, GoTo, Steps
<1>5. ASSUME NEW r \in Requests, Send(r) PROVE TypeOK'
  BY <1>5 DEF TypeOK, Located, WithToken, Send, Leave, GoTo, Steps
<1>6. ASSUME NEW r \in Requests, FindIdentityVerificationToken(r) \/ ParseWithClaims(r)
      PROVE  TypeOK'
  BY <1>6 DEF TypeOK, FindIdentityVerificationToken, ParseWithClaims, GoTo, Steps
<1>7. ASSUME NEW r \in Requests, RemoveIdentityVerificationToken(r) PROVE TypeOK'
  BY <1>7 DEF TypeOK, Located, WithToken, RemoveIdentityVerificationToken, Deleted,
     GoTo, Steps
<1>8. ASSUME NEW r \in Requests, SaveTOTPSecret(r) PROVE TypeOK'
  BY <1>8 DEF TypeOK, Located, WithToken, SaveTOTPSecret, Leave, GoTo, Steps,
     Effect, Token, Actions
<1>9. ASSUME NEW r \in Requests, SetPasswordReset(r) PROVE TypeOK'
  BY <1>9 DEF TypeOK, Located, WithToken, SetPasswordReset, Leave, GoTo, Steps, Token
<1>10. ASSUME NEW r \in Requests, UpdatePassword(r) PROVE TypeOK'
  BY <1>10 DEF TypeOK, Located, ResetsAreVerified, UpdatePassword, GoTo, Steps,
     Effect, Actions
<1>11. ASSUME NEW r \in Requests, ClearPasswordReset(r) \/ Store(r) PROVE TypeOK'
  BY <1>11 DEF TypeOK, Located, ClearPasswordReset, Store, Leave, GoTo, Steps
<1>12. ASSUME NEW r \in Requests, Abort(r) PROVE TypeOK'
  BY <1>12 DEF TypeOK, Abort, Leave, GoTo, Steps
<1>13. CASE Tick
  BY <1>13, IdentityAssumption DEF TypeOK, Tick
<1>14. CASE UNCHANGED vars
  BY <1>14 DEF TypeOK, vars
<1> QED
  BY <1>1, <1>2, <1>3, <1>4, <1>5, <1>6, <1>7, <1>8, <1>9, <1>10, <1>11, <1>12,
     <1>13, <1>14 DEF Next, Handle
-----------------------------------------------------------------------------
(***************************************************************************)
(* The flows that links open.                                              *)
(***************************************************************************)

\* Links that have opened a flow stay among its openers.
LEMMA OpenersGrow ==
    ASSUME FlowInv, [Next]_vars
    PROVE  \A t \in Token : openers[t] \subseteq openers'[t]
<1> USE DEF tables, request, history
<1>1. CASE UNCHANGED openers
  BY <1>1
<1>2. ASSUME NEW r \in Requests, RemoveIdentityVerificationToken(r)
      PROVE  \A t \in Token : openers[t] \subseteq openers'[t]
  BY <1>2 DEF FlowInv, TypeOK, RemoveIdentityVerificationToken
<1>3. CASE UNCHANGED vars
  BY <1>1, <1>3 DEF vars
<1>4. CASE \E r \in Requests, s \in Sessions :
              \/ \E a \in Actions : Start(r, s, a)
              \/ \E a \in Actions, t \in mailed : Finish(r, s, a, t)
              \/ ResetPasswordPost(r, s)
              \/ Load(r, s)
  BY <1>1, <1>4 DEF Start, Finish, ResetPasswordPost, Load
<1>5. CASE Tick
  BY <1>1, <1>5 DEF Tick
<1>6. ASSUME NEW r \in Requests, Handle(r), ~RemoveIdentityVerificationToken(r)
      PROVE  UNCHANGED openers
  BY <1>6 DEF Handle, SaveIdentityVerificationToken, Send, FindIdentityVerificationToken,
     ParseWithClaims, SaveTOTPSecret, SetPasswordReset, UpdatePassword, ClearPasswordReset,
     Store, Abort
<1> QED BY <1>1, <1>2, <1>3, <1>4, <1>5, <1>6 DEF Next

\* So does what they have opened.
LEMMA OpenedForStays ==
    ASSUME FlowInv, [Next]_vars, NEW s, NEW a, NEW u, OpenedFor(openers, s, a, u)
    PROVE  OpenedFor(openers', s, a, u)
BY OpenersGrow DEF OpenedFor

\* The steps before a flow is opened keep what the requests know.
LEMMA RequestStep ==
    FlowInv /\ [Next]_vars => Located' /\ Verified' /\ Opening'
<1> SUFFICES ASSUME FlowInv, [Next]_vars PROVE Located' /\ Verified' /\ Opening'
  OBVIOUS
<1> USE DEF tables, request, history, GoTo
<1> DEFINE G == Located' /\ Verified' /\ Opening'
<1>1. ASSUME NEW r \in Requests, NEW s \in Sessions, NEW a \in Actions, Start(r, s, a)
      PROVE  G
  BY <1>1, SignedToken DEF FlowInv, TypeOK, Located, Verified, Opening, WithToken,
     Start, Begin, IsTokenUserValid
<1>2. ASSUME NEW r \in Requests, NEW s \in Sessions, NEW a \in Actions, NEW t \in mailed,
             Finish(r, s, a, t)
      PROVE  G
  BY <1>2 DEF FlowInv, TypeOK, Located, Verified, Opening, WithToken, Finish, Begin,
     IsTokenUserValid
<1>3. ASSUME NEW r \in Requests, NEW s \in Sessions, ResetPasswordPost(r, s) \/ Load(r, s)
      PROVE  G
  <2>1. CASE ResetPasswordPost(r, s)
    BY <2>1 DEF FlowInv, TypeOK, Located, Verified, Opening, WithToken,
       ResetPasswordPost, Begin, IsTokenUserValid
  <2>2. CASE Load(r, s)
    BY <2>2 DEF FlowInv, TypeOK, Located, Verified, Opening, WithToken,
       Load, Begin, IsTokenUserValid
  <2> QED BY <1>3, <2>1, <2>2
<1>4. ASSUME NEW r \in Requests, SaveIdentityVerificationToken(r) PROVE G
  BY <1>4 DEF FlowInv, TypeOK, Located, Verified, Opening, WithToken,
     SaveIdentityVerificationToken, IsTokenUserValid
<1>5. ASSUME NEW r \in Requests, Send(r) PROVE G
  BY <1>5 DEF FlowInv, TypeOK, Located, Verified, Opening, WithToken, Send, Leave,
     IsTokenUserValid
<1>6. ASSUME NEW r \in Requests, FindIdentityVerificationToken(r) PROVE G
  BY <1>6 DEF FlowInv, TypeOK, Located, Verified, Opening, WithToken,
     FindIdentityVerificationToken, IsTokenUserValid
<1>7. ASSUME NEW r \in Requests, ParseWithClaims(r) PROVE G
  BY <1>7 DEF FlowInv, TypeOK, Located, Verified, Opening, WithToken,
     ParseWithClaims, IsTokenUserValid, IsClaimValid
<1>8. ASSUME NEW r \in Requests, RemoveIdentityVerificationToken(r) PROVE G
  <2>1. /\ pc[r] = "remove" /\ token[r] \in Token /\ endpoint[r] \in Actions
        /\ pc' = [pc EXCEPT ![r] = IF endpoint[r] = "ResetPassword" THEN "save" ELSE "secret"]
        /\ openers' = [openers EXCEPT ![token[r]] = @ \cup {session[r]}]
        /\ UNCHANGED <<session, endpoint, token>>
    BY <1>8 DEF FlowInv, Located, WithToken, RemoveIdentityVerificationToken
  <2>2. Located' /\ Verified'
    BY <2>1 DEF FlowInv, TypeOK, Located, Verified, WithToken, IsTokenUserValid
  <2>3. session[r] \in openers'[token[r]] /\ \A t \in Token : openers[t] \subseteq openers'[t]
    BY <2>1 DEF FlowInv, TypeOK
  <2>4. Opening'
    BY <2>1, <2>3 DEF FlowInv, TypeOK, Located, Opening, WithToken, Actions
  <2> QED BY <2>2, <2>4
<1>9. ASSUME NEW r \in Requests, SaveTOTPSecret(r) PROVE G
  BY <1>9 DEF FlowInv, TypeOK, Located, Verified, Opening, WithToken,
     SaveTOTPSecret, Leave, IsTokenUserValid
<1>10. ASSUME NEW r \in Requests, SetPasswordReset(r) PROVE G
  BY <1>10 DEF FlowInv, TypeOK, Located, Verified, Opening, WithToken,
     SetPasswordReset, Leave, IsTokenUserValid
<1>11. ASSUME NEW r \in Requests, UpdatePassword(r) PROVE G
  BY <1>11 DEF FlowInv, TypeOK, Located, Verified, Opening, WithToken,
     UpdatePassword, IsTokenUserValid
<1>12. ASSUME NEW r \in Requests, ClearPasswordReset(r) PROVE G
  BY <1>12 DEF FlowInv, TypeOK, Located, Verified, Opening, WithToken,
     ClearPasswordReset, Leave, IsTokenUserValid
<1>13. ASSUME NEW r \in Requests, Store(r) PROVE G
  BY <1>13 DEF FlowInv, TypeOK, Located, Verified, Opening, WithToken, Store, Leave,
     IsTokenUserValid
<1>14. ASSUME NEW r \in Requests, Abort(r) PROVE G
  BY <1>14 DEF FlowInv, TypeOK, Located, Verified, Opening, WithToken, Abort, Leave,
     IsTokenUserValid
<1>15. CASE Tick
  BY <1>15, Zenon DEF FlowInv, Located, Verified, Opening, Tick, IsTokenUserValid
<1>16. CASE UNCHANGED vars
  BY <1>16 DEF FlowInv, Located, Verified, Opening, vars, IsTokenUserValid
<1> QED
  BY <1>1, <1>2, <1>3, <1>4, <1>5, <1>6, <1>7, <1>8, <1>9, <1>10, <1>11, <1>12,
     <1>13, <1>14, <1>15, <1>16 DEF Next, Handle

\* PasswordResetUsername comes from a link and from nowhere else, also where a
\* handler writes an old copy of the session back.
LEMMA ResetStep ==
    FlowInv /\ [Next]_vars => ResetsAreVerified'
<1> SUFFICES ASSUME FlowInv, [Next]_vars PROVE ResetsAreVerified'
  OBVIOUS
<1> USE DEF tables, request, history, GoTo
<1> DEFINE Known(s, u) == OpenedFor(openers', s, "ResetPassword", u)
<1>0. \A s, u : OpenedFor(openers, s, "ResetPassword", u) => Known(s, u)
  BY OpenedForStays
<1>a. /\ \A s \in Sessions : flag[s] # NoUser => Known(s, flag[s])
      /\ \A r \in Requests : copy[r] # NoUser => Known(session[r], copy[r])
      /\ \A r \in Requests : pc[r] = "update" => copy[r] # NoUser
      /\ \A r \in Requests : pc[r] = "idle" => copy[r] = NoUser
  BY <1>0 DEF FlowInv, ResetsAreVerified
<1>b. SUFFICES
        /\ \A s \in Sessions : flag'[s] # NoUser => Known(s, flag'[s])
        /\ \A r \in Requests : copy'[r] # NoUser => Known(session'[r], copy'[r])
        /\ \A r \in Requests : pc'[r] = "update" => copy'[r] # NoUser
        /\ \A r \in Requests : pc'[r] = "idle" => copy'[r] = NoUser
  BY DEF ResetsAreVerified
<1> HIDE DEF Known
<1> DEFINE H == /\ \A s \in Sessions : flag'[s] # NoUser => Known(s, flag'[s])
                /\ \A r \in Requests : copy'[r] # NoUser => Known(session'[r], copy'[r])
                /\ \A r \in Requests : pc'[r] = "update" => copy'[r] # NoUser
                /\ \A r \in Requests : pc'[r] = "idle" => copy'[r] = NoUser
<1>t. /\ flag \in [Sessions -> Users \cup {NoUser}]
      /\ pc \in [Requests -> Steps]
      /\ session \in [Requests -> Sessions \cup {NoSession}]
      /\ copy \in [Requests -> Users \cup {NoUser}]
      /\ \A r \in Requests : pc[r] # "idle" => session[r] \in Sessions
  BY DEF FlowInv, TypeOK, Located
<1>1. ASSUME NEW r \in Requests, NEW s \in Sessions, NEW a \in Actions, Start(r, s, a)
      PROVE  H
  BY <1>1, <1>a, <1>t DEF Start, Begin
<1>2. ASSUME NEW r \in Requests, NEW s \in Sessions, NEW a \in Actions, NEW t \in mailed,
             Finish(r, s, a, t)
      PROVE  H
  BY <1>2, <1>a, <1>t DEF Finish, Begin
<1>3. ASSUME NEW r \in Requests, NEW s \in Sessions, ResetPasswordPost(r, s) \/ Load(r, s)
      PROVE  H
  BY <1>3, <1>a, <1>t DEF ResetPasswordPost, Load, Begin
<1>4. ASSUME NEW r \in Requests,
             \/ SaveIdentityVerificationToken(r) \/ FindIdentityVerificationToken(r)
             \/ ParseWithClaims(r) \/ RemoveIdentityVerificationToken(r) \/ UpdatePassword(r)
      PROVE  H
  BY <1>4, <1>a, <1>t, Zenon DEF SaveIdentityVerificationToken, FindIdentityVerificationToken,
     ParseWithClaims, RemoveIdentityVerificationToken, UpdatePassword
<1>5. ASSUME NEW r \in Requests, Send(r) \/ SaveTOTPSecret(r) \/ Abort(r) PROVE H
  BY <1>5, <1>a, <1>t DEF Send, SaveTOTPSecret, Abort, Leave
<1>6. ASSUME NEW r \in Requests, SetPasswordReset(r) PROVE H
  <2>1. OpenedFor(openers, session[r], "ResetPassword", token[r].user)
    BY <1>6 DEF SetPasswordReset, FlowInv, Located, Verified, Opening, WithToken, OpenedFor
  <2>2. Known(session[r], token[r].user)
    BY <1>0, <2>1
  <2> QED BY <1>6, <1>a, <1>t, <2>2 DEF SetPasswordReset, Leave
<1>7. ASSUME NEW r \in Requests, ClearPasswordReset(r) \/ Store(r) PROVE H
  BY <1>7, <1>a, <1>t DEF ClearPasswordReset, Store, Leave
<1>8. CASE Tick \/ UNCHANGED vars
  BY <1>8, <1>a, <1>t DEF Tick, vars
<1> QED BY <1>1, <1>2, <1>3, <1>4, <1>5, <1>6, <1>7, <1>8, Zenon DEF Next, Handle

\* A device is registered, and a password updated, after the flow was opened in
\* that session; no other step has an effect.
LEMMA EffectStep ==
    FlowInv /\ [Next]_vars => EffectsFollowVerification' /\ RegistrationByOwner'
<1> SUFFICES ASSUME FlowInv, [Next]_vars
             PROVE  EffectsFollowVerification' /\ RegistrationByOwner'
  OBVIOUS
<1> USE DEF tables, request, history, GoTo
<1> DEFINE Followed(e) == OpenedFor(openers', e.session, e.action, e.user)
           Owned(e) == e.action = "RegisterTOTPDevice" => SessionUser[e.session] = e.user
<1>1. \A e \in effects : Followed(e) /\ Owned(e)
  BY OpenersGrow
  DEF FlowInv, EffectsFollowVerification, RegistrationByOwner, OpenedFor
<1>2. ASSUME NEW r \in Requests, SaveTOTPSecret(r)
      PROVE  \A e \in effects' : Followed(e) /\ Owned(e)
  <2> DEFINE d == [session |-> session[r], action |-> "RegisterTOTPDevice",
                   user |-> token[r].user]
  <2>1. OpenedFor(openers, session[r], "RegisterTOTPDevice", token[r].user)
    BY <1>2 DEF SaveTOTPSecret, FlowInv, Located, Verified, Opening, WithToken, OpenedFor
  <2>2. SessionUser[session[r]] = token[r].user
    BY <1>2 DEF SaveTOTPSecret, FlowInv, Verified, Opening, IsTokenUserValid
  <2>3. Followed(d) /\ Owned(d)
    BY <2>1, <2>2, OpenedForStays
  <2>4. effects' = effects \cup {d}
    BY <1>2 DEF SaveTOTPSecret
  <2> HIDE DEF d, Followed, Owned
  <2> QED BY <1>1, <2>3, <2>4
<1>3. ASSUME NEW r \in Requests, UpdatePassword(r)
      PROVE  \A e \in effects' : Followed(e) /\ Owned(e)
  <2> DEFINE d == [session |-> session[r], action |-> "ResetPassword", user |-> copy[r]]
  <2>1. OpenedFor(openers, session[r], "ResetPassword", copy[r])
    BY <1>3 DEF UpdatePassword, FlowInv, ResetsAreVerified
  <2>2. Followed(d) /\ Owned(d)
    BY <2>1, OpenedForStays
  <2>3. effects' = effects \cup {d}
    BY <1>3 DEF UpdatePassword
  <2> HIDE DEF d, Followed, Owned
  <2> QED BY <1>1, <2>2, <2>3
<1>4. UNCHANGED effects => \A e \in effects' : Followed(e) /\ Owned(e)
  BY <1>1
<1>5. ASSUME \E r \in Requests, s \in Sessions :
                \/ \E a \in Actions : Start(r, s, a)
                \/ \E a \in Actions, t \in mailed : Finish(r, s, a, t)
                \/ ResetPasswordPost(r, s)
                \/ Load(r, s)
      PROVE  UNCHANGED effects
  BY <1>5 DEF Start, Finish, ResetPasswordPost, Load
<1>6. ASSUME NEW r \in Requests, Handle(r), ~SaveTOTPSecret(r), ~UpdatePassword(r)
      PROVE  UNCHANGED effects
  BY <1>6, Zenon DEF Handle, SaveIdentityVerificationToken, Send, FindIdentityVerificationToken,
     ParseWithClaims, RemoveIdentityVerificationToken, SetPasswordReset, ClearPasswordReset,
     Store, Abort
<1>7. ASSUME Tick \/ UNCHANGED vars PROVE UNCHANGED effects
  BY <1>7 DEF Tick, vars
<1>8. \A e \in effects' : Followed(e) /\ Owned(e)
  <2> HIDE DEF Followed, Owned
  <2> QED BY <1>1, <1>2, <1>3, <1>4, <1>5, <1>6, <1>7 DEF Next
<1> QED BY <1>8 DEF EffectsFollowVerification, RegistrationByOwner, OpenedFor

\* FlowInv is inductive.
LEMMA FlowStep == FlowInv /\ [Next]_vars => FlowInv'
BY TypeStep, RequestStep, ResetStep, EffectStep DEF FlowInv

\* Every state has the types that the module declares.
THEOREM TypeCorrect == Spec => []TypeOK
<1>1. FlowInv => TypeOK
  BY DEF FlowInv
<1> QED BY <1>1, FlowInit, FlowStep, PTL DEF Spec

\* A password is reset, and a device registered, only for the user of a link of
\* that kind that was opened in that very session (resetPasswordIdentityFinish,
\* ResetPasswordPost, secondFactorTOTPIdentityFinish), whatever copies of the
\* session concurrent handlers write back.
THEOREM EffectsAreVerified == Spec => []EffectsFollowVerification
<1>1. FlowInv => EffectsFollowVerification
  BY DEF FlowInv
<1> QED BY <1>1, FlowInit, FlowStep, PTL DEF Spec

\* A device is registered in a session of its owner alone
\* (isTokenUserValidFor2FARegistration).
THEOREM OwnersRegister == Spec => []RegistrationByOwner
<1>1. FlowInv => RegistrationByOwner
  BY DEF FlowInv
<1> QED BY <1>1, FlowInit, FlowStep, PTL DEF Spec

-----------------------------------------------------------------------------
(***************************************************************************)
(* How often a link opens its flow.                                        *)
(***************************************************************************)

\* Counting the requests that hold a token.
LEMMA HoldersCounted ==
    ASSUME NEW S \in SUBSET Requests, NEW T \in SUBSET S
    PROVE  /\ Cardinality(S) \in Nat /\ Cardinality(T) \in Nat
           /\ Cardinality(T) <= Cardinality(S)
           /\ Cardinality(S) <= Cardinality(Requests)
           /\ Cardinality(Requests) \in Nat
           /\ \A r \in S : Cardinality(S \ {r}) = Cardinality(S) - 1
<1>1. IsFiniteSet(Requests)
  BY IdentityAssumption
<1>2. IsFiniteSet(S) /\ IsFiniteSet(T)
  BY <1>1, FS_Subset
<1> QED BY <1>1, <1>2, FS_Subset, FS_CardinalityType, FS_RemoveElement

\* What OpensInv says of one token.
Opens(t) ==
    LET N == Cardinality(Requests) IN
    /\ t \in saved => opened[t] + N <= inserts[t] * N
    /\ t \notin saved => opened[t] + Cardinality(Holders(t)) <= inserts[t] * N

\* A step that leaves the table alone, and finds only tokens that are there.
LEMMA SameTable ==
    ASSUME TypeOK, OpensInv, UNCHANGED <<saved, opened, inserts>>,
           \A t \in Token \ saved : Holders(t)' \subseteq Holders(t)
    PROVE  OpensInv'
<1> SUFFICES ASSUME NEW t \in Token PROVE Opens(t)'
  BY DEF OpensInv, Opens
<1>1. Opens(t)
  BY DEF OpensInv, Opens
<1>2. CASE t \in saved
  BY <1>1, <1>2 DEF Opens
<1>3. CASE t \notin saved
  <2>1. Holders(t) \in SUBSET Requests /\ Holders(t)' \in SUBSET Holders(t)
    BY <1>3 DEF Holders
  <2>2. /\ Cardinality(Holders(t)') <= Cardinality(Holders(t))
        /\ Cardinality(Holders(t)) \in Nat /\ Cardinality(Holders(t)') \in Nat
        /\ Cardinality(Requests) \in Nat
    BY <2>1, HoldersCounted
  <2>3. opened[t] \in Nat /\ inserts[t] \in Nat
    BY DEF TypeOK
  <2>4. inserts[t] * Cardinality(Requests) \in Nat
    BY <2>2, <2>3
  <2> QED BY <1>1, <1>3, <2>2, <2>3, <2>4 DEF Opens
<1> QED BY <1>2, <1>3

\* An insertion makes room for every request once more.
LEMMA InsertOpens ==
    ASSUME FlowInv, OpensInv, NEW r \in Requests, SaveIdentityVerificationToken(r)
    PROVE  OpensInv'
<1> SUFFICES ASSUME NEW t \in Token PROVE Opens(t)'
  BY DEF OpensInv, Opens
<1> DEFINE N == Cardinality(Requests)
<1>1. Opens(t)
  BY DEF OpensInv, Opens
<1>2. /\ token[r] \in Token /\ pc[r] = "insert"
      /\ saved' = saved \cup {token[r]}
      /\ inserts' = [inserts EXCEPT ![token[r]] = @ + 1]
      /\ pc' = [pc EXCEPT ![r] = "send"]
      /\ UNCHANGED <<opened, token>>
  BY DEF FlowInv, Located, WithToken, SaveIdentityVerificationToken, GoTo, request, history
<1>3. opened[t] \in Nat /\ inserts[t] \in Nat
  BY DEF FlowInv, TypeOK
<1>4. Holders(t)' = Holders(t)
  BY <1>2 DEF Holders, FlowInv, TypeOK
<1>5. N \in Nat /\ Cardinality(Holders(t)) \in Nat /\ Cardinality(Holders(t)) <= N
  <2>1. Holders(t) \in SUBSET Requests
    BY DEF Holders
  <2> QED BY <2>1, HoldersCounted
<1>6. /\ inserts[t] * N \in Nat
      /\ (inserts[t] + 1) * N = inserts[t] * N + N
  BY <1>3, <1>5
<1>7. CASE t = token[r]
  <2>1. inserts'[t] = inserts[t] + 1 /\ t \in saved' /\ opened'[t] = opened[t]
    BY <1>2, <1>7 DEF FlowInv, TypeOK
  <2>2. opened[t] <= inserts[t] * N
    BY <1>1, <1>3, <1>5, <1>6 DEF Opens
  <2>3. opened'[t] + N <= inserts'[t] * N
    BY <1>3, <1>5, <1>6, <2>1, <2>2
  <2> QED BY <2>1, <2>3 DEF Opens
<1>8. CASE t # token[r]
  BY <1>1, <1>2, <1>4, <1>8 DEF Opens, FlowInv, TypeOK
<1> QED BY <1>7, <1>8

\* The request that deletes the token, or finds it deleted, holds it no more.
LEMMA RemoveOpens ==
    ASSUME FlowInv, OpensInv, NEW r \in Requests, RemoveIdentityVerificationToken(r)
    PROVE  OpensInv'
<1> SUFFICES ASSUME NEW t \in Token PROVE Opens(t)'
  BY DEF OpensInv, Opens
<1> DEFINE N == Cardinality(Requests)
<1>1. Opens(t)
  BY DEF OpensInv, Opens
<1>2. /\ token[r] \in Token /\ pc[r] = "remove"
      /\ saved' = saved \ {token[r]}
      /\ opened' = [opened EXCEPT ![token[r]] = @ + 1]
      /\ \E next \in {"save", "secret"} : pc' = [pc EXCEPT ![r] = next]
      /\ UNCHANGED <<inserts, token>>
  BY Zenon DEF FlowInv, Located, WithToken, RemoveIdentityVerificationToken,
     Deleted, GoTo, request
<1>3. opened[t] \in Nat /\ inserts[t] \in Nat
  BY DEF FlowInv, TypeOK
<1>4. Holders(t)' = Holders(t) \ {r}
  BY <1>2 DEF Holders, FlowInv, TypeOK
<1>5. /\ N \in Nat /\ Cardinality(Holders(t)) \in Nat /\ Cardinality(Holders(t)) <= N
      /\ \A q \in Holders(t) : Cardinality(Holders(t) \ {q}) = Cardinality(Holders(t)) - 1
  <2>1. Holders(t) \in SUBSET Requests
    BY DEF Holders
  <2> QED BY <2>1, HoldersCounted
<1>6. inserts[t] * N \in Nat
  BY <1>3, <1>5
<1>7. CASE t = token[r]
  <2>1. opened'[t] = opened[t] + 1 /\ t \notin saved' /\ inserts'[t] = inserts[t]
    BY <1>2, <1>7 DEF FlowInv, TypeOK
  <2>2. r \in Holders(t)
    BY <1>2, <1>7 DEF Holders
  <2>3. Cardinality(Holders(t)') = Cardinality(Holders(t)) - 1
    BY <1>4, <1>5, <2>2
  <2>4. opened[t] + Cardinality(Holders(t)) <= inserts[t] * N
    BY <1>1, <1>3, <1>5, <1>6 DEF Opens
  <2>5. opened'[t] + Cardinality(Holders(t)') <= inserts'[t] * N
    BY <1>3, <1>5, <1>6, <2>1, <2>3, <2>4
  <2> QED BY <2>1, <2>5 DEF Opens
<1>8. CASE t # token[r]
  <2>1. Holders(t)' = Holders(t)
    BY <1>2, <1>4, <1>8 DEF Holders
  <2> QED BY <1>1, <1>2, <1>8, <2>1 DEF Opens, FlowInv, TypeOK
<1> QED BY <1>7, <1>8

\* A step of a handler that holds no token afterwards, or the one it held.
LEMMA OpensStep == FlowInv /\ OpensInv /\ [Next]_vars => OpensInv'
<1> SUFFICES ASSUME FlowInv, OpensInv, [Next]_vars PROVE OpensInv'
  OBVIOUS
<1> USE DEF tables, request, history, GoTo
<1>0. TypeOK
  BY DEF FlowInv
<1>1. ASSUME NEW r \in Requests, NEW s \in Sessions,
             \/ \E a \in Actions : Start(r, s, a)
             \/ \E a \in Actions, t \in mailed : Finish(r, s, a, t)
             \/ ResetPasswordPost(r, s)
             \/ Load(r, s)
      PROVE  OpensInv'
  <2>1. UNCHANGED <<saved, opened, inserts>>
    BY <1>1 DEF Start, Finish, ResetPasswordPost, Load
  <2>2. \E x : token' = [token EXCEPT ![r] = x]
    BY <1>1, Zenon DEF Start, Finish, ResetPasswordPost, Load, Begin
  <2>3. \E next \in {"insert", "find", "update", "store"} : pc' = [pc EXCEPT ![r] = next]
    BY <1>1, Zenon DEF Start, Finish, ResetPasswordPost, Load, Begin
  <2>4. \A t : Holders(t)' \subseteq Holders(t)
    BY <1>0, <2>2, <2>3 DEF Holders, TypeOK
  <2> QED BY <1>0, <2>1, <2>4, SameTable
<1>2. ASSUME NEW r \in Requests, SaveIdentityVerificationToken(r) PROVE OpensInv'
  BY <1>2, InsertOpens
<1>3. ASSUME NEW r \in Requests, RemoveIdentityVerificationToken(r) PROVE OpensInv'
  BY <1>3, RemoveOpens
<1>4. ASSUME NEW r \in Requests, FindIdentityVerificationToken(r) PROVE OpensInv'
  <2>1. \A t \in Token \ saved : Holders(t)' \subseteq Holders(t)
    BY <1>0, <1>4 DEF Holders, TypeOK, FindIdentityVerificationToken
  <2> QED BY <1>0, <1>4, <2>1, SameTable DEF FindIdentityVerificationToken
<1>5. ASSUME NEW r \in Requests, ParseWithClaims(r) PROVE OpensInv'
  <2>1. \A t : Holders(t)' \subseteq Holders(t)
    BY <1>0, <1>5 DEF Holders, TypeOK, ParseWithClaims
  <2> QED BY <1>0, <1>5, <2>1, SameTable, Zenon DEF ParseWithClaims
<1>6. ASSUME NEW r \in Requests, UpdatePassword(r) PROVE OpensInv'
  <2>1. \A t : Holders(t)' \subseteq Holders(t)
    BY <1>0, <1>6 DEF Holders, TypeOK, UpdatePassword
  <2> QED BY <1>0, <1>6, <2>1, SameTable, Zenon DEF UpdatePassword
<1>7. ASSUME NEW r \in Requests, Leave(r), UNCHANGED <<saved, opened, inserts>>
      PROVE  OpensInv'
  <2>1. \A t : Holders(t)' \subseteq Holders(t)
    BY <1>0, <1>7 DEF Holders, TypeOK, Leave
  <2> QED BY <1>0, <1>7, <2>1, SameTable
<1>8. ASSUME NEW r \in Requests,
             \/ Send(r) \/ SaveTOTPSecret(r) \/ SetPasswordReset(r)
             \/ ClearPasswordReset(r) \/ Store(r) \/ Abort(r)
      PROVE  OpensInv'
  BY <1>7, <1>8 DEF Send, SaveTOTPSecret, SetPasswordReset, ClearPasswordReset, Store, Abort
<1>9. CASE Tick \/ UNCHANGED vars
  <2>1. UNCHANGED <<saved, opened, inserts, pc, token>>
    BY <1>9 DEF Tick, vars
  <2>2. \A t : Holders(t)' = Holders(t)
    BY <2>1 DEF Holders
  <2> QED BY <1>0, <2>1, <2>2, SameTable
<1> QED
  BY <1>1, <1>2, <1>3, <1>4, <1>5, <1>6, <1>8, <1>9 DEF Next, Handle

\* How often a link opens its flow: once per insertion of its token and request
\* slot, although the search for the token and its deletion are two queries
\* (IdentityVerificationFinish) and links of one second share their token.
THEOREM LinkOpensBounded == Spec => []OpensBounded
<1>1. Init => OpensInv
  <2> SUFFICES ASSUME Init PROVE OpensInv
    OBVIOUS
  <2>1. \A t : Holders(t) = {}
    BY DEF Init, Holders
  <2>2. Cardinality({}) = 0
    BY FS_EmptySet
  <2>3. Cardinality(Requests) \in Nat
    BY FS_CardinalityType, IdentityAssumption
  <2>4. 0 + Cardinality({}) <= 0 * Cardinality(Requests)
    BY <2>2, <2>3
  <2> QED BY <2>1, <2>4 DEF Init, OpensInv
<1>2. FlowInv /\ OpensInv => OpensBounded
  <2> SUFFICES ASSUME FlowInv, OpensInv, NEW t \in Token
               PROVE  opened[t] <= inserts[t] * Cardinality(Requests)
    BY DEF OpensBounded
  <2>1. opened[t] \in Nat /\ inserts[t] \in Nat
    BY DEF FlowInv, TypeOK
  <2>2. Holders(t) \in SUBSET Requests
    BY DEF Holders
  <2>3. Cardinality(Holders(t)) \in Nat /\ Cardinality(Requests) \in Nat
    BY <2>2, HoldersCounted
  <2>4. inserts[t] * Cardinality(Requests) \in Nat
    BY <2>1, <2>3
  <2> QED BY <2>1, <2>3, <2>4 DEF OpensInv
<1> QED BY <1>1, <1>2, FlowInit, FlowStep, OpensStep, PTL DEF Spec

-----------------------------------------------------------------------------
(***************************************************************************)
(* A configuration that Read accepts has password settings with which a    *)
(* password can be hashed, whatever numbers the file has.                  *)
(***************************************************************************)

\* What the property asks of the settings.
Hashable(p) ==
    p.memory # DefaultPassword.memory \/ p.parallelism <= 8192 => HashPasswordSucceeds(p)

\* The settings that stand for a section left out.
LEMMA DefaultIsConfiguration ==
    DefaultPassword \in PasswordConfigurations
BY DEF DefaultPassword, PasswordConfigurations, AlgorithmTexts

\* The numbers are integers again, and pass the checks of HashPassword.
LEMMA DefaultsHash ==
    ASSUME NEW p \in PasswordConfigurations
    PROVE  /\ PasswordDefaults(p) \in PasswordConfigurations
           /\ PasswordErrors(p) = {} => Hashable(PasswordDefaults(p))
<1> DEFINE q == PasswordDefaults(p)
<1>1. CASE ~p.given
  <2>0. q = DefaultPassword
    BY <1>1 DEF PasswordDefaults
  <2>1. DefaultPassword \in PasswordConfigurations
    BY DefaultIsConfiguration
  <2>2. HashPasswordSucceeds(DefaultPassword)
    BY DEF DefaultPassword, HashPasswordSucceeds, validateArgon2idSettings
  <2> QED BY <2>0, <2>1, <2>2 DEF Hashable
<1>2. CASE p.given
  <2> DEFINE algorithm == Default(ToLower(p.algorithm), "argon2id")
  <2> DEFINE argon == algorithm = "argon2id"
  <2> DEFINE iterations == DefaultInt(p.iterations, IF argon THEN 1 ELSE 50000)
  <2> DEFINE saltLength == DefaultInt(p.saltLength, 16)
  <2> DEFINE parallelism == IF argon THEN DefaultInt(p.parallelism, 8) ELSE p.parallelism
  <2> DEFINE memory == IF argon THEN DefaultInt(p.memory, 64) ELSE p.memory
  <2> DEFINE keyLength == IF argon THEN DefaultInt(p.keyLength, 32) ELSE p.keyLength
  <2> DEFINE settings == [given |-> TRUE, algorithm |-> algorithm, iterations |-> iterations,
                          saltLength |-> saltLength, parallelism |-> parallelism,
                          memory |-> memory, keyLength |-> keyLength]
  <2>0. q = IF ~p.given THEN DefaultPassword ELSE settings
    BY SMTT(30) DEF PasswordDefaults
  <2>1. q = settings
    <3> HIDE DEF q, settings
    <3> QED BY <1>2, <2>0, Zenon
  <2>2. algorithm \in AlgorithmTexts
    BY Zenon DEF PasswordConfigurations, AlgorithmTexts, Default, ToLower
  <2>3. q \in PasswordConfigurations
    <3>1. /\ p.iterations \in Int /\ p.saltLength \in Int /\ p.parallelism \in Int
          /\ p.memory \in Int /\ p.keyLength \in Int
      BY Zenon DEF PasswordConfigurations
    <3>2. /\ iterations \in Int /\ saltLength \in Int /\ parallelism \in Int
          /\ memory \in Int /\ keyLength \in Int
      <4> HIDE DEF algorithm
      <4>1. iterations \in Int
        BY <3>1 DEF DefaultInt
      <4>2. saltLength \in Int
        BY <3>1 DEF DefaultInt
      <4>3. parallelism \in Int
        BY <3>1 DEF DefaultInt
      <4>4. memory \in Int
        BY <3>1 DEF DefaultInt
      <4>5. keyLength \in Int
        BY <3>1 DEF DefaultInt
      <4> HIDE DEF iterations, saltLength, parallelism, memory, keyLength
      <4> QED BY <4>1, <4>2, <4>3, <4>4, <4>5, Zenon
    <3> HIDE DEF q, algorithm, argon, iterations, saltLength, parallelism, memory, keyLength
    <3>3. settings \in PasswordConfigurations
      BY <2>2, <3>2, Zenon DEF PasswordConfigurations
    <3> QED BY <2>1, <3>3, Zenon
  <2>4. q.algorithm = algorithm /\ (argon => q.memory = DefaultInt(p.memory, 64))
    <3>1. settings.algorithm = algorithm /\ settings.memory = memory
      <4> HIDE DEF algorithm, iterations, saltLength, parallelism, memory, keyLength
      <4> QED BY Zenon
    <3>2. argon => memory = DefaultInt(p.memory, 64)
      <4> HIDE DEF algorithm
      <4> QED BY Zenon
    <3> HIDE DEF q, algorithm, memory, settings
    <3> QED BY <2>1, <3>1, <3>2, Zenon
  <2> HIDE DEF q, algorithm
  <2>5. ASSUME PasswordErrors(p) = {} PROVE Hashable(q)
    <3>1. /\ algorithm \in {"argon2id", "sha512"}
          /\ ~(q.iterations < 1) /\ ~(q.saltLength < 8)
          /\ argon => /\ ~(q.parallelism < 1) /\ ~(q.keyLength < 16)
                      /\ ~(p.memory # 0 /\ p.memory < q.parallelism * 8)
      BY <1>2, <2>4, <2>5, Zenon DEF PasswordErrors, Errs, q
    <3>2. CASE ~argon
      BY <2>3, <2>4, <3>1, <3>2 DEF Hashable, HashPasswordSucceeds, PasswordConfigurations
    <3>3. CASE argon
      <4>1. q.memory \in Int /\ q.parallelism \in Int /\ q.iterations \in Int
            /\ q.keyLength \in Int /\ q.saltLength \in Int /\ p.memory \in Int
        BY <2>3 DEF PasswordConfigurations
      <4>2. ASSUME q.memory # 64 \/ q.parallelism <= 8192
            PROVE  q.memory * 1024 >= q.parallelism * 8 /\ q.memory * 1024 >= 8
        BY <2>4, <3>1, <3>3, <4>1, <4>2 DEF DefaultInt
      <4> QED BY <2>4, <3>1, <3>3, <4>1, <4>2
              DEF Hashable, HashPasswordSucceeds, validateArgon2idSettings, DefaultPassword
    <3> QED BY <3>2, <3>3
  <2> QED BY <2>3, <2>5 DEF q
<1> QED BY <1>1, <1>2

\* The steps before the backend is validated.
BeforeBackend ==
    {"ValidateSecrets", "root", "ValidateTheme", "ValidateLogging", "ValidateTOTP",
     "ValidateAuthenticationBackend"}

\* Errors are never taken back, startServer goes on only without one, and no
\* validator after that of the backend changes its settings again.
HashInv ==
    /\ IsConfiguration(config)
    /\ step \notin BeforeBackend /\ pushed = {} /\ config.backend.file.given =>
          Hashable(config.backend.file.password)
    /\ Accepted => pushed = {}

\* Whether settings can be hashed depends on the settings alone.
LEMMA HashableNext ==
    Hashable(config.backend.file.password)' <=> Hashable(config'.backend.file.password)
BY SMTT(30) DEF Hashable, HashPasswordSucceeds, validateArgon2idSettings, DefaultPassword

\* A validator that leaves the backend alone.
LEMMA OtherValidator ==
    ASSUME HashInv, NEW f, NEW c, NEW e, NEW n, Validates(f, c, e, n),
           DOMAIN c = DOMAIN config, c.backend = config.backend,
           n \notin BeforeBackend => f \notin BeforeBackend,
           n \notin {Constructors[i] : i \in 2..Len(Constructors)}
    PROVE  HashInv'
<1>1. step = f /\ step' = n /\ config' = c /\ (pushed' = {} => pushed = {})
  BY DEF Validates
<1>2. IsConfiguration(config)'
  BY <1>1, Zenon DEF HashInv, IsConfiguration
<1>3. ~Accepted'
  BY <1>1 DEF Accepted
<1>4. (step \notin BeforeBackend /\ pushed = {} /\ config.backend.file.given =>
          Hashable(config.backend.file.password))'
  BY <1>1, HashableNext, Zenon DEF HashInv
<1> QED BY <1>2, <1>3, <1>4, Zenon DEF HashInv

\* The one that settles and checks them.
LEMMA BackendValidator ==
    ASSUME HashInv, ReadBackend
    PROVE  HashInv'
<1> DEFINE c == ValidateAuthenticationBackend(config)
<1> DEFINE file == config.backend.file
<1>1. /\ step' = "ValidateAccessControl" /\ config' = c
      /\ pushed' = pushed \cup ValidateAuthenticationBackendErrors(config)
  BY DEF ReadBackend, Validates
<1>2. IsConfiguration(config) /\ file \in [given : BOOLEAN, path : STRING, password : PasswordConfigurations]
  BY DEF HashInv, IsConfiguration
<1>3. DOMAIN c = DOMAIN config /\ DOMAIN c.backend = DOMAIN config.backend
  BY <1>2 DEF ValidateAuthenticationBackend, IsConfiguration
<1>4. c.backend.file =
        [file EXCEPT !.password = IF file.given THEN PasswordDefaults(file.password) ELSE file.password]
  BY <1>2, Zenon DEF ValidateAuthenticationBackend, IsConfiguration
<1> HIDE DEF c
<1>5. PasswordDefaults(file.password) \in PasswordConfigurations
  BY <1>2, DefaultsHash
<1>6. c.backend.file \in [given : BOOLEAN, path : STRING, password : PasswordConfigurations]
  BY <1>2, <1>4, <1>5
<1>7. IsConfiguration(config)'
  BY <1>1, <1>2, <1>3, <1>6 DEF IsConfiguration
<1>8. ASSUME pushed' = {}, c.backend.file.given
      PROVE  Hashable(c.backend.file.password)
  <2>1. file.given /\ c.backend.file.password = PasswordDefaults(file.password)
    BY <1>2, <1>4, <1>8
  <2>2. PasswordErrors(file.password) \subseteq ValidateAuthenticationBackendErrors(config)
    BY <2>1, Zenon DEF ValidateAuthenticationBackendErrors
  <2>3. PasswordErrors(file.password) = {}
    BY <1>1, <1>8, <2>2
  <2> QED BY <1>2, <2>1, <2>3, DefaultsHash
<1>9. ~Accepted'
  BY <1>1 DEF Accepted, Constructors
<1>10. (step \notin BeforeBackend /\ pushed = {} /\ config.backend.file.given =>
           Hashable(config.backend.file.password))'
  BY <1>1, <1>8, HashableNext, Zenon
<1> QED BY <1>7, <1>9, <1>10 DEF HashInv

\* A constructor, or a failure while it runs.
LEMMA ConstructorStep ==
    ASSUME HashInv, StartServer
    PROVE  HashInv'
<1>1. UNCHANGED <<config, pushed>>
  BY Zenon DEF StartServer, CheckErrors, NewX509CertPool, NewStorage, NewBackend,
     NewNotifier,
         NewAuthorizer, NewProvider, NewRegulator, NewOpenIDConnectProvider, Constructs, Unreachable
<1>2. IsConfiguration(config)'
  BY <1>1 DEF HashInv, IsConfiguration
<1>3. step \notin BeforeBackend
  BY Zenon DEF StartServer, CheckErrors, NewX509CertPool, NewStorage, NewBackend,
     NewNotifier,
         NewAuthorizer, NewProvider, NewRegulator, NewOpenIDConnectProvider, Constructs,
         Unreachable, Constructors, BeforeBackend
<1>4. (step \notin BeforeBackend /\ pushed = {} /\ config.backend.file.given =>
          Hashable(config.backend.file.password))'
  BY <1>1, <1>3, HashableNext, Zenon DEF HashInv
<1>5. CASE CheckErrors
  <2>1. stop' # "" => step' = step
    BY <1>5, Zenon DEF CheckErrors, Constructs
  <2>2. stop' = "" => pushed = {}
    BY <1>5, Zenon DEF CheckErrors, Constructs, Reason
  <2>3. Accepted' => Accepted \/ pushed = {}
    BY <2>1, <2>2, Zenon DEF Accepted
  <2> QED BY <1>1, <1>2, <1>4, <2>3 DEF HashInv
<1>6. CASE ~CheckErrors
  <2>1. \E i \in 2..9 : step = Constructors[i]
    <3>1. CASE Unreachable
      <4>1. step \in {Constructors[2], Constructors[3], Constructors[4], Constructors[5], Constructors[7]}
        BY <3>1, Zenon DEF Unreachable, Constructors
      <4> QED BY <4>1
    <3>2. CASE ~Unreachable
      <4>1. \/ NewX509CertPool \/ NewStorage \/ NewBackend \/ NewNotifier
            \/ NewAuthorizer \/ NewProvider \/ NewRegulator \/ NewOpenIDConnectProvider
        BY <1>6, <3>2, Zenon DEF StartServer
      <4>2. \/ step = Constructors[2] \/ step = Constructors[3] \/ step = Constructors[4]
            \/ step = Constructors[5] \/ step = Constructors[6] \/ step = Constructors[7]
            \/ step = Constructors[8] \/ step = Constructors[9]
        BY <4>1, Zenon DEF NewX509CertPool, NewStorage, NewBackend, NewNotifier,
           NewAuthorizer, NewProvider, NewRegulator, NewOpenIDConnectProvider, Constructs
      <4> QED BY <4>2
    <3> QED BY <3>1, <3>2
  <2>2. Len(Constructors) = 10
    BY DEF Constructors
  <2>3. Accepted
    BY <2>1, <2>2 DEF Accepted
  <2> QED BY <1>1, <1>2, <1>4, <2>3 DEF HashInv
<1> QED BY <1>5, <1>6

\* The last step is Accepted, the others are not.
LEMMA NotYetAccepted ==
    \A n \in BeforeBackend \cup {"ValidateRules", "ValidateSession", "ValidateRegulation",
            "ValidateServer", "ValidateStorage", "ValidateNotifier", "validateOIDC",
            "ValidateKeys", "startServer"} :
        n \notin {Constructors[i] : i \in 2..Len(Constructors)}
BY DEF Constructors, BeforeBackend

\* Every step of Read and of startServer.
LEMMA HashStep ==
    HashInv /\ [ConfigNext]_configVars => HashInv'
<1> SUFFICES ASSUME HashInv, [ConfigNext]_configVars PROVE HashInv'
  OBVIOUS
<1>0. DOMAIN config = {"root", "duo", "secrets", "log", "totp", "server", "backend", "acl",
                       "session", "regulation", "storage", "notifier", "oidc", "keys"}
  BY DEF HashInv, IsConfiguration
<1>1. CASE UNCHANGED configVars
  <2>1. config' = config /\ pushed' = pushed /\ step' = step /\ stop' = stop
    BY <1>1, Zenon DEF configVars
  <2>2. IsConfiguration(config)' /\ (Accepted' <=> Accepted)
    BY <2>1, Zenon DEF HashInv, IsConfiguration, Accepted
  <2> QED BY <2>1, <2>2, HashableNext, Zenon DEF HashInv
<1>2. CASE ReadSecrets
  <2> DEFINE c == ValidateSecrets(config)
  <2>1. DOMAIN c = DOMAIN config /\ c.backend = config.backend
    BY <1>0 DEF ValidateSecrets
  <2> QED BY <1>2, <2>1, NotYetAccepted, OtherValidator DEF ReadSecrets, BeforeBackend
<1>3. CASE ReadRoot
  <2>1. DOMAIN ValidateRoot(config) = DOMAIN config /\ ValidateRoot(config).backend = config.backend
    BY <1>0 DEF ValidateRoot
  <2> QED BY <1>3, <2>1, NotYetAccepted, OtherValidator DEF ReadRoot, BeforeBackend
<1>4. CASE ReadTheme
  <2>1. DOMAIN ValidateTheme(config) = DOMAIN config /\ ValidateTheme(config).backend = config.backend
    BY <1>0 DEF ValidateTheme
  <2> QED BY <1>4, <2>1, NotYetAccepted, OtherValidator DEF ReadTheme, BeforeBackend
<1>5. CASE ReadLogging
  <2>1. DOMAIN ValidateLogging(config) = DOMAIN config /\ ValidateLogging(config).backend = config.backend
    BY <1>0 DEF ValidateLogging
  <2> QED BY <1>5, <2>1, NotYetAccepted, OtherValidator DEF ReadLogging, BeforeBackend
<1>6. CASE ReadTOTP
  <2>1. DOMAIN ValidateTOTP(config) = DOMAIN config /\ ValidateTOTP(config).backend = config.backend
    BY <1>0 DEF ValidateTOTP
  <2> QED BY <1>6, <2>1, NotYetAccepted, OtherValidator DEF ReadTOTP, BeforeBackend
<1>7. CASE ReadBackend
  BY <1>7, BackendValidator
<1>8. CASE ReadAccessControl
  <2>1. /\ DOMAIN ValidateAccessControl(config) = DOMAIN config
        /\ ValidateAccessControl(config).backend = config.backend
    BY <1>0 DEF ValidateAccessControl
  <2> QED BY <1>8, <2>1, NotYetAccepted, OtherValidator DEF ReadAccessControl, BeforeBackend
<1>9. CASE ReadRules \/ ReadKeys
  BY <1>9, NotYetAccepted, OtherValidator DEF ReadRules, ReadKeys, BeforeBackend
<1>10. CASE ReadSession
  <2>1. DOMAIN ValidateSession(config) = DOMAIN config /\ ValidateSession(config).backend = config.backend
    BY <1>0 DEF ValidateSession
  <2> QED BY <1>10, <2>1, NotYetAccepted, OtherValidator DEF ReadSession, BeforeBackend
<1>11. CASE ReadRegulation
  <2>1. /\ DOMAIN ValidateRegulation(config) = DOMAIN config
        /\ ValidateRegulation(config).backend = config.backend
    BY <1>0 DEF ValidateRegulation
  <2> QED BY <1>11, <2>1, NotYetAccepted, OtherValidator DEF ReadRegulation, BeforeBackend
<1>12. CASE ReadServer
  <2>1. DOMAIN ValidateServer(config) = DOMAIN config /\ ValidateServer(config).backend = config.backend
    BY <1>0 DEF ValidateServer
  <2> QED BY <1>12, <2>1, NotYetAccepted, OtherValidator DEF ReadServer, BeforeBackend
<1>13. CASE ReadStorage
  <2>1. DOMAIN ValidateStorage(config) = DOMAIN config /\ ValidateStorage(config).backend = config.backend
    BY <1>0 DEF ValidateStorage
  <2> QED BY <1>13, <2>1, NotYetAccepted, OtherValidator DEF ReadStorage, BeforeBackend
<1>14. CASE ReadNotifier
  <2>1. DOMAIN ValidateNotifier(config) = DOMAIN config /\ ValidateNotifier(config).backend = config.backend
    BY <1>0 DEF ValidateNotifier
  <2> QED BY <1>14, <2>1, NotYetAccepted, OtherValidator DEF ReadNotifier, BeforeBackend
<1>15. CASE ReadOIDC
  <2>1. DOMAIN ValidateOIDC(config) = DOMAIN config /\ ValidateOIDC(config).backend = config.backend
    BY <1>0 DEF ValidateOIDC
  <2> QED BY <1>15, <2>1, NotYetAccepted, OtherValidator DEF ReadOIDC, BeforeBackend
<1>16. CASE StartServer
  BY <1>16, ConstructorStep
<1> QED
  BY <1>1, <1>2, <1>3, <1>4, <1>5, <1>6, <1>7, <1>8, <1>9, <1>10, <1>11, <1>12, <1>13,
     <1>14, <1>15, <1>16 DEF ConfigNext, ReadConfiguration

\* Accepted settings hash passwords: what validateFileAuthenticationBackend lets
\* pass, for all integers in the file, HashPassword does not refuse when
\* UpdatePassword calls it, up to the parallelism that the default memory allows.
THEOREM AcceptedPasswordsCanBeHashed ==
    ConfigSpec => []PasswordsCanBeHashed
<1>1. ConfigInit => HashInv
  BY Zenon DEF ConfigInit, HashInv, BeforeBackend, Accepted, Constructors
<1>2. HashInv => PasswordsCanBeHashed
  <2>1. Accepted => step \notin BeforeBackend
    BY DEF Accepted, Constructors, BeforeBackend
  <2> QED BY <2>1 DEF HashInv, PasswordsCanBeHashed, Hashable
<1> QED BY <1>1, <1>2, HashStep, PTL DEF ConfigSpec
=============================================================================
