------------------------------- MODULE AuthProofs -------------------------------
(****************************************************************************)
(* Theorems about the routes of src/auth: about Sessions, for any number of *)
(* families, requests and tokens, and about Accounts, for any number of     *)
(* users and calls; both under every fault.                                 *)
(****************************************************************************)
EXTENDS Sessions, Accounts, FiniteSetTheorems, TLAPS

States == {"idle", "insert", "revoke", "answer", "revokeFamily", "done"}
Working == {"insert", "revoke", "answer", "revokeFamily"}
RequestRecord == [at : States, old : 0..MaxTokens, new : 0..MaxTokens]

\* A request at work has presented a row of its family; the token it has
\* inserted is one as well.
RequestsKnowRows ==
  \A q \in Requests :
    /\ request[q].at \in Working => request[q].old \in 1..issued[FamilyOf[q]]
    /\ request[q].at \in {"revoke", "answer"} => request[q].new \in 1..issued[FamilyOf[q]]

TypeInv == TypeOK /\ RequestsKnowRows

\* What setting a request does to it and to the others.
LEMMA SetRequestSets ==
  ASSUME request \in [Requests -> RequestRecord], NEW q \in Requests, NEW at \in States,
         NEW old \in 0..MaxTokens, NEW new \in 0..MaxTokens, SetRequest(q, at, old, new)
  PROVE  /\ request' \in [Requests -> RequestRecord]
         /\ request'[q] = [at |-> at, old |-> old, new |-> new]
         /\ \A r \in Requests \ {q} : request'[r] = request[r]
BY DEF SetRequest, RequestRecord

\* Types, and what requests know, are kept by every step.
LEMMA TypeInvariant == Spec => []TypeInv
<1>1. Init => TypeInv
  BY SessionAssumption DEF Init, TypeInv, TypeOK, RequestsKnowRows, Idle, Token, Working
<1>2. TypeInv /\ [Next]_vars => TypeInv'
  <2> SUFFICES ASSUME TypeInv, [Next]_vars PROVE TypeInv'
    OBVIOUS
  <2>0. /\ TypeOK /\ RequestsKnowRows
        /\ FamilyOf \in [Requests -> Families] /\ MaxTokens \in Nat \ {0}
    BY SessionAssumption DEF TypeInv
  <2>1. CASE UNCHANGED vars
    BY <2>0, <2>1 DEF vars, tokens, TypeInv, TypeOK, RequestsKnowRows
  <2>2. ASSUME NEW f \in Families, Login(f) PROVE TypeInv'
    <3>1. /\ issued' \in [Families -> 0..MaxTokens] /\ live' \in [Families -> SUBSET Token]
          /\ known' \in [Families -> SUBSET Token]
      BY <2>0, <2>2 DEF Login, TypeOK, Token
    <3>2. \A g \in Families : /\ live'[g] \subseteq 1..issued'[g]
                              /\ expired'[g] \subseteq 1..issued'[g]
                              /\ known'[g] \subseteq 1..issued'[g]
      BY <2>0, <2>2 DEF Login, TypeOK
    <3>3. \A g \in Families : issued'[g] \in 0..MaxTokens /\ issued[g] <= issued'[g]
      BY <2>0, <2>2 DEF Login, TypeOK
    <3>4. RequestsKnowRows'
      BY <2>0, <2>2, <3>3 DEF Login, TypeOK, RequestsKnowRows
    <3> QED BY <2>0, <2>2, <3>1, <3>2, <3>4 DEF Login, TypeInv, TypeOK
  <2>3. ASSUME NEW f \in Families, NEW t \in Token, TokenExpires(f, t) PROVE TypeInv'
    BY <2>0, <2>3 DEF TokenExpires, TypeInv, TypeOK, RequestsKnowRows, Token
  <2>4. ASSUME NEW f \in Families, NEW t \in Token, Logout(f, t) PROVE TypeInv'
    BY <2>0, <2>4 DEF Logout, TypeInv, TypeOK, RequestsKnowRows, Token
  <2>5. ASSUME NEW q \in Requests, NEW t \in Token, Present(q, t) PROVE TypeInv'
    <3> DEFINE f == FamilyOf[q]
    <3>1. f \in Families /\ t \in 0..MaxTokens /\ 0 \in 0..MaxTokens /\ NextStep(f, t) \in States
      BY <2>0 DEF NextStep, States, Token
    <3>2. SetRequest(q, NextStep(f, t), t, 0) /\ t \in known[f]
      BY <2>5 DEF Present, Sends
    <3>3. request \in [Requests -> RequestRecord]
      BY <2>0 DEF TypeOK, RequestRecord, States
    <3>4. /\ request' \in [Requests -> RequestRecord]
          /\ request'[q] = [at |-> NextStep(f, t), old |-> t, new |-> 0]
          /\ \A r \in Requests \ {q} : request'[r] = request[r]
      BY <3>1, <3>2, <3>3, SetRequestSets
    <3>5. t \in 1..issued[f] /\ NextStep(f, t) \notin {"revoke", "answer"}
      BY <2>0, <3>1, <3>2 DEF TypeOK, NextStep
    <3>6. RequestsKnowRows'
      BY <2>0, <2>5, <3>4, <3>5 DEF RequestsKnowRows, Present, tokens
    <3>7. presented' \in [Families -> [Token -> Nat]]
      <4>1. presented' = [presented EXCEPT ![f] = [presented[f] EXCEPT ![t] = presented[f][t] + 1]]
        BY <2>5 DEF Present
      <4>2. presented[f] \in [Token -> Nat] /\ presented \in [Families -> [Token -> Nat]]
        BY <2>0, <3>1 DEF TypeOK
      <4>3. [presented[f] EXCEPT ![t] = @ + 1] \in [Token -> Nat]
        BY <4>2
      <4> QED BY <3>1, <4>1, <4>2, <4>3
    <3> QED BY <2>0, <2>5, <3>4, <3>6, <3>7 DEF Present, TypeInv, TypeOK, tokens, RequestRecord, States
  <2>6. ASSUME NEW q \in Requests, InsertNext(q) PROVE TypeInv'
    <3> DEFINE f == FamilyOf[q]
               t == issued[f] + 1
    <3>1. f \in Families /\ t \in Token /\ request[q].at = "insert"
      BY <2>0, <2>6 DEF InsertNext
    <3>2. /\ issued' = [issued EXCEPT ![f] = t] /\ live' = [live EXCEPT ![f] = @ \cup {t}]
          /\ SetRequest(q, "revoke", request[q].old, t)
      BY <2>6 DEF InsertNext
    <3>3. request \in [Requests -> RequestRecord] /\ request[q].old \in 0..MaxTokens
          /\ t \in 0..MaxTokens /\ "revoke" \in States
      BY <2>0, <3>1 DEF TypeOK, RequestRecord, States, Token
    <3>4. /\ request' \in [Requests -> RequestRecord]
          /\ request'[q] = [at |-> "revoke", old |-> request[q].old, new |-> t]
          /\ \A r \in Requests \ {q} : request'[r] = request[r]
      BY <3>2, <3>3, SetRequestSets
    <3>5. /\ issued' \in [Families -> 0..MaxTokens] /\ issued'[f] = t
          /\ \A g \in Families : issued'[g] \in 0..MaxTokens /\ issued[g] <= issued'[g] /\ issued[g] \in Nat
      BY <2>0, <3>1, <3>2, <3>3 DEF TypeOK
    <3>6. /\ live' \in [Families -> SUBSET Token]
          /\ \A g \in Families : live'[g] \subseteq 1..issued'[g]
      <4>1. live \in [Families -> SUBSET Token] /\ \A g \in Families : live[g] \subseteq 1..issued[g]
        BY <2>0 DEF TypeOK
      <4>2. live'[f] = live[f] \cup {t} /\ \A g \in Families \ {f} : live'[g] = live[g]
        BY <3>1, <3>2, <4>1
      <4>3. t \in 1..issued'[f] /\ \A g \in Families : live[g] \subseteq 1..issued'[g]
        BY <3>1, <3>5, <4>1 DEF Token
      <4>4. live' \in [Families -> SUBSET Token]
        BY <3>1, <3>2, <4>1
      <4> QED BY <4>2, <4>3, <4>4
    <3>7. \A g \in Families : expired[g] \subseteq 1..issued'[g] /\ known[g] \subseteq 1..issued'[g]
      BY <2>0, <3>5 DEF TypeOK
    <3>8. request[q].old \in 1..issued[f]
      BY <2>0, <3>1 DEF RequestsKnowRows, Working
    <3>9. RequestsKnowRows'
      <4>1. ASSUME NEW r \in Requests \ {q}
            PROVE  /\ request'[r].at \in Working => request'[r].old \in 1..issued'[FamilyOf[r]]
                   /\ request'[r].at \in {"revoke", "answer"} => request'[r].new \in 1..issued'[FamilyOf[r]]
        BY <2>0, <3>4, <3>5 DEF RequestsKnowRows
      <4>2. request'[q].old \in 1..issued'[f] /\ request'[q].new \in 1..issued'[f]
        BY <3>1, <3>4, <3>5, <3>8
      <4> QED BY <4>1, <4>2 DEF RequestsKnowRows
    <3> QED BY <2>0, <2>6, <3>4, <3>5, <3>6, <3>7, <3>9 DEF InsertNext, TypeInv, TypeOK, RequestRecord, States
  <2>7. ASSUME NEW q \in Requests,
               RevokeOld(q) \/ Answer(q) \/ RevokeFamily(q) \/ Dies(q) \/ DiesHalfWay(q) \/ AnswerLost(q)
        PROVE  TypeInv'
    <3> DEFINE f == FamilyOf[q]
    <3>1. f \in Families /\ request[q] \in RequestRecord /\ request \in [Requests -> RequestRecord]
          /\ request[q].old \in 0..MaxTokens /\ request[q].new \in 0..MaxTokens /\ 0 \in 0..MaxTokens
          /\ {"done", "answer"} \subseteq States
      BY <2>0 DEF TypeOK, RequestRecord, States
    <3>2. \/ request[q].at = "revoke" /\ SetRequest(q, "answer", request[q].old, request[q].new)
          \/ SetRequest(q, "done", 0, 0)
      BY <2>7 DEF RevokeOld, Answer, RevokeFamily, Dies, DiesHalfWay, AnswerLost
    <3>3. /\ request' \in [Requests -> RequestRecord]
          /\ \A r \in Requests \ {q} : request'[r] = request[r]
          /\ \/ request[q].at = "revoke" /\ request'[q] = [at |-> "answer", old |-> request[q].old, new |-> request[q].new]
             \/ request'[q] = [at |-> "done", old |-> 0, new |-> 0]
      BY <3>1, <3>2, SetRequestSets
    <3>4. issued' = issued /\ expired' = expired /\ presented' = presented
      BY <2>7 DEF RevokeOld, Answer, RevokeFamily, Dies, DiesHalfWay, AnswerLost, tokens
    <3>5. RequestsKnowRows'
      BY <2>0, <3>1, <3>3, <3>4 DEF RequestsKnowRows, Working
    <3>6. live' \in [Families -> SUBSET Token] /\ \A g \in Families : live'[g] \subseteq live[g]
      <4>1. \/ live' = live
            \/ live' = [live EXCEPT ![f] = @ \ {Revoked(q)}]
            \/ live' = [live EXCEPT ![f] = {}]
        BY <2>7 DEF RevokeOld, Answer, RevokeFamily, Dies, DiesHalfWay, AnswerLost, tokens
      <4>2. live \in [Families -> SUBSET Token]
        BY <2>0 DEF TypeOK
      <4>3. live[f] \ {Revoked(q)} \in SUBSET Token
        BY <3>1, <4>2
      <4>4. CASE live' = live
        BY <4>2, <4>4
      <4>5. CASE live' = [live EXCEPT ![f] = @ \ {Revoked(q)}]
        BY <3>1, <4>2, <4>3, <4>5
      <4>6. CASE live' = [live EXCEPT ![f] = {}]
        BY <3>1, <4>2, <4>6
      <4> QED BY <4>1, <4>4, <4>5, <4>6
    <3>7. known' \in [Families -> SUBSET Token] /\ \A g \in Families : known'[g] \subseteq 1..issued[g]
      <4>1. CASE Answer(q)
        <5>1. request[q].new \in 1..issued[f] /\ request[q].new \in Token
          BY <2>0, <3>1, <4>1 DEF Answer, RequestsKnowRows, TypeOK, Token
        <5> QED BY <2>0, <3>1, <4>1, <5>1 DEF Answer, TypeOK
      <4>2. CASE known' = known
        BY <2>0, <4>2 DEF TypeOK
      <4> QED BY <2>7, <4>1, <4>2 DEF RevokeOld, RevokeFamily, Dies, DiesHalfWay, AnswerLost
    <3>8. ended' \in [Families -> {"no", "logout", "reuse"}]
      BY <2>0, <2>7, <3>1 DEF RevokeOld, Answer, RevokeFamily, Dies, DiesHalfWay, AnswerLost, TypeOK
    <3>9. unlucky' \in [Families -> [lost : Nat, half : Nat]]
      <4>1. unlucky \in [Families -> [lost : Nat, half : Nat]] /\ unlucky[f] \in [lost : Nat, half : Nat]
        BY <2>0, <3>1 DEF TypeOK
      <4>2. [unlucky[f] EXCEPT !.half = @ + 1] \in [lost : Nat, half : Nat]
        BY <4>1
      <4>3. [unlucky[f] EXCEPT !.lost = @ + 1] \in [lost : Nat, half : Nat]
        BY <4>1
      <4>4. CASE DiesHalfWay(q)
        <5>1. unlucky' = [unlucky EXCEPT ![f] = [unlucky[f] EXCEPT !.half = unlucky[f].half + 1]]
          BY <4>4 DEF DiesHalfWay
        <5> QED BY <3>1, <4>1, <4>2, <5>1
      <4>5. CASE AnswerLost(q)
        <5>1. unlucky' = [unlucky EXCEPT ![f] = [unlucky[f] EXCEPT !.lost = unlucky[f].lost + 1]]
          BY <4>5 DEF AnswerLost
        <5> QED BY <3>1, <4>1, <4>3, <5>1
      <4>6. CASE unlucky' = unlucky
        BY <4>1, <4>6
      <4> QED BY <2>7, <4>4, <4>5, <4>6 DEF RevokeOld, Answer, RevokeFamily, Dies
    <3>10. \A g \in Families : live'[g] \subseteq 1..issued[g]
      BY <2>0, <3>6 DEF TypeOK
    <3> QED BY <2>0, <3>3, <3>4, <3>5, <3>6, <3>7, <3>8, <3>9, <3>10 DEF TypeInv, TypeOK, RequestRecord, States
  <2> QED BY <2>1, <2>2, <2>3, <2>4, <2>5, <2>6, <2>7 DEF Next, RequestStep
<1> QED BY <1>1, <1>2, PTL DEF Spec

\* Every variable keeps its type, whatever requests race and fail: what is
\* live or known to a client is a row of the table.
THEOREM TypeCorrect == Spec => []TypeOK
<1>1. TypeInv => TypeOK
  BY DEF TypeInv
<1> QED BY <1>1, TypeInvariant, PTL

-----------------------------------------------------------------------------
(* Reuse is only detected when there was some.                             *)

\* As long as a family has not ended its tokens are revoked by their rotation
\* only, so one that is not live was presented; a request at work has presented
\* its token; and one that is about to revoke the family presented it after another.
RevokedWasPresented ==
  \A f \in Families : ended[f] = "no" =>
    \A t \in 1..issued[f] : t \notin live[f] => presented[f][t] > 0
WorkingHasPresented ==
  \A q \in Requests : request[q].at \in Working => presented[FamilyOf[q]][request[q].old] > 0
AccuserSawReuse ==
  \A q \in Requests : request[q].at = "revokeFamily" =>
    ended[FamilyOf[q]] # "no" \/ \E t \in Token : presented[FamilyOf[q]][t] > 1

ReuseInv == RevokedWasPresented /\ WorkingHasPresented /\ AccuserSawReuse /\ ReuseWasReuse

\* Facts about a request that is set, without its type.
LEMMA RequestSet ==
  ASSUME TypeOK, NEW q \in Requests, NEW at \in States,
         NEW old \in 0..MaxTokens, NEW new \in 0..MaxTokens, SetRequest(q, at, old, new)
  PROVE  /\ request'[q] = [at |-> at, old |-> old, new |-> new]
         /\ \A r \in Requests \ {q} : request'[r] = request[r]
<1>1. request \in [Requests -> RequestRecord]
  BY DEF TypeOK, RequestRecord, States
<1> QED BY <1>1, SetRequestSets

\* A refresh answers refresh_token_reuse_detected (jwt.ts:98) for the first time in a
\* family only if a token of it was presented twice or the client had logged out.
THEOREM OnlyReuseIsReuse == Spec => []ReuseWasReuse
<1>1. Init => ReuseInv
  BY DEF Init, ReuseInv, RevokedWasPresented, WorkingHasPresented, AccuserSawReuse, ReuseWasReuse,
         Idle, Working
<1>2. TypeInv /\ ReuseInv /\ [Next]_vars => ReuseInv'
  <2> SUFFICES ASSUME TypeInv, ReuseInv, [Next]_vars PROVE ReuseInv'
    OBVIOUS
  <2>0. /\ TypeOK /\ RequestsKnowRows
        /\ RevokedWasPresented /\ WorkingHasPresented /\ AccuserSawReuse /\ ReuseWasReuse
        /\ FamilyOf \in [Requests -> Families] /\ MaxTokens \in Nat \ {0}
    BY SessionAssumption DEF TypeInv, ReuseInv
  <2>t. /\ presented \in [Families -> [Token -> Nat]] /\ issued \in [Families -> 0..MaxTokens]
        /\ live \in [Families -> SUBSET Token] /\ ended \in [Families -> {"no", "logout", "reuse"}]
    BY <2>0 DEF TypeOK
  <2> USE DEF ReuseInv
  <2>1. CASE UNCHANGED vars
    BY <2>0, <2>1 DEF vars, tokens, RevokedWasPresented, WorkingHasPresented, AccuserSawReuse, ReuseWasReuse
  <2>2. ASSUME NEW f \in Families, Login(f) PROVE ReuseInv'
    <3>1. /\ issued' = [issued EXCEPT ![f] = 1] /\ live' = [live EXCEPT ![f] = {1}]
          /\ request' = request /\ presented' = presented /\ ended' = ended
      BY <2>2 DEF Login
    <3>2. RevokedWasPresented'
      BY <2>0, <2>t, <3>1 DEF RevokedWasPresented
    <3> QED BY <2>0, <3>1, <3>2 DEF WorkingHasPresented, AccuserSawReuse, ReuseWasReuse
  <2>3. ASSUME NEW f \in Families, NEW t \in Token, TokenExpires(f, t) PROVE ReuseInv'
    BY <2>0, <2>3 DEF TokenExpires, RevokedWasPresented, WorkingHasPresented, AccuserSawReuse, ReuseWasReuse
  <2>4. ASSUME NEW f \in Families, NEW t \in Token, Logout(f, t) PROVE ReuseInv'
    <3>1. /\ live' = [live EXCEPT ![f] = {}] /\ ended' = [ended EXCEPT ![f] = "logout"]
          /\ issued' = issued /\ request' = request /\ presented' = presented
      BY <2>4 DEF Logout
    <3>2. RevokedWasPresented'
      BY <2>0, <2>t, <3>1 DEF RevokedWasPresented
    <3>3. AccuserSawReuse'
      BY <2>0, <2>t, <3>1 DEF AccuserSawReuse
    <3> QED BY <2>0, <2>t, <3>1, <3>2, <3>3 DEF WorkingHasPresented, ReuseWasReuse
  <2>5. ASSUME NEW q \in Requests, NEW t \in Token, Present(q, t) PROVE ReuseInv'
    <3> DEFINE f == FamilyOf[q]
    <3>1. f \in Families /\ t \in 0..MaxTokens /\ 0 \in 0..MaxTokens /\ NextStep(f, t) \in States
      BY <2>0 DEF NextStep, States, Token
    <3>2. /\ SetRequest(q, NextStep(f, t), t, 0) /\ t \in known[f]
          /\ presented' = [presented EXCEPT ![f][t] = @ + 1]
          /\ issued' = issued /\ live' = live /\ ended' = ended
      BY <2>5 DEF Present, Sends, tokens
    <3>3. /\ request'[q] = [at |-> NextStep(f, t), old |-> t, new |-> 0]
          /\ \A r \in Requests \ {q} : request'[r] = request[r]
      BY <2>0, <3>1, <3>2, RequestSet
    <3>4. /\ presented'[f][t] = presented[f][t] + 1
          /\ \A g \in Families : \A u \in Token : presented'[g][u] >= presented[g][u] /\ presented'[g][u] \in Nat
      <4>1. /\ presented[f] \in [Token -> Nat]
            /\ presented' = [presented EXCEPT ![f] = [presented[f] EXCEPT ![t] = presented[f][t] + 1]]
        BY <2>t, <3>1, <3>2
      <4>2. /\ presented'[f] = [presented[f] EXCEPT ![t] = presented[f][t] + 1]
            /\ \A g \in Families \ {f} : presented'[g] = presented[g]
        BY <2>t, <3>1, <4>1
      <4>3. \A u \in Token : /\ presented'[f][u] = IF u = t THEN presented[f][u] + 1 ELSE presented[f][u]
                             /\ presented[f][u] \in Nat
        BY <4>1, <4>2
      <4>4. \A g \in Families \ {f} : \A u \in Token : presented'[g][u] = presented[g][u] /\ presented[g][u] \in Nat
        BY <2>t, <4>2
      <4> HIDE DEF f
      <4> QED BY <4>3, <4>4
    <3>5. t \in 1..issued[f]
      BY <2>0, <3>1, <3>2 DEF TypeOK
    <3>6. RevokedWasPresented'
      <4> SUFFICES ASSUME NEW g \in Families, ended[g] = "no", NEW u \in 1..issued[g], u \notin live[g]
                   PROVE  presented'[g][u] > 0
        BY <3>2 DEF RevokedWasPresented
      <4>1. presented[g][u] > 0 /\ u \in Token /\ presented[g][u] \in Nat
        BY <2>0, <2>t DEF RevokedWasPresented, Token
      <4> QED BY <3>4, <4>1
    <3>7. WorkingHasPresented'
      <4> SUFFICES ASSUME NEW r \in Requests, request'[r].at \in Working
                   PROVE  presented'[FamilyOf[r]][request'[r].old] > 0
        BY DEF WorkingHasPresented
      <4>1. CASE r = q
        <5>1. presented[f][t] \in Nat
          BY <2>t, <3>1
        <5> QED BY <3>3, <3>4, <4>1, <5>1
      <4>2. CASE r # q
        <5>1. request'[r] = request[r] /\ FamilyOf[r] \in Families
          BY <2>0, <3>3, <4>2
        <5>2. presented[FamilyOf[r]][request[r].old] > 0
          BY <2>0, <5>1 DEF WorkingHasPresented
        <5>3. request[r].old \in Token
          BY <2>0, <2>t, <5>1 DEF RequestsKnowRows, Token
        <5>4. presented[FamilyOf[r]][request[r].old] \in Nat
          BY <2>t, <5>1, <5>3
        <5> QED BY <3>4, <5>1, <5>2, <5>3, <5>4
      <4> QED BY <4>1, <4>2
    <3>8. \A g \in Families : (\E u \in Token : presented[g][u] > 1) => (\E u \in Token : presented'[g][u] > 1)
      <4> SUFFICES ASSUME NEW g \in Families, NEW u \in Token, presented[g][u] > 1
                   PROVE  presented'[g][u] > 1
        OBVIOUS
      <4>1. presented[g][u] \in Nat
        BY <2>t
      <4> QED BY <3>4, <4>1
    <3>9. AccuserSawReuse'
      <4> SUFFICES ASSUME NEW r \in Requests, request'[r].at = "revokeFamily", ended[FamilyOf[r]] = "no"
                   PROVE  \E u \in Token : presented'[FamilyOf[r]][u] > 1
        BY <2>0, <3>2 DEF AccuserSawReuse
      <4>1. CASE r = q
        <5>1. t \notin live[f]
          BY <3>3, <4>1 DEF NextStep
        <5>2. presented[f][t] > 0 /\ presented[f][t] \in Nat
          BY <2>0, <2>t, <3>1, <3>5, <4>1, <5>1 DEF RevokedWasPresented
        <5> QED BY <3>4, <4>1, <5>2
      <4>2. CASE r # q
        BY <2>0, <3>3, <3>8, <4>2 DEF AccuserSawReuse
      <4> QED BY <4>1, <4>2
    <3> QED BY <2>0, <3>2, <3>6, <3>7, <3>8, <3>9 DEF ReuseWasReuse
  <2>6. ASSUME NEW q \in Requests, InsertNext(q) PROVE ReuseInv'
    <3> DEFINE f == FamilyOf[q]
               t == issued[f] + 1
    <3>1. f \in Families /\ t \in Token /\ request[q].at = "insert"
          /\ request[q].old \in 0..MaxTokens /\ t \in 0..MaxTokens /\ "revoke" \in States
      BY <2>0, <2>6 DEF InsertNext, TypeOK, Token, States
    <3>2. /\ issued' = [issued EXCEPT ![f] = t] /\ live' = [live EXCEPT ![f] = @ \cup {t}]
          /\ SetRequest(q, "revoke", request[q].old, t) /\ ended' = ended /\ presented' = presented
      BY <2>6 DEF InsertNext
    <3>3. /\ request'[q] = [at |-> "revoke", old |-> request[q].old, new |-> t]
          /\ \A r \in Requests \ {q} : request'[r] = request[r]
      BY <2>0, <3>1, <3>2, RequestSet
    <3>4. RevokedWasPresented'
      <4> SUFFICES ASSUME NEW g \in Families, ended[g] = "no", NEW u \in 1..issued'[g], u \notin live'[g]
                   PROVE  presented[g][u] > 0
        BY <3>2 DEF RevokedWasPresented
      <4>1. CASE g = f
        <5>1. issued'[f] = t /\ live'[f] = live[f] \cup {t} /\ issued[f] \in Nat
          BY <2>t, <3>1, <3>2
        <5>2. u \in 1..issued[f] /\ u \notin live[f]
          BY <4>1, <5>1
        <5> QED BY <2>0, <3>1, <4>1, <5>2 DEF RevokedWasPresented
      <4>2. CASE g # f
        BY <2>0, <2>t, <3>2, <4>2 DEF RevokedWasPresented
      <4> QED BY <4>1, <4>2
    <3>5. WorkingHasPresented'
      BY <2>0, <3>1, <3>2, <3>3 DEF WorkingHasPresented, Working
    <3>6. AccuserSawReuse'
      BY <2>0, <3>2, <3>3 DEF AccuserSawReuse
    <3> QED BY <2>0, <3>2, <3>4, <3>5, <3>6 DEF ReuseWasReuse
  <2>7. ASSUME NEW q \in Requests, RevokeOld(q) PROVE ReuseInv'
    <3> DEFINE f == FamilyOf[q]
    <3>1. f \in Families /\ request[q].at = "revoke" /\ "answer" \in States
          /\ request[q].old \in 0..MaxTokens /\ request[q].new \in 0..MaxTokens
      BY <2>0, <2>7 DEF RevokeOld, TypeOK, States
    <3>2. /\ live' = [live EXCEPT ![f] = @ \ {request[q].old}]
          /\ SetRequest(q, "answer", request[q].old, request[q].new)
          /\ issued' = issued /\ ended' = ended /\ presented' = presented
      BY <2>7 DEF RevokeOld, Revoked
    <3>3. /\ request'[q] = [at |-> "answer", old |-> request[q].old, new |-> request[q].new]
          /\ \A r \in Requests \ {q} : request'[r] = request[r]
      BY <2>0, <3>1, <3>2, RequestSet
    <3>4. presented[f][request[q].old] > 0
      BY <2>0, <3>1 DEF WorkingHasPresented, Working
    <3>5. RevokedWasPresented'
      BY <2>0, <2>t, <3>1, <3>2, <3>4 DEF RevokedWasPresented
    <3>6. WorkingHasPresented'
      BY <2>0, <3>1, <3>2, <3>3 DEF WorkingHasPresented, Working
    <3>7. AccuserSawReuse'
      BY <2>0, <3>2, <3>3 DEF AccuserSawReuse
    <3> QED BY <2>0, <3>2, <3>5, <3>6, <3>7 DEF ReuseWasReuse
  <2>8. ASSUME NEW q \in Requests, RevokeFamily(q) PROVE ReuseInv'
    <3> DEFINE f == FamilyOf[q]
    <3>1. f \in Families /\ request[q].at = "revokeFamily" /\ "done" \in States /\ 0 \in 0..MaxTokens
      BY <2>0, <2>8 DEF RevokeFamily, States
    <3>2. /\ live' = [live EXCEPT ![f] = {}]
          /\ ended' = [ended EXCEPT ![f] = IF ended[f] = "no" THEN "reuse" ELSE ended[f]]
          /\ SetRequest(q, "done", 0, 0) /\ issued' = issued /\ presented' = presented
      BY <2>8 DEF RevokeFamily
    <3>3. /\ request'[q] = [at |-> "done", old |-> 0, new |-> 0]
          /\ \A r \in Requests \ {q} : request'[r] = request[r]
      BY <2>0, <3>1, <3>2, RequestSet
    <3>4. /\ ended'[f] # "no" /\ (ended'[f] = "reuse" => ended[f] \in {"no", "reuse"})
          /\ \A g \in Families \ {f} : ended'[g] = ended[g] /\ live'[g] = live[g]
      BY <2>t, <3>1, <3>2
    <3>5. RevokedWasPresented'
      BY <2>0, <3>2, <3>4 DEF RevokedWasPresented
    <3>6. WorkingHasPresented'
      BY <2>0, <3>2, <3>3 DEF WorkingHasPresented, Working
    <3>7. AccuserSawReuse'
      BY <2>0, <3>2, <3>3, <3>4 DEF AccuserSawReuse
    <3>8. ReuseWasReuse'
      <4> SUFFICES ASSUME NEW g \in Families, ended'[g] = "reuse"
                   PROVE  \E u \in Token : presented[g][u] > 1
        BY <3>2 DEF ReuseWasReuse
      <4>1. CASE g = f
        BY <2>0, <3>1, <3>4, <4>1 DEF AccuserSawReuse, ReuseWasReuse
      <4>2. CASE g # f
        BY <2>0, <3>4, <4>2 DEF ReuseWasReuse
      <4> QED BY <4>1, <4>2
    <3> QED BY <3>5, <3>6, <3>7, <3>8
  <2>9. ASSUME NEW q \in Requests, Answer(q) \/ Dies(q) \/ DiesHalfWay(q) \/ AnswerLost(q) PROVE ReuseInv'
    <3>1. SetRequest(q, "done", 0, 0) /\ UNCHANGED <<tokens, presented, ended>>
      BY <2>9 DEF Answer, Dies, DiesHalfWay, AnswerLost
    <3>2. "done" \in States /\ 0 \in 0..MaxTokens
      BY <2>0 DEF States
    <3>3. /\ request'[q] = [at |-> "done", old |-> 0, new |-> 0]
          /\ \A r \in Requests \ {q} : request'[r] = request[r]
      BY <2>0, <3>1, <3>2, RequestSet
    <3>4. RevokedWasPresented'
      BY <2>0, <3>1 DEF RevokedWasPresented, tokens
    <3>5. WorkingHasPresented'
      BY <2>0, <3>1, <3>3 DEF WorkingHasPresented, Working
    <3>6. AccuserSawReuse'
      BY <2>0, <3>1, <3>3 DEF AccuserSawReuse
    <3> QED BY <2>0, <3>1, <3>4, <3>5, <3>6 DEF ReuseWasReuse
  <2> HIDE DEF ReuseInv
  <2> QED BY <2>1, <2>2, <2>3, <2>4, <2>5, <2>6, <2>7, <2>8, <2>9 DEF Next, RequestStep
<1>3. ReuseInv => ReuseWasReuse
  BY DEF ReuseInv
<1> QED BY <1>1, <1>2, <1>3, TypeInvariant, PTL DEF Spec

-----------------------------------------------------------------------------
(* An ended family stays ended.                                            *)

\* The requests of a careful client follow each other, and once its family has
\* ended none of them is between the select and the end of a rotation.
OneAtATime ==
  \A q, r \in Requests :
    FamilyOf[q] = FamilyOf[r] /\ FamilyOf[q] \in Careful /\ InFlight(q) /\ InFlight(r) => q = r
NoRotationAfterEnd ==
  \A q \in Requests :
    FamilyOf[q] \in Careful /\ ended[FamilyOf[q]] # "no" => request[q].at \notin {"insert", "revoke"}

EndedWasIssued == \A f \in Families : ended[f] # "no" => issued[f] > 0

EndInv == OneAtATime /\ NoRotationAfterEnd /\ EndedWasIssued /\ EndedStaysEnded

\* Kept by every step, whatever the other families' requests race with.
LEMMA EndInvariant == Spec => []EndInv
<1>1. Init => EndInv
  BY SessionAssumption DEF Init, EndInv, OneAtATime, NoRotationAfterEnd, EndedWasIssued, EndedStaysEnded,
                           InFlight, Idle
<1>2. TypeInv /\ EndInv /\ [Next]_vars => EndInv'
  <2> SUFFICES ASSUME TypeInv, EndInv, [Next]_vars PROVE EndInv'
    OBVIOUS
  <2>0. /\ TypeOK /\ RequestsKnowRows
        /\ OneAtATime /\ NoRotationAfterEnd /\ EndedWasIssued /\ EndedStaysEnded
        /\ FamilyOf \in [Requests -> Families] /\ MaxTokens \in Nat \ {0} /\ Careful \subseteq Families
    BY SessionAssumption DEF TypeInv, EndInv
  <2>t. /\ live \in [Families -> SUBSET Token] /\ issued \in [Families -> 0..MaxTokens]
        /\ ended \in [Families -> {"no", "logout", "reuse"}]
    BY <2>0 DEF TypeOK
  <2>1. ASSUME UNCHANGED <<request, live, ended, issued>> PROVE EndInv'
    BY <2>0, <2>1 DEF EndInv, OneAtATime, NoRotationAfterEnd, EndedWasIssued, EndedStaysEnded, InFlight
  <2>2. ASSUME NEW f \in Families, Login(f) PROVE EndInv'
    <3>1. /\ live' = [live EXCEPT ![f] = {1}] /\ issued' = [issued EXCEPT ![f] = 1]
          /\ request' = request /\ ended' = ended
      BY <2>2 DEF Login
    <3>2. ended[f] = "no"
      BY <2>0, <2>2 DEF Login, EndedWasIssued
    <3>3. OneAtATime' /\ NoRotationAfterEnd'
      BY <2>0, <3>1 DEF OneAtATime, NoRotationAfterEnd, InFlight
    <3>4. EndedWasIssued'
      BY <2>0, <2>t, <3>1 DEF EndedWasIssued
    <3>5. EndedStaysEnded'
      BY <2>0, <2>t, <3>1, <3>2 DEF EndedStaysEnded
    <3> QED BY <3>3, <3>4, <3>5 DEF EndInv
  <2>3. ASSUME NEW f \in Families, NEW t \in Token, Logout(f, t) PROVE EndInv'
    <3>1. /\ live' = [live EXCEPT ![f] = {}] /\ ended' = [ended EXCEPT ![f] = "logout"]
          /\ request' = request /\ issued' = issued
      BY <2>3 DEF Logout
    <3>2. t \in 1..issued[f] /\ (f \in Careful => \A q \in Requests : FamilyOf[q] = f => ~InFlight(q))
      BY <2>0, <2>3 DEF Logout, Sends, Quiet, TypeOK
    <3>3. OneAtATime'
      BY <2>0, <3>1 DEF OneAtATime, InFlight
    <3>4. NoRotationAfterEnd'
      BY <2>0, <2>t, <3>1, <3>2 DEF NoRotationAfterEnd, InFlight
    <3>5. EndedWasIssued'
      BY <2>0, <2>t, <3>1, <3>2 DEF EndedWasIssued
    <3>6. EndedStaysEnded'
      BY <2>0, <2>t, <3>1 DEF EndedStaysEnded
    <3> QED BY <3>3, <3>4, <3>5, <3>6 DEF EndInv
  <2>4. ASSUME NEW q \in Requests, NEW t \in Token, Present(q, t) PROVE EndInv'
    <3> DEFINE f == FamilyOf[q]
    <3>1. f \in Families /\ t \in 0..MaxTokens /\ 0 \in 0..MaxTokens /\ NextStep(f, t) \in States
      BY <2>0 DEF NextStep, States, Token
    <3>2. /\ SetRequest(q, NextStep(f, t), t, 0) /\ live' = live /\ issued' = issued /\ ended' = ended
          /\ f \in Careful => \A r \in Requests : FamilyOf[r] = f => ~InFlight(r)
      BY <2>4 DEF Present, Sends, Quiet, tokens
    <3>3. /\ request'[q] = [at |-> NextStep(f, t), old |-> t, new |-> 0]
          /\ \A r \in Requests \ {q} : request'[r] = request[r]
      BY <2>0, <3>1, <3>2, RequestSet
    <3>4. OneAtATime'
      BY <2>0, <3>2, <3>3 DEF OneAtATime, InFlight
    <3>5. f \in Careful /\ ended[f] # "no" => NextStep(f, t) = "revokeFamily"
      BY <2>0 DEF EndedStaysEnded, NextStep
    <3>6. NoRotationAfterEnd'
      BY <2>0, <3>2, <3>3, <3>5 DEF NoRotationAfterEnd
    <3> QED BY <2>0, <3>2, <3>4, <3>6 DEF EndInv, EndedWasIssued, EndedStaysEnded
  <2>5. ASSUME NEW q \in Requests, InsertNext(q) PROVE EndInv'
    <3> DEFINE f == FamilyOf[q]
               t == issued[f] + 1
    <3>1. f \in Families /\ t \in Token /\ request[q].at = "insert"
          /\ request[q].old \in 0..MaxTokens /\ t \in 0..MaxTokens /\ "revoke" \in States
      BY <2>0, <2>5 DEF InsertNext, TypeOK, Token, States
    <3>2. /\ issued' = [issued EXCEPT ![f] = t] /\ live' = [live EXCEPT ![f] = @ \cup {t}]
          /\ SetRequest(q, "revoke", request[q].old, t) /\ ended' = ended
      BY <2>5 DEF InsertNext
    <3>3. /\ request'[q] = [at |-> "revoke", old |-> request[q].old, new |-> t]
          /\ \A r \in Requests \ {q} : request'[r] = request[r]
      BY <2>0, <3>1, <3>2, RequestSet
    <3>4. f \in Careful => ended[f] = "no"
      BY <2>0, <3>1 DEF NoRotationAfterEnd
    <3>5. OneAtATime'
      BY <2>0, <3>1, <3>3 DEF OneAtATime, InFlight
    <3>6. NoRotationAfterEnd'
      BY <2>0, <3>2, <3>3, <3>4 DEF NoRotationAfterEnd
    <3>7. EndedWasIssued'
      BY <2>0, <2>t, <3>1, <3>2 DEF EndedWasIssued, Token
    <3>8. EndedStaysEnded'
      BY <2>0, <2>t, <3>1, <3>2, <3>4 DEF EndedStaysEnded
    <3> QED BY <3>5, <3>6, <3>7, <3>8 DEF EndInv
  <2>6. ASSUME NEW q \in Requests, RevokeOld(q) PROVE EndInv'
    <3> DEFINE f == FamilyOf[q]
    <3>1. f \in Families /\ request[q].at = "revoke" /\ "answer" \in States
          /\ request[q].old \in 0..MaxTokens /\ request[q].new \in 0..MaxTokens
      BY <2>0, <2>6 DEF RevokeOld, TypeOK, States
    <3>2. /\ live' = [live EXCEPT ![f] = @ \ {request[q].old}]
          /\ SetRequest(q, "answer", request[q].old, request[q].new)
          /\ issued' = issued /\ ended' = ended
      BY <2>6 DEF RevokeOld, Revoked
    <3>3. /\ request'[q] = [at |-> "answer", old |-> request[q].old, new |-> request[q].new]
          /\ \A r \in Requests \ {q} : request'[r] = request[r]
      BY <2>0, <3>1, <3>2, RequestSet
    <3>4. OneAtATime'
      BY <2>0, <3>1, <3>3 DEF OneAtATime, InFlight
    <3>5. NoRotationAfterEnd'
      BY <2>0, <3>2, <3>3 DEF NoRotationAfterEnd
    <3>6. EndedStaysEnded'
      BY <2>0, <2>t, <3>2 DEF EndedStaysEnded
    <3> QED BY <2>0, <3>2, <3>4, <3>5, <3>6 DEF EndInv, EndedWasIssued
  <2>7. ASSUME NEW q \in Requests, RevokeFamily(q) PROVE EndInv'
    <3> DEFINE f == FamilyOf[q]
    <3>1. f \in Families /\ request[q].at = "revokeFamily" /\ "done" \in States /\ 0 \in 0..MaxTokens
      BY <2>0, <2>7 DEF RevokeFamily, States
    <3>2. /\ live' = [live EXCEPT ![f] = {}]
          /\ ended' = [ended EXCEPT ![f] = IF ended[f] = "no" THEN "reuse" ELSE ended[f]]
          /\ SetRequest(q, "done", 0, 0) /\ issued' = issued
      BY <2>7 DEF RevokeFamily
    <3>3. /\ request'[q] = [at |-> "done", old |-> 0, new |-> 0]
          /\ \A r \in Requests \ {q} : request'[r] = request[r]
      BY <2>0, <3>1, <3>2, RequestSet
    <3>4. \A g \in Families \ {f} : ended'[g] = ended[g] /\ live'[g] = live[g]
      BY <2>t, <3>2
    <3>5. live'[f] = {} /\ issued[f] > 0
      BY <2>0, <2>t, <3>1, <3>2 DEF RequestsKnowRows, Working
    <3>6. OneAtATime'
      BY <2>0, <3>1, <3>3 DEF OneAtATime, InFlight
    <3>7. NoRotationAfterEnd'
      <4> SUFFICES ASSUME NEW r \in Requests, FamilyOf[r] \in Careful, ended'[FamilyOf[r]] # "no"
                   PROVE  request'[r].at \notin {"insert", "revoke"}
        BY DEF NoRotationAfterEnd
      <4>1. CASE r = q
        BY <3>3, <4>1
      <4>2. CASE r # q /\ FamilyOf[r] = f
        <5>1. ~(InFlight(q) /\ InFlight(r))
          BY <2>0, <4>2 DEF OneAtATime
        <5> QED BY <3>1, <3>3, <4>2, <5>1 DEF InFlight
      <4>3. CASE FamilyOf[r] # f
        BY <2>0, <3>3, <3>4, <4>3 DEF NoRotationAfterEnd
      <4> QED BY <4>1, <4>2, <4>3
    <3>8. EndedWasIssued'
      BY <2>0, <3>2, <3>4, <3>5 DEF EndedWasIssued
    <3>9. EndedStaysEnded'
      BY <2>0, <3>4, <3>5 DEF EndedStaysEnded
    <3> QED BY <3>6, <3>7, <3>8, <3>9 DEF EndInv
  <2>8. ASSUME NEW q \in Requests, Answer(q) \/ Dies(q) \/ DiesHalfWay(q) \/ AnswerLost(q) PROVE EndInv'
    <3>1. SetRequest(q, "done", 0, 0) /\ UNCHANGED <<tokens, ended>>
      BY <2>8 DEF Answer, Dies, DiesHalfWay, AnswerLost
    <3>2. "done" \in States /\ 0 \in 0..MaxTokens
      BY <2>0 DEF States
    <3>3. /\ request'[q] = [at |-> "done", old |-> 0, new |-> 0]
          /\ \A r \in Requests \ {q} : request'[r] = request[r]
      BY <2>0, <3>1, <3>2, RequestSet
    <3>4. OneAtATime'
      BY <2>0, <3>3 DEF OneAtATime, InFlight
    <3>5. NoRotationAfterEnd'
      BY <2>0, <3>1, <3>3 DEF NoRotationAfterEnd
    <3> QED BY <2>0, <3>1, <3>4, <3>5 DEF EndInv, EndedWasIssued, EndedStaysEnded, tokens
  <2>9. ASSUME NEW f \in Families, NEW t \in Token, TokenExpires(f, t) PROVE EndInv'
    BY <2>1, <2>9 DEF TokenExpires
  <2>10. CASE UNCHANGED vars
    BY <2>1, <2>10 DEF vars, tokens
  <2> QED BY <2>2, <2>3, <2>4, <2>5, <2>6, <2>7, <2>8, <2>9, <2>10 DEF Next, RequestStep
<1> QED BY <1>1, <1>2, TypeInvariant, PTL DEF Spec

\* "the entire family is revoked" (jwt.ts:70-72), for ever: after a logout or a detected
\* reuse no token of a careful client's family is live again.
THEOREM EndedFamiliesStayEnded == Spec => []EndedStaysEnded
<1>1. EndInv => EndedStaysEnded
  BY DEF EndInv
<1> QED BY <1>1, EndInvariant, PTL

-----------------------------------------------------------------------------
(* The family of a careful client.                                         *)

\* Nothing that a client notices happens to a family.
FamilyKept(f) ==
  /\ issued'[f] = issued[f] /\ live'[f] = live[f] /\ known'[f] = known[f]
  /\ ended'[f] = ended[f] /\ unlucky'[f] = unlucky[f]
  /\ \A q \in Requests : FamilyOf[q] = f => request'[q] = request[q]

\* A refresh touches its own request and its own family.
LEMMA RefreshTouches ==
  ASSUME TypeInv, NEW q \in Requests, RequestStep(q)
  PROVE  /\ \A r \in Requests \ {q} : request'[r] = request[r]
         /\ \A f \in Families \ {FamilyOf[q]} : FamilyKept(f)
<1> USE DEF TypeInv, TypeOK
<1>1. PICK at \in States, old \in 0..MaxTokens, new \in 0..MaxTokens : SetRequest(q, at, old, new)
  <2>1. {"insert", "revoke", "answer", "revokeFamily", "done"} \subseteq States /\ 0 \in 0..MaxTokens
    BY SessionAssumption DEF States
  <2>2. ASSUME NEW t \in Token, Present(q, t)
        PROVE  \E at \in States, old \in 0..MaxTokens, new \in 0..MaxTokens : SetRequest(q, at, old, new)
    BY <2>1, <2>2 DEF Present, NextStep, Token
  <2>3. ASSUME InsertNext(q)
        PROVE  \E at \in States, old \in 0..MaxTokens, new \in 0..MaxTokens : SetRequest(q, at, old, new)
    BY <2>1, <2>3, SessionAssumption DEF InsertNext, Token
  <2>4. ASSUME RevokeOld(q) \/ Answer(q) \/ RevokeFamily(q) \/ Dies(q) \/ DiesHalfWay(q) \/ AnswerLost(q)
        PROVE  \E at \in States, old \in 0..MaxTokens, new \in 0..MaxTokens : SetRequest(q, at, old, new)
    BY <2>1, <2>4 DEF RevokeOld, Answer, RevokeFamily, Dies, DiesHalfWay, AnswerLost
  <2> QED BY <2>2, <2>3, <2>4 DEF RequestStep
<1>2. \A r \in Requests \ {q} : request'[r] = request[r]
  BY <1>1, RequestSet
<1>3. ASSUME NEW f \in Families \ {FamilyOf[q]}
      PROVE  /\ issued'[f] = issued[f] /\ live'[f] = live[f] /\ known'[f] = known[f]
             /\ ended'[f] = ended[f] /\ unlucky'[f] = unlucky[f]
  BY DEF RequestStep, Present, InsertNext, RevokeOld, Answer, RevokeFamily, Dies, DiesHalfWay,
         AnswerLost, tokens
<1> QED BY <1>2, <1>3 DEF FamilyKept

\* Whatever happens to a family is a login, a logout or a step of a refresh of it.
LEMMA WhoTouches ==
  ASSUME TypeInv, [Next]_vars, NEW f \in Families
  PROVE  \/ FamilyKept(f) \/ Login(f) \/ \E t \in Token : Logout(f, t)
         \/ \E q \in Requests : FamilyOf[q] = f /\ RequestStep(q)
<1>1. CASE UNCHANGED vars
  BY <1>1 DEF vars, tokens, FamilyKept
<1>2. ASSUME NEW g \in Families \ {f}, Login(g) \/ \E t \in Token : Logout(g, t) PROVE FamilyKept(f)
  BY <1>2 DEF Login, Logout, FamilyKept, TypeInv, TypeOK
<1>3. ASSUME NEW g \in Families, NEW t \in Token, TokenExpires(g, t) PROVE FamilyKept(f)
  BY <1>3 DEF TokenExpires, FamilyKept
<1>4. ASSUME NEW q \in Requests, RequestStep(q), FamilyOf[q] # f PROVE FamilyKept(f)
  BY <1>4, RefreshTouches
<1> QED BY <1>1, <1>2, <1>3, <1>4 DEF Next

\* What each step of a refresh does to its own family and request.
Moves(q, f, from, to, old, new) ==
  /\ request[q].at = from
  /\ request'[q] = [at |-> to, old |-> old, new |-> new]
FamilyIs(f, issuedNow, liveNow, knownNow) ==
  issued'[f] = issuedNow /\ live'[f] = liveNow /\ known'[f] = knownNow
StaysLucky(f) == ended'[f] = ended[f] /\ unlucky'[f] = unlucky[f]

Presents(q, f) == \E t \in Token :
  /\ Sends(f, t) /\ Moves(q, f, "idle", NextStep(f, t), t, 0)
  /\ FamilyIs(f, issued[f], live[f], known[f]) /\ StaysLucky(f)
Inserts(q, f) ==
  /\ Moves(q, f, "insert", "revoke", request[q].old, issued[f] + 1)
  /\ FamilyIs(f, issued[f] + 1, live[f] \cup {issued[f] + 1}, known[f]) /\ StaysLucky(f)
Revokes(q, f) ==
  /\ Moves(q, f, "revoke", "answer", request[q].old, request[q].new)
  /\ FamilyIs(f, issued[f], live[f] \ {request[q].old}, known[f]) /\ StaysLucky(f)
Answers(q, f) ==
  /\ Moves(q, f, "answer", "done", 0, 0)
  /\ FamilyIs(f, issued[f], live[f], known[f] \cup {request[q].new}) /\ StaysLucky(f)
RevokesAll(q, f) ==
  /\ Moves(q, f, "revokeFamily", "done", 0, 0)
  /\ FamilyIs(f, issued[f], {}, known[f])
  /\ ended'[f] = (IF ended[f] = "no" THEN "reuse" ELSE ended[f]) /\ unlucky'[f] = unlucky[f]
GivesUp(q, f) ==
  /\ Moves(q, f, "insert", "done", 0, 0)
  /\ FamilyIs(f, issued[f], live[f], known[f]) /\ StaysLucky(f)
EndsHalfWay(q, f) ==
  /\ Moves(q, f, "revoke", "done", 0, 0)
  /\ FamilyIs(f, issued[f], live[f], known[f]) /\ ended'[f] = ended[f]
  /\ unlucky'[f].half = unlucky[f].half + 1 /\ unlucky'[f].lost = unlucky[f].lost
LosesAnswer(q, f) ==
  /\ Moves(q, f, "answer", "done", 0, 0)
  /\ FamilyIs(f, issued[f], live[f], known[f]) /\ ended'[f] = ended[f]
  /\ unlucky'[f].half = unlucky[f].half /\ unlucky'[f].lost = unlucky[f].lost + 1

\* Every step of a refresh is one of these, seen from its own family.
LEMMA RefreshSteps ==
  ASSUME TypeInv, NEW q \in Requests, NEW f \in Families, FamilyOf[q] = f, RequestStep(q)
  PROVE  \/ Presents(q, f) \/ Inserts(q, f) \/ Revokes(q, f) \/ Answers(q, f)
         \/ RevokesAll(q, f) \/ GivesUp(q, f) \/ EndsHalfWay(q, f) \/ LosesAnswer(q, f)
<1> USE DEF Moves, FamilyIs, StaysLucky
<1>0. /\ TypeOK /\ unlucky[f] \in [lost : Nat, half : Nat] /\ f \in DOMAIN unlucky
      /\ request[q].old \in 0..MaxTokens /\ request[q].new \in 0..MaxTokens /\ 0 \in 0..MaxTokens
      /\ {"insert", "revoke", "answer", "revokeFamily", "done"} \subseteq States
      /\ f \in DOMAIN live /\ f \in DOMAIN issued /\ f \in DOMAIN known /\ f \in DOMAIN ended
      /\ Token \subseteq 0..MaxTokens
  <2>1. TypeOK
    BY DEF TypeInv
  <2>2. /\ unlucky[f] \in [lost : Nat, half : Nat]
        /\ f \in DOMAIN unlucky /\ f \in DOMAIN live /\ f \in DOMAIN issued
        /\ f \in DOMAIN known /\ f \in DOMAIN ended
    BY <2>1 DEF TypeOK
  <2>3. request[q].old \in 0..MaxTokens /\ request[q].new \in 0..MaxTokens
    BY <2>1 DEF TypeOK
  <2>4. 0 \in 0..MaxTokens /\ Token \subseteq 0..MaxTokens
    BY SessionAssumption DEF Token
  <2>5. {"insert", "revoke", "answer", "revokeFamily", "done"} \subseteq States
    BY DEF States
  <2> QED BY <2>1, <2>2, <2>3, <2>4, <2>5
<1>1. ASSUME NEW t \in Token, Present(q, t) PROVE Presents(q, f)
  <2>1. NextStep(f, t) \in States /\ SetRequest(q, NextStep(f, t), t, 0)
    BY <1>0, <1>1 DEF Present, NextStep
  <2>2. request'[q] = [at |-> NextStep(f, t), old |-> t, new |-> 0]
    BY <1>0, <2>1, RequestSet
  <2> QED BY <1>1, <2>2 DEF Present, tokens, Presents
<1>2. CASE InsertNext(q)
  <2>1. issued[f] + 1 \in Token /\ SetRequest(q, "revoke", request[q].old, issued[f] + 1)
    BY <1>2 DEF InsertNext
  <2>2. issued[f] + 1 \in 0..MaxTokens /\ "revoke" \in States
    BY <1>0, <2>1
  <2>3. request'[q] = [at |-> "revoke", old |-> request[q].old, new |-> issued[f] + 1]
    BY <1>0, <2>1, <2>2, RequestSet
  <2> QED BY <1>0, <1>2, <2>3 DEF InsertNext, Inserts
<1>3. CASE RevokeOld(q)
  <2>1. request'[q] = [at |-> "answer", old |-> request[q].old, new |-> request[q].new]
    BY <1>0, <1>3, RequestSet DEF RevokeOld
  <2> QED BY <1>0, <1>3, <2>1 DEF RevokeOld, Revoked, Revokes
<1>4. ASSUME Answer(q) \/ RevokeFamily(q) \/ Dies(q) \/ DiesHalfWay(q) \/ AnswerLost(q)
      PROVE  request'[q] = [at |-> "done", old |-> 0, new |-> 0]
  BY <1>0, <1>4, RequestSet DEF Answer, RevokeFamily, Dies, DiesHalfWay, AnswerLost
<1>5. CASE Answer(q)
  BY <1>0, <1>4, <1>5 DEF Answer, tokens, Answers
<1>6. CASE RevokeFamily(q)
  BY <1>0, <1>4, <1>6 DEF RevokeFamily, RevokesAll
<1>7. CASE Dies(q)
  BY <1>0, <1>4, <1>7 DEF Dies, tokens, GivesUp
<1>8. CASE DiesHalfWay(q)
  <2>1. unlucky' = [unlucky EXCEPT ![f] = [unlucky[f] EXCEPT !.half = unlucky[f].half + 1]]
    BY <1>8 DEF DiesHalfWay
  <2>2. unlucky'[f].half = unlucky[f].half + 1 /\ unlucky'[f].lost = unlucky[f].lost
    BY <1>0, <2>1
  <2> QED BY <1>4, <1>8, <2>2 DEF DiesHalfWay, tokens, EndsHalfWay
<1>9. CASE AnswerLost(q)
  <2>1. unlucky' = [unlucky EXCEPT ![f] = [unlucky[f] EXCEPT !.lost = unlucky[f].lost + 1]]
    BY <1>9 DEF AnswerLost
  <2>2. unlucky'[f].lost = unlucky[f].lost + 1 /\ unlucky'[f].half = unlucky[f].half
    BY <1>0, <2>1
  <2> QED BY <1>4, <1>9, <2>2 DEF AnswerLost, tokens, LosesAnswer
<1> QED BY <1>1, <1>2, <1>3, <1>5, <1>6, <1>7, <1>8, <1>9 DEF RequestStep

\* While a refresh of a careful client's family takes a step, no other is under way.
LEMMA OthersRest ==
  ASSUME TypeInv, EndInv, NEW f \in Careful, NEW q \in Requests, FamilyOf[q] = f, RequestStep(q)
  PROVE  \A r \in Requests \ {q} : request'[r] = request[r] /\ (FamilyOf[r] = f => ~InFlight(r))
<1>1. \A r \in Requests \ {q} : request'[r] = request[r]
  BY RefreshTouches
<1>2. CASE InFlight(q)
  BY <1>1, <1>2 DEF EndInv, OneAtATime
<1>3. CASE ~InFlight(q)
  <2>1. \E t \in Token : Sends(f, t)
    BY <1>3 DEF RequestStep, Present, InFlight, InsertNext, RevokeOld, Answer, RevokeFamily, Dies,
                DiesHalfWay, AnswerLost
  <2>2. Quiet(f)
    BY <2>1 DEF Sends
  <2> QED BY <1>1, <2>2 DEF Quiet
<1> QED BY <1>2, <1>3

\* Before its first token a family has no refresh under way.
LEMMA NoneBeforeLogin ==
  ASSUME TypeInv, NEW f \in Families, issued[f] = 0
  PROVE  /\ live[f] = {} /\ known[f] = {}
         /\ \A q \in Requests : FamilyOf[q] = f => request[q].at \notin Working
BY DEF TypeInv, TypeOK, RequestsKnowRows

\* The refreshes of a family that have inserted a token and not revoked the old one.
Rotating(f) == {q \in Requests : FamilyOf[q] = f /\ request[q].at = "revoke"}

\* A token that is being exchanged is still live, and every live token but one
\* is accounted for by a refresh that is under way or ended half-way.
CurrentInv ==
  /\ \A q \in Requests : FamilyOf[q] \in Careful /\ request[q].at \in {"insert", "revoke"} =>
       request[q].old \in live[FamilyOf[q]]
  /\ OneCurrentToken

\* Before the first login no token is live and no refresh is under way.
LEMMA CurrentInitial == Init => CurrentInv
<1> SUFFICES ASSUME Init PROVE CurrentInv
  OBVIOUS
<1>1. ASSUME NEW f \in Careful
      PROVE  Cardinality(live[f]) <= 1 + unlucky[f].half + Cardinality(Rotating(f))
  <2>1. live[f] = {} /\ unlucky[f].half = 0
    BY SessionAssumption DEF Init
  <2>2. Rotating(f) = {}
    BY DEF Init, Idle, Rotating
  <2> QED BY <2>1, <2>2, FS_EmptySet
<1>2. OneCurrentToken
  BY <1>1 DEF OneCurrentToken, Rotating
<1> QED BY <1>2 DEF Init, Idle, CurrentInv

\* An insert and the revocation that follows it cancel out; one that ends half-way is counted.
LEMMA CurrentStep ==
  ASSUME TypeInv, EndInv, CurrentInv, [Next]_vars
  PROVE  CurrentInv'
<1> DEFINE Bound(f) == Cardinality(live[f]) <= 1 + unlucky[f].half + Cardinality(Rotating(f))
           Exchanged(f) == \A q \in Requests :
             FamilyOf[q] = f /\ request[q].at \in {"insert", "revoke"} => request[q].old \in live[f]
<1> SUFFICES ASSUME NEW f \in Careful PROVE Exchanged(f)' /\ Bound(f)'
  BY DEF CurrentInv, OneCurrentToken, Rotating
<1>0. /\ f \in Families /\ issued[f] \in Nat /\ unlucky[f].half \in Nat
      /\ FamilyOf \in [Requests -> Families]
      /\ live[f] \in SUBSET (1..issued[f])
  BY SessionAssumption DEF TypeInv, TypeOK
<1>a. Exchanged(f) /\ Bound(f)
  BY DEF CurrentInv, OneCurrentToken, Rotating
<1> HIDE DEF Exchanged, Bound
<1>1. IsFiniteSet(live[f]) /\ Cardinality(live[f]) \in Nat
  <2>1. 1 \in Int /\ issued[f] \in Int
    BY <1>0
  <2>2. IsFiniteSet(1..issued[f])
    BY <2>1, FS_Interval
  <2> QED BY <1>0, <2>2, FS_Subset, FS_CardinalityType
<1>2. Cardinality({}) = 0 /\ \A x : Cardinality({x}) = 1
  BY FS_EmptySet, FS_Singleton
<1>3. CASE FamilyKept(f)
  <2>1. Rotating(f)' = Rotating(f)
    BY <1>3 DEF FamilyKept, Rotating
  <2> QED BY <1>0, <1>a, <1>3, <2>1 DEF FamilyKept, Exchanged, Bound
<1>4. CASE Login(f)
  <2>1. /\ live'[f] = {1} /\ UNCHANGED <<request, unlucky>> /\ issued[f] = 0
    BY <1>0, <1>4 DEF Login, TypeInv, TypeOK
  <2>2. \A q \in Requests : FamilyOf[q] = f => request'[q].at \notin Working
    BY <1>0, <2>1, NoneBeforeLogin
  <2>3. Rotating(f)' = {}
    BY <2>2 DEF Rotating, Working
  <2>4. Exchanged(f)'
    BY <2>2 DEF Exchanged, Working
  <2>5. Cardinality(live'[f]) = 1 /\ Cardinality(Rotating(f)') = 0 /\ unlucky'[f] = unlucky[f]
    BY <1>2, <2>1, <2>3
  <2> QED BY <1>0, <2>4, <2>5 DEF Bound
<1>5. ASSUME NEW t \in Token, Logout(f, t) PROVE Exchanged(f)' /\ Bound(f)'
  <2>1. /\ live'[f] = {} /\ UNCHANGED <<request, unlucky>>
        /\ \A q \in Requests : FamilyOf[q] = f => ~InFlight(q)
    BY <1>0, <1>5 DEF Logout, Sends, Quiet, TypeInv, TypeOK
  <2>2. Rotating(f)' = {}
    BY <2>1 DEF Rotating, InFlight
  <2>3. Exchanged(f)'
    BY <2>1 DEF Exchanged, InFlight
  <2>4. Cardinality(live'[f]) = 0 /\ Cardinality(Rotating(f)') = 0 /\ unlucky'[f] = unlucky[f]
    BY <1>2, <2>1, <2>2
  <2> QED BY <1>0, <2>3, <2>4 DEF Bound
<1>6. ASSUME NEW q \in Requests, FamilyOf[q] = f, RequestStep(q) PROVE Exchanged(f)' /\ Bound(f)'
  <2>1. \A r \in Requests \ {q} : request'[r] = request[r] /\ (FamilyOf[r] = f => ~InFlight(r))
    BY <1>6, OthersRest
  <2>2. /\ Cardinality(Rotating(f)) = IF request[q].at = "revoke" THEN 1 ELSE 0
        /\ Cardinality(Rotating(f)') = IF request'[q].at = "revoke" THEN 1 ELSE 0
    <3>1. /\ Rotating(f) = IF request[q].at = "revoke" THEN {q} ELSE {}
          /\ Rotating(f)' = IF request'[q].at = "revoke" THEN {q} ELSE {}
      BY <1>6, <2>1 DEF Rotating, InFlight
    <3> QED BY <1>2, <3>1
  <2>3. ASSUME request'[q].at \in {"insert", "revoke"} => request'[q].old \in live'[f]
        PROVE  Exchanged(f)'
    <3>1. \A r \in Requests \ {q} : FamilyOf[r] = f => request'[r].at \notin {"insert", "revoke"}
      BY <2>1 DEF InFlight
    <3> QED BY <2>3, <3>1 DEF Exchanged
  <2> USE DEF Moves, FamilyIs, StaysLucky
  <2>4. CASE Presents(q, f)
    <3>1. PICK t \in Token : request'[q] = [at |-> NextStep(f, t), old |-> t, new |-> 0]
      BY <2>4 DEF Presents
    <3>2. /\ request[q].at = "idle" /\ live'[f] = live[f] /\ unlucky'[f] = unlucky[f]
          /\ request'[q].at # "revoke" /\ (request'[q].at = "insert" => request'[q].old \in live[f])
      BY <2>4, <3>1 DEF Presents, NextStep
    <3> QED BY <1>0, <1>a, <1>1, <2>2, <2>3, <3>2 DEF Bound
  <2>5. CASE Inserts(q, f)
    <3>1. issued[f] + 1 \notin live[f]
      BY <1>0
    <3>2. Cardinality(live[f] \cup {issued[f] + 1}) = Cardinality(live[f]) + 1
      BY <1>1, <3>1, FS_AddElement
    <3>3. Bound(f)'
      BY <1>0, <1>a, <1>1, <2>2, <2>5, <3>2 DEF Bound, Inserts
    <3>4. request[q].old \in live[f]
      BY <1>a, <1>6, <2>5 DEF Exchanged, Inserts
    <3> QED BY <2>3, <2>5, <3>3, <3>4 DEF Inserts
  <2>6. CASE Revokes(q, f)
    <3>1. request[q].old \in live[f]
      BY <1>a, <1>6, <2>6 DEF Exchanged, Revokes
    <3>2. Cardinality(live[f] \ {request[q].old}) = Cardinality(live[f]) - 1
      BY <1>1, <3>1, FS_RemoveElement
    <3> QED BY <1>0, <1>a, <1>1, <2>2, <2>3, <2>6, <3>2 DEF Bound, Revokes
  <2>7. CASE Answers(q, f) \/ GivesUp(q, f) \/ LosesAnswer(q, f)
    <3>1. /\ request[q].at # "revoke" /\ request'[q].at = "done"
          /\ live'[f] = live[f] /\ unlucky'[f].half = unlucky[f].half
      BY <2>7 DEF Answers, GivesUp, LosesAnswer
    <3> QED BY <1>0, <1>a, <1>1, <2>2, <2>3, <3>1 DEF Bound
  <2>8. CASE RevokesAll(q, f)
    <3>1. live'[f] = {} /\ unlucky'[f] = unlucky[f] /\ request'[q].at = "done"
      BY <2>8 DEF RevokesAll
    <3> QED BY <1>0, <1>2, <2>2, <2>3, <3>1 DEF Bound
  <2>9. CASE EndsHalfWay(q, f)
    BY <1>0, <1>a, <1>1, <2>2, <2>3, <2>9 DEF Bound, EndsHalfWay
  <2> QED BY <1>0, <1>6, <2>4, <2>5, <2>6, <2>7, <2>8, <2>9, RefreshSteps
<1> QED BY <1>0, <1>3, <1>4, <1>5, <1>6, WhoTouches

\* "the CURRENT (un-revoked) token for its family" (jwt.ts:70): a client that awaits
\* its answers has one, but for those of refreshes under way or ended half-way.
THEOREM OneTokenIsCurrent == Spec => []OneCurrentToken
<1>1. CurrentInv => OneCurrentToken
  BY DEF CurrentInv
<1>2. TypeInv /\ EndInv /\ CurrentInv /\ [Next]_vars => CurrentInv'
  BY CurrentStep
<1> QED BY <1>1, <1>2, CurrentInitial, TypeInvariant, EndInvariant, PTL DEF Spec

-----------------------------------------------------------------------------
(* A careful client stays signed in.                                       *)

IsLast(f, t) == t \in known[f] /\ \A u \in known[f] : u <= t

\* Has logged in, has not logged out, and has had every answer.
SignedIn(f) == issued[f] > 0 /\ ended[f] # "logout" /\ unlucky[f].lost = 0

\* What a refresh of such a client is about: it presented the last token the
\* client has, and what it inserted is live and later than all the client has.
GoesWell(q, f) ==
  /\ request[q].at # "revokeFamily"
  /\ request[q].at \in {"insert", "revoke"} => IsLast(f, request[q].old)
  /\ request[q].at \in {"revoke", "answer"} =>
       request[q].new \in live[f] /\ \A u \in known[f] : u < request[q].new

\* The last token the client has is live until its successor is on its way.
LastIsLive(f) ==
  /\ \E t \in Token : IsLast(f, t)
  /\ (\E q \in Requests : FamilyOf[q] = f /\ request[q].at = "answer")
       \/ \A t \in Token : IsLast(f, t) => t \in live[f]

SignedInv ==
  \A f \in Careful : SignedIn(f) =>
    LastIsLive(f) /\ \A q \in Requests : FamilyOf[q] = f => GoesWell(q, f)

\* The greatest token a client has is the one it presents.
LEMMA LatestIsLast ==
  ASSUME NEW f, NEW t, IsLast(f, t), known[f] \subseteq Int
  PROVE  Latest(f) = t
BY DEF IsLast, Latest

\* The step of a refresh of a careful client that is signed in.
LEMMA SignedRefresh ==
  ASSUME TypeInv, NEW f \in Careful, NEW q \in Requests, FamilyOf[q] = f, RequestStep(q),
         SignedIn(f), SignedIn(f)', LastIsLive(f), GoesWell(q, f),
         \A r \in Requests \ {q} : FamilyOf[r] = f => ~InFlight(r)
  PROVE  /\ GoesWell(q, f)'
         /\ \E t \in Token : IsLast(f, t)'
         /\ request'[q].at = "answer" \/ \A t \in Token : IsLast(f, t)' => t \in live'[f]
<1>0. /\ f \in Families /\ issued[f] \in Nat /\ live[f] \subseteq 1..issued[f]
      /\ known[f] \subseteq 1..issued[f] /\ known[f] \subseteq Token /\ unlucky[f].lost \in Nat
  BY SessionAssumption DEF TypeInv, TypeOK
<1>1. request[q].new \in 0..MaxTokens /\ request[q].old \in 0..MaxTokens /\ Token \subseteq Int
  BY SessionAssumption DEF TypeInv, TypeOK, Token
<1>2. PICK t0 \in Token : IsLast(f, t0)
  BY DEF LastIsLive
<1>3. request[q].at # "answer" => t0 \in live[f]
  BY <1>2 DEF LastIsLive, InFlight
<1>4. t0 \in known[f] /\ t0 \in Int /\ \A u \in known[f] : u \in Int /\ u <= t0
  BY <1>0, <1>1, <1>2 DEF IsLast
<1>5. \A t \in Token : IsLast(f, t) => t = t0
  BY <1>1, <1>4 DEF IsLast
<1> USE DEF Moves, FamilyIs
<1>6. ASSUME known'[f] = known[f], t0 \in live'[f] \/ request'[q].at = "answer"
      PROVE  /\ \E t \in Token : IsLast(f, t)'
             /\ request'[q].at = "answer" \/ \A t \in Token : IsLast(f, t)' => t \in live'[f]
  <2>1. \A t : IsLast(f, t)' <=> IsLast(f, t)
    BY <1>6 DEF IsLast
  <2> QED BY <1>2, <1>5, <1>6, <2>1
<1>7. CASE Presents(q, f)
  <2>1. PICK t \in Token : /\ Sends(f, t) /\ Moves(q, f, "idle", NextStep(f, t), t, 0)
                           /\ FamilyIs(f, issued[f], live[f], known[f])
    BY <1>7 DEF Presents
  <2>2. t = t0
    <3>1. Latest(f) = t0
      BY <1>0, <1>2, LatestIsLast
    <3> QED BY <2>1, <3>1 DEF Sends
  <2>3. t0 \in live[f]
    BY <1>3, <2>1
  <2>4. request'[q].at \in {"insert", "done"} /\ request'[q].old = t0
    BY <2>1, <2>2, <2>3 DEF NextStep
  <2>5. IsLast(f, t0)'
    BY <1>2, <2>1 DEF IsLast
  <2>6. GoesWell(q, f)'
    BY <2>4, <2>5 DEF GoesWell
  <2> QED BY <1>6, <2>1, <2>3, <2>6
<1>8. CASE Inserts(q, f)
  <2>1. /\ request'[q] = [at |-> "revoke", old |-> request[q].old, new |-> issued[f] + 1]
        /\ known'[f] = known[f] /\ live'[f] = live[f] \cup {issued[f] + 1} /\ request[q].at = "insert"
    BY <1>8 DEF Inserts
  <2>2. IsLast(f, request[q].old)'
    BY <2>1 DEF GoesWell, IsLast
  <2>3. \A u \in known'[f] : u < issued[f] + 1
    BY <1>0, <2>1
  <2>4. GoesWell(q, f)'
    BY <2>1, <2>2, <2>3 DEF GoesWell
  <2> QED BY <1>3, <1>6, <2>1, <2>4
<1>9. CASE Revokes(q, f)
  <2>1. /\ request'[q] = [at |-> "answer", old |-> request[q].old, new |-> request[q].new]
        /\ known'[f] = known[f] /\ live'[f] = live[f] \ {request[q].old} /\ request[q].at = "revoke"
    BY <1>9 DEF Revokes
  <2>2. /\ request[q].old \in known[f] /\ request[q].new \in live[f]
        /\ \A u \in known[f] : u < request[q].new
    BY <2>1 DEF GoesWell, IsLast
  <2>3. request[q].new # request[q].old
    BY <1>1, <2>2
  <2>4. GoesWell(q, f)'
    BY <2>1, <2>2, <2>3 DEF GoesWell
  <2> QED BY <1>6, <2>1, <2>4
<1>10. CASE Answers(q, f)
  <2>1. /\ request'[q].at = "done" /\ known'[f] = known[f] \cup {request[q].new} /\ live'[f] = live[f]
        /\ request[q].at = "answer"
    BY <1>10 DEF Answers
  <2>2. PICK n \in Token : n = request[q].new /\ n \in live[f] /\ \A u \in known[f] : u < n
    BY <1>0, <2>1 DEF GoesWell, TypeInv, TypeOK
  <2>3. IsLast(f, n)'
    BY <1>1, <1>4, <2>1, <2>2 DEF IsLast
  <2>4. \A t \in Token : IsLast(f, t)' => t = n
    BY <1>1, <1>4, <2>1, <2>2 DEF IsLast
  <2> QED BY <2>1, <2>2, <2>3, <2>4 DEF GoesWell
<1>11. CASE GivesUp(q, f) \/ EndsHalfWay(q, f)
  <2>1. /\ request'[q].at = "done" /\ known'[f] = known[f] /\ live'[f] = live[f]
        /\ request[q].at # "answer"
    BY <1>11 DEF GivesUp, EndsHalfWay
  <2> QED BY <1>3, <1>6, <2>1 DEF GoesWell
<1>12. ~RevokesAll(q, f)
  BY DEF RevokesAll, GoesWell
<1>13. ~LosesAnswer(q, f)
  BY <1>0 DEF LosesAnswer, SignedIn
<1> QED BY <1>0, <1>7, <1>8, <1>9, <1>10, <1>11, <1>12, <1>13, RefreshSteps

\* No step takes the last token from a careful client that is signed in.
LEMMA SignedStep ==
  ASSUME TypeInv, EndInv, SignedInv, [Next]_vars
  PROVE  SignedInv'
<1> DEFINE Goal(f) == LastIsLive(f)' /\ \A q \in Requests : FamilyOf[q] = f => GoesWell(q, f)'
<1> SUFFICES ASSUME NEW f \in Careful, SignedIn(f)' PROVE Goal(f)
  BY DEF SignedInv
<1>0. /\ f \in Families /\ issued[f] \in Nat /\ FamilyOf \in [Requests -> Families] /\ unlucky[f].lost \in Nat
      /\ f \in DOMAIN ended /\ f \in DOMAIN known /\ f \in DOMAIN live /\ f \in DOMAIN issued
      /\ 1 \in Token
  BY SessionAssumption DEF TypeInv, TypeOK, Token
<1>a. SignedIn(f) => LastIsLive(f) /\ \A q \in Requests : FamilyOf[q] = f => GoesWell(q, f)
  BY DEF SignedInv
<1> HIDE DEF Goal
<1>1. CASE FamilyKept(f)
  <2>1. /\ SignedIn(f) /\ live'[f] = live[f] /\ known'[f] = known[f]
        /\ \A q \in Requests : FamilyOf[q] = f => request'[q] = request[q]
    BY <1>1 DEF FamilyKept, SignedIn
  <2>2. \A t : IsLast(f, t)' <=> IsLast(f, t)
    BY <2>1 DEF IsLast
  <2>3. \A q \in Requests : FamilyOf[q] = f => GoesWell(q, f)'
    BY <1>a, <2>1, <2>2 DEF GoesWell
  <2>4. LastIsLive(f)'
    BY <1>a, <2>1, <2>2 DEF LastIsLive
  <2> QED BY <2>3, <2>4 DEF Goal
<1>2. CASE Login(f)
  <2>1. issued[f] = 0 /\ known'[f] = {1} /\ live'[f] = {1} /\ request' = request
    BY <1>0, <1>2 DEF Login
  <2>2. \A q \in Requests : FamilyOf[q] = f => request'[q].at \notin Working
    BY <1>0, <2>1, NoneBeforeLogin
  <2>3. \A t : IsLast(f, t)' <=> t = 1
    BY <2>1 DEF IsLast
  <2>4. LastIsLive(f)'
    BY <1>0, <2>1, <2>3 DEF LastIsLive
  <2> QED BY <2>2, <2>4 DEF Goal, GoesWell, Working
<1>3. ASSUME NEW t \in Token, Logout(f, t) PROVE FALSE
  BY <1>0, <1>3 DEF Logout, SignedIn
<1>4. ASSUME NEW q \in Requests, FamilyOf[q] = f, RequestStep(q) PROVE Goal(f)
  <2>1. \A r \in Requests \ {q} : request'[r] = request[r] /\ (FamilyOf[r] = f => ~InFlight(r))
    BY <1>4, OthersRest
  <2>2. SignedIn(f)
    <3>1. /\ ended'[f] = "logout" \/ ended[f] # "logout"
          /\ unlucky'[f].lost = unlucky[f].lost \/ unlucky'[f].lost = unlucky[f].lost + 1
          /\ issued'[f] = issued[f] \/ request[q].at = "insert"
      <4> USE DEF Moves, FamilyIs, StaysLucky
      <4> QED BY <1>0, <1>4, RefreshSteps DEF Presents, Inserts, Revokes, Answers, RevokesAll, GivesUp,
                                              EndsHalfWay, LosesAnswer
    <3>2. issued[f] = 0 => request[q].at \notin Working
      BY <1>0, <1>4, NoneBeforeLogin
    <3> QED BY <1>0, <3>1, <3>2 DEF SignedIn, Working
  <2>3. /\ GoesWell(q, f)'
        /\ \E t \in Token : IsLast(f, t)'
        /\ request'[q].at = "answer" \/ \A t \in Token : IsLast(f, t)' => t \in live'[f]
    <3>1. GoesWell(q, f) /\ LastIsLive(f)
      BY <1>a, <1>4, <2>2
    <3> QED BY <1>4, <2>1, <2>2, <3>1, SignedRefresh
  <2>4. LastIsLive(f)'
    BY <1>4, <2>3 DEF LastIsLive
  <2>5. \A r \in Requests \ {q} : FamilyOf[r] = f => GoesWell(r, f)'
    BY <2>1 DEF GoesWell, InFlight
  <2> QED BY <2>3, <2>4, <2>5 DEF Goal
<1> QED BY <1>0, <1>1, <1>2, <1>3, <1>4, WhoTouches

\* A client that sends no request before it has the answer to the last, and
\* loses none, holds a live token for as long as it does not log out:
\* rotateRefreshToken (jwt.ts:76-143) never signs it out.
THEOREM CarefulIsNotSignedOut == Spec => []CarefulStaysSignedIn
<1>1. Init => SignedInv
  BY SessionAssumption DEF Init, SignedInv, SignedIn
<1>2. TypeInv /\ EndInv /\ SignedInv /\ [Next]_vars => SignedInv'
  BY SignedStep
<1>3. TypeInv /\ SignedInv => CarefulStaysSignedIn
  <2> SUFFICES ASSUME TypeInv, SignedInv, NEW f \in Careful, Quiet(f), SignedIn(f)
               PROVE  Latest(f) \in live[f]
    BY DEF CarefulStaysSignedIn, SignedIn
  <2>1. known[f] \subseteq Int
    BY SessionAssumption DEF TypeInv, TypeOK, Token
  <2>2. PICK t \in Token : IsLast(f, t) /\ t \in live[f]
    BY DEF SignedInv, LastIsLive, Quiet, InFlight
  <2> QED BY <2>1, <2>2, LatestIsLast
<1> QED BY <1>1, <1>2, <1>3, TypeInvariant, EndInvariant, PTL DEF Spec

-----------------------------------------------------------------------------
(* Accounts.  The first lemmas say what a step does - begin a call, take    *)
(* one further, or expire a token - and to which fields of which row; the   *)
(* invariants below are then about the statements that matter to them.      *)

Places == {"idle", "user", "profile", "verification", "mail", "markVerified", "dropVerification",
           "reset", "password", "dropReset", "secret", "enable", "disable", "overlay", "reread",
           "regenerate", "submission", "pending", "link", "answer", "done", "refused", "failed"}
CallRecord == [op : Ops \cup {None}, at : Places, u : Users \cup {None}, seen : CallOrNone]

\* The statements a call of each kind gets to.
Visits(op, at) ==
  \/ op = "signup" /\ at \in {"user", "profile", "verification", "mail"}
  \/ op = "verify" /\ at \in {"markVerified", "dropVerification"}
  \/ op = "forgot" /\ at \in {"reset", "mail"}
  \/ op = "reset" /\ at \in {"password", "dropReset"}
  \/ op = "setup" /\ at = "secret"
  \/ op = "enable" /\ at = "enable"
  \/ op = "disable" /\ at = "disable"
  \/ op = "overlay" /\ at \in {"overlay", "reread"}
  \/ op = "regenerate" /\ at = "regenerate"
  \/ op = "kyc" /\ at \in {"submission", "pending"}
  \/ op = "link" /\ at = "link"
  \/ op \in Ops /\ at \in {"answer", "done", "refused", "failed"}

CallsFit ==
  /\ call \in [Calls -> CallRecord]
  /\ \A c \in Calls : call[c].at # "idle" => call[c].u \in Users /\ Visits(call[c].op, call[c].at)

Tables == {"verification", "reset", "submission"}
RowsFit ==
  /\ user \in [Users -> UserRecord]
  /\ rows \subseteq Tables \X Calls
  /\ mailed \subseteq Calls
  /\ wallet \in Users \cup {None}
  /\ \A t \in mailed : call[t].at \in {"answer", "done", "failed"}

Fit == CallsFit /\ RowsFit

\* What a step makes of a call, and of the row of a user.
CallIs(c, op, at, u, seen) ==
  /\ call'[c] = [op |-> op, at |-> at, u |-> u, seen |-> seen]
  /\ \A d \in Calls \ {c} : call'[d] = call[d]
UserIs(u, row) ==
  /\ user'[u] = row
  /\ \A v \in Users \ {u} : user'[v] = user[v]

\* What writing a call does to it and to the others.
LEMMA CallPut ==
  ASSUME Fit, NEW c \in Calls, NEW op \in Ops \cup {None}, NEW at \in Places,
         NEW u \in Users \cup {None}, NEW seen \in CallOrNone, PutCall(c, op, at, u, seen)
  PROVE  CallIs(c, op, at, u, seen) /\ call' \in [Calls -> CallRecord]
BY DEF Fit, CallsFit, PutCall, CallIs, CallRecord

\* What a request asks for, once it is read and the rows it names are selected.
Asks(op, u, seen, at) ==
  \/ op = "signup" /\ at \in {"user", "refused"} /\ seen = None
  \/ /\ op = "verify" /\ at \in {"markVerified", "refused"}
     /\ seen \in mailed /\ u = call[seen].u /\ call[seen].op = "signup"
  \/ op = "forgot" /\ at \in {"reset", "answer"} /\ seen = None
  \/ /\ op = "reset" /\ seen \in mailed /\ u = call[seen].u /\ call[seen].op = "forgot"
     /\ at \in {"refused", "password"} /\ (at = "password" => <<"reset", seen>> \in rows)
  \/ op = "setup" /\ at = "secret" /\ user[u].exists /\ seen = None
  \/ /\ op = "enable" /\ seen \in Authenticator(u)
     /\ at \in {"refused", "enable"} /\ (at = "enable" => user[u].secret = seen)
  \/ op = "disable" /\ seen \in Authenticator(u) /\ at \in {"disable", "refused"}
  \/ /\ op = "overlay" /\ seen = user[u].overlay
     /\ \/ at = "refused"
        \/ at = "answer" /\ seen # None
        \/ at = "overlay" /\ seen = None /\ user[u].profile
  \/ /\ op = "regenerate" /\ seen = None
     /\ at \in {"refused", "regenerate"} /\ (at = "regenerate" => user[u].profile)
  \/ op = "kyc" /\ at = "submission" /\ seen = None
  \/ op = "link" /\ at \in {"link", "refused"} /\ seen = None

Begins(c, op, u, seen, at) ==
  /\ call[c].at = "idle" /\ MayCall(u, op) /\ Asks(op, u, seen, at)
  /\ CallIs(c, op, at, u, seen) /\ call' \in [Calls -> CallRecord]
  /\ UNCHANGED <<user, rows, mailed, wallet>>

\* A request reads, selects, and begins a call; it changes nothing else.
LEMMA RequestBegins ==
  ASSUME Fit, NEW c \in Calls, Request(c)
  PROVE  \E op \in Ops, u \in Users, seen \in CallOrNone, at \in Places : Begins(c, op, u, seen, at)
<1> DEFINE Goal == \E op \in Ops, u \in Users, seen \in CallOrNone, at \in Places : Begins(c, op, u, seen, at)
<1> HIDE DEF Goal
<1>1. ASSUME NEW op \in Ops, NEW u \in Users, NEW seen \in CallOrNone, NEW at \in Places,
             Begin(c, op, u, seen, at), Asks(op, u, seen, at)
      PROVE  Goal
  <2>1. CallIs(c, op, at, u, seen) /\ call' \in [Calls -> CallRecord]
    BY <1>1, CallPut DEF Begin
  <2>2. Begins(c, op, u, seen, at)
    BY <1>1, <2>1 DEF Begin, Begins
  <2> QED BY <2>2 DEF Goal
<1>2. /\ None \in CallOrNone /\ Calls \subseteq CallOrNone
      /\ \A u \in Users : user[u].overlay \in CallOrNone
      /\ \A u \in Users : Authenticator(u) \subseteq Calls
  BY DEF CallOrNone, Fit, RowsFit, UserRecord, Authenticator
<1>3. /\ {"signup", "verify", "forgot", "reset", "setup", "enable", "disable", "overlay", "regenerate",
          "kyc", "link"} \subseteq Ops
      /\ {"refused", "user", "markVerified", "reset", "answer", "password", "secret", "enable", "disable",
          "overlay", "regenerate", "submission", "link"} \subseteq Places
  BY DEF Ops, Places
<1>4. ASSUME NEW u \in Users, Signup(c, u) PROVE Goal
  BY <1>1, <1>2, <1>3, <1>4 DEF Signup, Asks
<1>5. ASSUME NEW u \in Users, Forgot(c, u) PROVE Goal
  BY <1>1, <1>2, <1>3, <1>5 DEF Forgot, Asks
<1>6. ASSUME NEW u \in Users, Setup(c, u) PROVE Goal
  BY <1>1, <1>2, <1>3, <1>6 DEF Setup, Asks, Known
<1>7. ASSUME NEW u \in Users, OverlayToken(c, u) PROVE Goal
  BY <1>1, <1>2, <1>3, <1>7 DEF OverlayToken, Asks
<1>8. ASSUME NEW u \in Users, Regenerate(c, u) PROVE Goal
  BY <1>1, <1>2, <1>3, <1>8 DEF Regenerate, Asks
<1>9. ASSUME NEW u \in Users, SubmitKyc(c, u) PROVE Goal
  BY <1>1, <1>2, <1>3, <1>9 DEF SubmitKyc, Asks
<1>10. ASSUME NEW u \in Users, LinkWallet(c, u) PROVE Goal
  BY <1>1, <1>2, <1>3, <1>10 DEF LinkWallet, Asks
<1>11. ASSUME NEW t \in Calls, t \in mailed PROVE call[t].u \in Users
  BY <1>11 DEF Fit, CallsFit, RowsFit
<1>12. ASSUME NEW t \in Calls, VerifyEmail(c, t) PROVE Goal
  <2>1. t \in mailed /\ call[t].op = "signup"
    BY <1>12 DEF VerifyEmail, PresentToken
  <2>2. PICK at \in {"markVerified", "refused"} : Begin(c, "verify", call[t].u, t, at)
    BY <1>12 DEF VerifyEmail, PresentToken
  <2>3. Asks("verify", call[t].u, t, at)
    BY <2>1 DEF Asks
  <2> QED BY <1>1, <1>2, <1>3, <1>11, <2>1, <2>2, <2>3
<1>13. ASSUME NEW t \in Calls, Reset(c, t) PROVE Goal
  <2>1. t \in mailed /\ call[t].op = "forgot"
    BY <1>13 DEF Reset, PresentToken
  <2>2. PICK at \in {"password", "refused"} :
          Begin(c, "reset", call[t].u, t, at) /\ (at = "password" => <<"reset", t>> \in rows)
    BY <1>13 DEF Reset, PresentToken
  <2>3. Asks("reset", call[t].u, t, at)
    BY <2>1, <2>2 DEF Asks
  <2> QED BY <1>1, <1>2, <1>3, <1>11, <2>1, <2>2, <2>3
<1>14. ASSUME NEW u \in Users, NEW code \in Calls, Enable(c, u, code) PROVE Goal
  BY <1>1, <1>2, <1>3, <1>14 DEF Enable, Asks, MayEnable, verifyTotp
<1>15. ASSUME NEW u \in Users, NEW code \in Calls, Disable(c, u, code) PROVE Goal
  BY <1>1, <1>2, <1>3, <1>15 DEF Disable, Asks
<1>16. Goal
  BY <1>4, <1>5, <1>6, <1>7, <1>8, <1>9, <1>10, <1>12, <1>13, <1>14, <1>15 DEF Request
<1> QED BY <1>16 DEF Goal

\* What each step of a call does.
Goes(c, from, to, seen) ==
  /\ call[c].at = from
  /\ CallIs(c, call[c].op, to, call[c].u, seen) /\ call' \in [Calls -> CallRecord]
GoesOn(c, from, to) == Goes(c, from, to, call[c].seen)
RowsRest == UNCHANGED <<rows, mailed, wallet>>
Sets(c, row) == UserIs(call[c].u, row) /\ user' \in [Users -> UserRecord] /\ RowsRest

CreatesUser(c) == ~Me(c).exists /\ GoesOn(c, "user", "profile") /\ Sets(c, NewUser(c))
IsRefused(c) == Me(c).exists /\ GoesOn(c, "user", "failed") /\ UNCHANGED user /\ RowsRest
CreatesProfile(c) == GoesOn(c, "profile", "verification") /\ Sets(c, [Me(c) EXCEPT !.profile = TRUE])
InsertsRow(c) ==
  /\ \E table \in Tables :
       /\ rows' = rows \cup {<<table, c>>}
       /\ \/ table = "verification" /\ GoesOn(c, "verification", "mail")
          \/ table = "reset" /\ GoesOn(c, "reset", "mail")
          \/ table = "submission" /\ GoesOn(c, "submission", "pending")
  /\ UNCHANGED <<user, mailed, wallet>>
Mails(c) == GoesOn(c, "mail", "answer") /\ mailed' = mailed \cup {c} /\ UNCHANGED <<user, rows, wallet>>
Verifies(c) == GoesOn(c, "markVerified", "dropVerification") /\ Sets(c, [Me(c) EXCEPT !.verified = TRUE])
DropsRow(c) ==
  /\ \/ GoesOn(c, "dropVerification", "answer") /\ rows' = rows \ {<<"verification", call[c].seen>>}
     \/ GoesOn(c, "dropReset", "answer") /\ rows' = rows \ {<<"reset", call[c].seen>>}
  /\ UNCHANGED <<user, mailed, wallet>>
ChangesPassword(c) == GoesOn(c, "password", "dropReset") /\ Sets(c, [Me(c) EXCEPT !.password = c])
StoresSecret(c) == GoesOn(c, "secret", "answer") /\ Sets(c, [Me(c) EXCEPT !.secret = c])
Enables(c) == GoesOn(c, "enable", "answer") /\ Sets(c, [Me(c) EXCEPT !.enabled = TRUE])
Disables(c) ==
  GoesOn(c, "disable", "answer") /\ Sets(c, [[Me(c) EXCEPT !.enabled = FALSE] EXCEPT !.secret = None])
WinsOverlay(c) ==
  Me(c).overlay = None /\ Goes(c, "overlay", "answer", c) /\ Sets(c, [Me(c) EXCEPT !.overlay = c])
MissesOverlay(c) == Me(c).overlay # None /\ GoesOn(c, "overlay", "reread") /\ UNCHANGED user /\ RowsRest
ReadsOverlay(c) == Goes(c, "reread", "answer", Me(c).overlay) /\ UNCHANGED user /\ RowsRest
ReplacesOverlay(c) == Goes(c, "regenerate", "answer", c) /\ Sets(c, [Me(c) EXCEPT !.overlay = c])
MarksPending(c) ==
  /\ GoesOn(c, "pending", "answer")
  /\ \/ Me(c).profile /\ Sets(c, [Me(c) EXCEPT !.pending = TRUE])
     \/ UNCHANGED user /\ RowsRest
Links(c) == GoesOn(c, "link", "answer") /\ wallet' = call[c].u /\ UNCHANGED <<user, rows, mailed>>
Ends(c) ==
  /\ GoesOn(c, "answer", "done") \/ (UnderWay(c) /\ GoesOn(c, call[c].at, "failed"))
  /\ UNCHANGED user /\ RowsRest

Does(c) ==
  \/ CreatesUser(c) \/ IsRefused(c) \/ CreatesProfile(c) \/ InsertsRow(c) \/ Mails(c)
  \/ Verifies(c) \/ DropsRow(c) \/ ChangesPassword(c) \/ StoresSecret(c) \/ Enables(c) \/ Disables(c)
  \/ WinsOverlay(c) \/ MissesOverlay(c) \/ ReadsOverlay(c) \/ ReplacesOverlay(c)
  \/ MarksPending(c) \/ Links(c) \/ Ends(c)

\* What writing a row of users does to it and to the others.
LEMMA UserSet ==
  ASSUME Fit, NEW u \in Users, NEW row \in UserRecord, user' = [user EXCEPT ![u] = row]
  PROVE  UserIs(u, row) /\ user' \in [Users -> UserRecord]
BY DEF Fit, RowsFit, UserIs

\* Every statement of a handler is one of these.
LEMMA HandleDoes ==
  ASSUME Fit, NEW c \in Calls, Handle(c)
  PROVE  Does(c)
<1> DEFINE u == call[c].u
<1>0. /\ call[c] \in CallRecord /\ call[c].op \in Ops \cup {None} /\ call[c].at \in Places
      /\ u \in Users \cup {None} /\ call[c].seen \in CallOrNone
  BY DEF Fit, CallsFit, CallRecord
<1>1. ASSUME NEW from \in Places, NEW to \in Places, At(c, from), Goto(c, to)
      PROVE  GoesOn(c, from, to)
  BY <1>0, <1>1, CallPut DEF At, Goto, Proceed, GoesOn, Goes
<1>2. ASSUME NEW from \in Places, NEW to \in Places, NEW seen \in CallOrNone, At(c, from), Proceed(c, to, seen)
      PROVE  Goes(c, from, to, seen)
  BY <1>0, <1>2, CallPut DEF At, Proceed, Goes
<1>3. ASSUME call[c].at # "idle" PROVE u \in Users /\ Me(c) \in UserRecord
  BY <1>3 DEF Fit, CallsFit, RowsFit, Me
<1>4. /\ None \in CallOrNone /\ c \in CallOrNone
      /\ \A row \in UserRecord : row.overlay \in CallOrNone
  BY DEF CallOrNone, UserRecord
<1>5. {"idle", "user", "profile", "verification", "mail", "markVerified", "dropVerification",
       "reset", "password", "dropReset", "secret", "enable", "disable", "overlay", "reread",
       "regenerate", "submission", "pending", "link", "answer", "done", "refused", "failed"} \subseteq Places
  BY DEF Places
<1>6. ASSUME NEW row \in UserRecord, u \in Users, user' = [user EXCEPT ![u] = row], RowsRest
      PROVE  Sets(c, row)
  BY <1>6, UserSet DEF Sets
<1> USE DEF RowsRest
<1>7. CASE InsertUser(c)
  <2>1. CASE ~Me(c).exists /\ user' = [user EXCEPT ![u] = NewUser(c)] /\ Goto(c, "profile")
    <3>1. NewUser(c) \in UserRecord
      BY <1>4 DEF NewUser, FreshUser, UserRecord
    <3>2. u \in Users
      BY <1>3, <1>7 DEF InsertUser, At
    <3> QED BY <1>1, <1>5, <1>6, <1>7, <2>1, <3>1, <3>2 DEF InsertUser, CreatesUser, Does
  <2>2. CASE Me(c).exists /\ Goto(c, "failed") /\ UNCHANGED user
    BY <1>1, <1>5, <1>7, <2>2 DEF InsertUser, IsRefused, Does
  <2> QED BY <1>7, <2>1, <2>2 DEF InsertUser, OnConflict
<1>8. CASE InsertProfile(c)
  <2>1. u \in Users /\ Me(c) \in UserRecord
    BY <1>3, <1>8 DEF InsertProfile, At
  <2>2. [Me(c) EXCEPT !.profile = TRUE] \in UserRecord
    BY <2>1 DEF UserRecord
  <2>3. user' = [user EXCEPT ![u] = [Me(c) EXCEPT !.profile = TRUE]]
    BY <1>8 DEF InsertProfile, Me
  <2> QED BY <1>1, <1>5, <1>6, <1>8, <2>1, <2>2, <2>3 DEF InsertProfile, CreatesProfile, Does
<1>9. CASE InsertVerification(c) \/ InsertReset(c) \/ InsertSubmission(c)
  <2>1. InsertsRow(c)
    BY <1>1, <1>5, <1>9 DEF InsertVerification, InsertReset, InsertSubmission, Insert, InsertsRow, Tables
  <2> QED BY <2>1 DEF Does
<1>10. CASE MailToken(c)
  BY <1>1, <1>5, <1>10 DEF MailToken, Mails, Does
<1>11. CASE MarkVerified(c)
  <2>1. u \in Users /\ Me(c) \in UserRecord
    BY <1>3, <1>11 DEF MarkVerified, At
  <2>2. [Me(c) EXCEPT !.verified = TRUE] \in UserRecord
    BY <2>1 DEF UserRecord
  <2>3. user' = [user EXCEPT ![u] = [Me(c) EXCEPT !.verified = TRUE]]
    BY <1>11 DEF MarkVerified, Me
  <2> QED BY <1>1, <1>5, <1>6, <1>11, <2>1, <2>2, <2>3 DEF MarkVerified, Verifies, Does
<1>12. CASE DropVerification(c) \/ DropReset(c)
  <2>1. DropsRow(c)
    BY <1>1, <1>5, <1>12 DEF DropVerification, DropReset, DropToken, Drop, DropsRow
  <2> QED BY <2>1 DEF Does
<1>13. CASE SetPassword(c)
  <2>1. u \in Users /\ Me(c) \in UserRecord
    BY <1>3, <1>13 DEF SetPassword, At
  <2>2. [Me(c) EXCEPT !.password = c] \in UserRecord
    BY <1>4, <2>1 DEF UserRecord
  <2>3. user' = [user EXCEPT ![u] = [Me(c) EXCEPT !.password = c]]
    BY <1>13 DEF SetPassword, Me
  <2> QED BY <1>1, <1>5, <1>6, <1>13, <2>1, <2>2, <2>3 DEF SetPassword, ChangesPassword, Does
<1>14. CASE StoreSecret(c)
  <2>1. u \in Users /\ Me(c) \in UserRecord
    BY <1>3, <1>14 DEF StoreSecret, At
  <2>2. [Me(c) EXCEPT !.secret = c] \in UserRecord
    BY <1>4, <2>1 DEF UserRecord
  <2>3. user' = [user EXCEPT ![u] = [Me(c) EXCEPT !.secret = c]]
    BY <1>14 DEF StoreSecret, Me
  <2> QED BY <1>1, <1>5, <1>6, <1>14, <2>1, <2>2, <2>3 DEF StoreSecret, StoresSecret, Does
<1>15. CASE SetEnabled(c)
  <2>1. u \in Users /\ Me(c) \in UserRecord
    BY <1>3, <1>15 DEF SetEnabled, At
  <2>2. [Me(c) EXCEPT !.enabled = TRUE] \in UserRecord
    BY <2>1 DEF UserRecord
  <2>3. user' = [user EXCEPT ![u] = [Me(c) EXCEPT !.enabled = TRUE]]
    BY <1>15 DEF SetEnabled, Me
  <2> QED BY <1>1, <1>5, <1>6, <1>15, <2>1, <2>2, <2>3 DEF SetEnabled, Enables, Does
<1>16. CASE SetDisabled(c)
  <2>1. u \in Users /\ Me(c) \in UserRecord
    BY <1>3, <1>16 DEF SetDisabled, At
  <2>2. [Me(c) EXCEPT !.enabled = FALSE] \in UserRecord
    BY <2>1 DEF UserRecord
  <2>3. [[Me(c) EXCEPT !.enabled = FALSE] EXCEPT !.secret = None] \in UserRecord
    BY <1>4, <2>2 DEF UserRecord
  <2> QED BY <1>1, <1>5, <1>6, <1>16, <2>1, <2>3 DEF SetDisabled, Disables, Does
<1>17. CASE CompareAndSet(c)
  <2>1. u \in Users /\ Me(c) \in UserRecord
    BY <1>3, <1>17 DEF CompareAndSet, At
  <2>2. [Me(c) EXCEPT !.overlay = c] \in UserRecord
    BY <1>4, <2>1 DEF UserRecord
  <2>3. CASE NoTokenYet(c) /\ StoreToken(c, "answer")
    <3>1. user' = [user EXCEPT ![u] = [Me(c) EXCEPT !.overlay = c]] /\ Proceed(c, "answer", c)
      BY <2>3 DEF StoreToken, Me
    <3> QED BY <1>2, <1>4, <1>5, <1>6, <1>17, <2>1, <2>2, <2>3, <3>1
            DEF CompareAndSet, NoTokenYet, WinsOverlay, Does
  <2>4. CASE ~NoTokenYet(c) /\ Goto(c, "reread") /\ UNCHANGED user
    BY <1>1, <1>5, <1>17, <2>4 DEF CompareAndSet, NoTokenYet, MissesOverlay, Does
  <2> QED BY <1>17, <2>3, <2>4 DEF CompareAndSet
<1>18. CASE RereadToken(c)
  <2>1. Me(c).overlay \in CallOrNone
    BY <1>3, <1>4, <1>18 DEF RereadToken, At
  <2> QED BY <1>2, <1>5, <1>18, <2>1 DEF RereadToken, ReadsOverlay, Does
<1>19. CASE OverwriteToken(c)
  <2>1. u \in Users /\ Me(c) \in UserRecord
    BY <1>3, <1>19 DEF OverwriteToken, At
  <2>2. [Me(c) EXCEPT !.overlay = c] \in UserRecord
    BY <1>4, <2>1 DEF UserRecord
  <2>3. user' = [user EXCEPT ![u] = [Me(c) EXCEPT !.overlay = c]] /\ Proceed(c, "answer", c)
    BY <1>19 DEF OverwriteToken, StoreToken, Me
  <2> QED BY <1>2, <1>4, <1>5, <1>6, <1>19, <2>1, <2>2, <2>3 DEF OverwriteToken, ReplacesOverlay, Does
<1>20. CASE MarkPending(c)
  <2>1. u \in Users /\ Me(c) \in UserRecord
    BY <1>3, <1>20 DEF MarkPending, At
  <2>2. [Me(c) EXCEPT !.pending = TRUE] \in UserRecord
    BY <2>1 DEF UserRecord
  <2>3. CASE HasProfile(c) /\ user' = [user EXCEPT ![u].pending = TRUE]
    <3>1. user' = [user EXCEPT ![u] = [Me(c) EXCEPT !.pending = TRUE]]
      BY <2>3 DEF Me
    <3> QED BY <1>1, <1>5, <1>6, <1>20, <2>1, <2>2, <2>3, <3>1 DEF MarkPending, HasProfile, MarksPending, Does
  <2>4. CASE UNCHANGED user
    BY <1>1, <1>5, <1>20, <2>4 DEF MarkPending, MarksPending, Does
  <2> QED BY <1>20, <2>3, <2>4 DEF MarkPending
<1>21. CASE StoreLink(c)
  BY <1>1, <1>5, <1>21 DEF StoreLink, Links, Does
<1>22. CASE AnswerCall(c)
  BY <1>1, <1>5, <1>22 DEF AnswerCall, Ends, Does
<1>23. CASE Fails(c)
  <2>1. GoesOn(c, call[c].at, "failed") /\ UnderWay(c)
    BY <1>0, <1>1, <1>5, <1>23 DEF Fails, At
  <2> QED BY <1>23, <2>1 DEF Fails, Ends, Does
<1> QED BY <1>7, <1>8, <1>9, <1>10, <1>11, <1>12, <1>13, <1>14, <1>15, <1>16, <1>17, <1>18, <1>19,
           <1>20, <1>21, <1>22, <1>23 DEF Handle

\* A step takes the call of one handler further, never one that is over.
Advances(c) ==
  /\ UnderWay(c)
  /\ call' \in [Calls -> CallRecord]
  /\ \A d \in Calls \ {c} : call'[d] = call[d]
  /\ call'[c].op = call[c].op /\ call'[c].u = call[c].u
  /\ Visits(call[c].op, call'[c].at)
  /\ call[c].at = "answer" => call'[c].at \in {"done", "failed"}
  /\ call'[c].at \in {"answer", "done"} =>
       call[c].at \notin {"user", "profile", "verification", "reset", "markVerified", "password", "submission"}
  /\ call'[c].at = "done" => call[c].at = "answer"
  /\ call[c].at \notin {"overlay", "reread", "regenerate"} => call'[c].seen = call[c].seen

\* A statement takes the call of its own handler further along its route.
LEMMA DoesAdvance ==
  ASSUME Fit, NEW c \in Calls, Does(c)
  PROVE  Advances(c)
<1>0. call[c].at # "idle" => Visits(call[c].op, call[c].at)
  BY DEF Fit, CallsFit
<1>1. ASSUME NEW from, NEW to, NEW seen, Goes(c, from, to, seen),
             from \notin Over, Visits(call[c].op, to),
             from = "answer" => to \in {"done", "failed"},
             to \in {"answer", "done"} =>
               from \notin {"user", "profile", "verification", "reset", "markVerified", "password", "submission"},
             to = "done" => from = "answer",
             from \notin {"overlay", "reread", "regenerate"} => seen = call[c].seen
      PROVE  Advances(c)
  BY <1>1 DEF Goes, CallIs, Advances, UnderWay
<1> USE DEF Visits, Ops, Over, GoesOn
<1>2. CASE CreatesUser(c) \/ IsRefused(c) \/ CreatesProfile(c)
  BY <1>0, <1>1, <1>2 DEF CreatesUser, IsRefused, CreatesProfile, Goes
<1>3. CASE InsertsRow(c)
  BY <1>0, <1>1, <1>3 DEF InsertsRow, Goes
<1>4. CASE Mails(c) \/ Verifies(c) \/ DropsRow(c)
  BY <1>0, <1>1, <1>4 DEF Mails, Verifies, DropsRow, Goes
<1>5. CASE ChangesPassword(c) \/ StoresSecret(c) \/ Enables(c) \/ Disables(c)
  BY <1>0, <1>1, <1>5 DEF ChangesPassword, StoresSecret, Enables, Disables, Goes
<1>6. CASE WinsOverlay(c) \/ MissesOverlay(c) \/ ReadsOverlay(c) \/ ReplacesOverlay(c)
  BY <1>0, <1>1, <1>6 DEF WinsOverlay, MissesOverlay, ReadsOverlay, ReplacesOverlay, Goes
<1>7. CASE MarksPending(c) \/ Links(c)
  BY <1>0, <1>1, <1>7 DEF MarksPending, Links, Goes
<1>8. CASE Ends(c)
  BY <1>0, <1>1, <1>8 DEF Ends, Goes, UnderWay
<1> QED BY <1>2, <1>3, <1>4, <1>5, <1>6, <1>7, <1>8 DEF Does

\* A token expires, or nothing happens.
Expires == rows' \subseteq rows /\ UNCHANGED <<user, mailed, wallet, call>>

\* Nothing else happens: a token expires, a call begins, or a handler goes on.
LEMMA WhatHappens ==
  ASSUME Fit, [AccountNext]_accountVars
  PROVE  \/ Expires
         \/ \E c \in Calls, op \in Ops, u \in Users, seen \in CallOrNone, at \in Places : Begins(c, op, u, seen, at)
         \/ \E c \in Calls : Does(c)
<1>1. CASE UNCHANGED accountVars
  BY <1>1 DEF accountVars, Expires
<1>2. ASSUME NEW c \in Calls, Request(c)
      PROVE  \E op \in Ops, u \in Users, seen \in CallOrNone, at \in Places : Begins(c, op, u, seen, at)
  BY <1>2, RequestBegins
<1>3. ASSUME NEW c \in Calls, Handle(c) PROVE Does(c)
  BY <1>3, HandleDoes
<1>4. ASSUME NEW c \in Calls, ExpireToken(c) PROVE Expires
  BY <1>4 DEF ExpireToken, Expires
<1> QED BY <1>1, <1>2, <1>3, <1>4 DEF AccountNext

\* A request begins as a call that fits.
LEMMA BeginsFit ==
  ASSUME Fit, NEW c \in Calls, NEW op \in Ops, NEW u \in Users, NEW seen \in CallOrNone, NEW at \in Places,
         Begins(c, op, u, seen, at)
  PROVE  Visits(op, at) /\ c \notin mailed
<1>1. Visits(op, at)
  BY DEF Begins, Asks, Visits, Ops
<1>2. call[c].at = "idle"
  BY DEF Begins
<1> QED BY <1>1, <1>2 DEF Fit, RowsFit

\* No step makes a row or a call that does not fit its table.
LEMMA FitStep ==
  ASSUME Fit, [AccountNext]_accountVars
  PROVE  Fit'
<1> USE DEF Fit, CallsFit, RowsFit
<1>1. CASE Expires
  BY <1>1 DEF Expires
<1>2. ASSUME NEW c \in Calls, NEW op \in Ops, NEW u \in Users, NEW seen \in CallOrNone, NEW at \in Places,
             Begins(c, op, u, seen, at)
      PROVE  Fit'
  <2>1. Visits(op, at) /\ c \notin mailed
    BY <1>2, BeginsFit
  <2>2. /\ call'[c] = [op |-> op, at |-> at, u |-> u, seen |-> seen]
        /\ \A d \in Calls \ {c} : call'[d] = call[d]
        /\ call' \in [Calls -> CallRecord] /\ UNCHANGED <<user, rows, mailed, wallet>>
    BY <1>2 DEF Begins, CallIs
  <2> QED BY <2>1, <2>2
<1>3. ASSUME NEW c \in Calls, Does(c) PROVE Fit'
  <2>1. Advances(c)
    BY <1>3, DoesAdvance
  <2>2. CallsFit'
    BY <2>1 DEF Advances, UnderWay, Over, Visits
  <2>3. /\ user' \in [Users -> UserRecord]
        /\ rows' \subseteq Tables \X Calls
        /\ wallet' \in Users \cup {None}
    <3> USE DEF Sets, RowsRest
    <3>1. CASE InsertsRow(c)
      BY <3>1 DEF InsertsRow
    <3>2. CASE DropsRow(c)
      BY <3>2 DEF DropsRow
    <3>3. CASE Links(c)
      BY <2>1, <3>3 DEF Links, Advances, UnderWay, Over
    <3>4. CASE IsRefused(c) \/ Mails(c) \/ MissesOverlay(c) \/ ReadsOverlay(c) \/ Ends(c)
      BY <3>4 DEF IsRefused, Mails, MissesOverlay, ReadsOverlay, Ends
    <3>5. CASE CreatesUser(c) \/ CreatesProfile(c) \/ Verifies(c) \/ ChangesPassword(c) \/ StoresSecret(c)
                 \/ Enables(c) \/ Disables(c)
      BY <3>5 DEF CreatesUser, CreatesProfile, Verifies, ChangesPassword, StoresSecret, Enables, Disables
    <3>6. CASE WinsOverlay(c) \/ ReplacesOverlay(c) \/ MarksPending(c)
      BY <3>6 DEF WinsOverlay, ReplacesOverlay, MarksPending
    <3> QED BY <1>3, <3>1, <3>2, <3>3, <3>4, <3>5, <3>6 DEF Does
  <2>4. mailed' \subseteq Calls /\ \A t \in mailed' : call'[t].at \in {"answer", "done", "failed"}
    <3>1. CASE Mails(c)
      BY <2>1, <3>1 DEF Mails, GoesOn, Goes, CallIs, Advances, UnderWay, Over
    <3>2. CASE mailed' = mailed
      BY <2>1, <3>2 DEF Advances, UnderWay, Over
    <3>3. Mails(c) \/ mailed' = mailed
      BY <1>3 DEF Does, CreatesUser, IsRefused, CreatesProfile, InsertsRow, Verifies, DropsRow,
                  ChangesPassword, StoresSecret, Enables, Disables, WinsOverlay, MissesOverlay, ReadsOverlay,
                  ReplacesOverlay, MarksPending, Links, Ends, Sets, RowsRest
    <3> QED BY <3>1, <3>2, <3>3
  <2> QED BY <2>2, <2>3, <2>4
<1> QED BY <1>1, <1>2, <1>3, WhatHappens

\* Which steps reach a place.
LEMMA EntersBy ==
  ASSUME Fit, NEW c \in Calls, Does(c)
  PROVE  /\ call'[c].at \notin {"user", "markVerified", "reset", "password", "secret", "enable", "disable",
                                "overlay", "regenerate", "submission", "link"}
         /\ call'[c].at = "profile" => CreatesUser(c)
         /\ call'[c].at = "verification" => CreatesProfile(c)
         /\ call'[c].at = "mail" => call[c].at \in {"verification", "reset"}
         /\ call'[c].at = "dropReset" => ChangesPassword(c)
         /\ call'[c].at = "reread" => MissesOverlay(c)
         /\ call'[c].at = "answer" /\ call[c].at = "dropReset" => rows' = rows \ {<<"reset", call[c].seen>>}
         /\ call'[c].at = "answer" /\ call[c].at \in {"overlay", "reread"} => WinsOverlay(c) \/ ReadsOverlay(c)
<1> USE DEF GoesOn, Goes, CallIs
<1>1. CASE CreatesUser(c) \/ IsRefused(c) \/ CreatesProfile(c)
  BY <1>1 DEF CreatesUser, IsRefused, CreatesProfile
<1>2. CASE InsertsRow(c) \/ Mails(c) \/ Verifies(c) \/ DropsRow(c)
  BY <1>2 DEF InsertsRow, Mails, Verifies, DropsRow
<1>3. CASE ChangesPassword(c) \/ StoresSecret(c) \/ Enables(c) \/ Disables(c)
  BY <1>3 DEF ChangesPassword, StoresSecret, Enables, Disables
<1>4. CASE WinsOverlay(c) \/ MissesOverlay(c) \/ ReadsOverlay(c) \/ ReplacesOverlay(c)
  BY <1>4 DEF WinsOverlay, MissesOverlay, ReadsOverlay, ReplacesOverlay
<1>5. CASE MarksPending(c) \/ Links(c) \/ Ends(c)
  BY <1>5 DEF MarksPending, Links, Ends
<1> QED BY <1>1, <1>2, <1>3, <1>4, <1>5 DEF Does

\* What a step of a call makes of a user's row: it creates it, or sets the
\* fields its statement names.
Alters(c, v) ==
  /\ user'[v].exists = user[v].exists /\ user'[v].id = user[v].id
  /\ user'[v].profile = user[v].profile \/ (CreatesProfile(c) /\ user'[v].profile)
  /\ user'[v].password = user[v].password \/ (ChangesPassword(c) /\ user'[v].password = c)
  /\ \/ user'[v].secret = user[v].secret /\ user'[v].enabled = user[v].enabled
     \/ StoresSecret(c) /\ user'[v].secret = c /\ user'[v].enabled = user[v].enabled
     \/ Enables(c) /\ user'[v].secret = user[v].secret
     \/ Disables(c) /\ user'[v].enabled = FALSE
  /\ user'[v].overlay = user[v].overlay \/ ((WinsOverlay(c) \/ ReplacesOverlay(c)) /\ user'[v].overlay = c)
  /\ user'[v].pending = user[v].pending \/ (MarksPending(c) /\ user[v].profile)

\* What a statement makes of a row of users.
LEMMA RowChanges ==
  ASSUME Fit, NEW c \in Calls, Does(c), NEW v \in Users
  PROVE  \/ user'[v] = user[v]
         \/ v = call[c].u /\ CreatesUser(c) /\ user'[v] = NewUser(c)
         \/ v = call[c].u /\ Alters(c, v)
<1>0. call[c].u \in Users /\ user[v] \in UserRecord
  BY DoesAdvance DEF Fit, CallsFit, RowsFit, Advances, UnderWay, Over
<1>1. CASE IsRefused(c) \/ InsertsRow(c) \/ Mails(c) \/ DropsRow(c) \/ MissesOverlay(c) \/ ReadsOverlay(c)
             \/ Links(c) \/ Ends(c)
  BY <1>1 DEF IsRefused, InsertsRow, Mails, DropsRow, MissesOverlay, ReadsOverlay, Links, Ends
<1>2. ASSUME NEW row, Sets(c, row), v # call[c].u PROVE user'[v] = user[v]
  BY <1>2 DEF Sets, UserIs
<1>3. ASSUME NEW row, Sets(c, row) PROVE user'[call[c].u] = row
  BY <1>3 DEF Sets, UserIs
<1>4. CASE CreatesUser(c)
  BY <1>2, <1>3, <1>4 DEF CreatesUser
<1>5. CASE CreatesProfile(c)
  <2>1. v = call[c].u => user'[v] = [user[v] EXCEPT !.profile = TRUE]
    BY <1>3, <1>5 DEF CreatesProfile, Me
  <2> QED BY <1>0, <1>2, <1>5, <2>1 DEF CreatesProfile, Alters, UserRecord
<1>6. CASE Verifies(c)
  <2>1. v = call[c].u => user'[v] = [user[v] EXCEPT !.verified = TRUE]
    BY <1>3, <1>6 DEF Verifies, Me
  <2> QED BY <1>0, <1>2, <1>6, <2>1 DEF Verifies, Alters, UserRecord
<1>7. CASE ChangesPassword(c)
  <2>1. v = call[c].u => user'[v] = [user[v] EXCEPT !.password = c]
    BY <1>3, <1>7 DEF ChangesPassword, Me
  <2> QED BY <1>0, <1>2, <1>7, <2>1 DEF ChangesPassword, Alters, UserRecord
<1>8. CASE StoresSecret(c)
  <2>1. v = call[c].u => user'[v] = [user[v] EXCEPT !.secret = c]
    BY <1>3, <1>8 DEF StoresSecret, Me
  <2> QED BY <1>0, <1>2, <1>8, <2>1 DEF StoresSecret, Alters, UserRecord
<1>9. CASE Enables(c)
  <2>1. v = call[c].u => user'[v] = [user[v] EXCEPT !.enabled = TRUE]
    BY <1>3, <1>9 DEF Enables, Me
  <2> QED BY <1>0, <1>2, <1>9, <2>1 DEF Enables, Alters, UserRecord
<1>10. CASE Disables(c)
  <2>1. v = call[c].u => user'[v] = [[user[v] EXCEPT !.enabled = FALSE] EXCEPT !.secret = None]
    BY <1>3, <1>10 DEF Disables, Me
  <2> QED BY <1>0, <1>2, <1>10, <2>1 DEF Disables, Alters, UserRecord
<1>11. CASE WinsOverlay(c) \/ ReplacesOverlay(c)
  <2>1. v = call[c].u => user'[v] = [user[v] EXCEPT !.overlay = c]
    BY <1>3, <1>11 DEF WinsOverlay, ReplacesOverlay, Me
  <2> QED BY <1>0, <1>2, <1>11, <2>1 DEF WinsOverlay, ReplacesOverlay, Alters, UserRecord
<1>12. CASE MarksPending(c)
  <2>1. user'[v] = user[v] \/ (v = call[c].u /\ user[v].profile /\ user'[v] = [user[v] EXCEPT !.pending = TRUE])
    BY <1>2, <1>3, <1>12 DEF MarksPending, Me
  <2> QED BY <1>0, <1>12, <2>1 DEF Alters, UserRecord
<1> QED BY <1>1, <1>4, <1>5, <1>6, <1>7, <1>8, <1>9, <1>10, <1>11, <1>12 DEF Does

\* A profile belongs to a user, and a call sets a column of a profile it has seen.
ProfileInv ==
  /\ \A u \in Users : /\ user[u].profile => user[u].exists
                      /\ (user[u].overlay # None \/ user[u].pending) => user[u].profile
  /\ \A c \in Calls : /\ call[c].at = "profile" => user[call[c].u].exists
                      /\ call[c].at \in {"overlay", "reread", "regenerate"} => user[call[c].u].profile

\* A user and a profile stay once they exist, and columns of a profile are set in one only.
LEMMA ProfileStep ==
  ASSUME Fit, ProfileInv, [AccountNext]_accountVars
  PROVE  /\ ProfileInv'
         /\ \A u \in Users : (user[u].exists => user'[u].exists) /\ (user[u].profile => user'[u].profile)
<1> DEFINE Grows == \A u \in Users : /\ user[u].exists => user'[u].exists
                                     /\ user[u].profile => user'[u].profile
<1>1. CASE Expires
  BY <1>1 DEF Expires, ProfileInv
<1>2. ASSUME NEW c \in Calls, NEW op \in Ops, NEW u \in Users, NEW seen \in CallOrNone, NEW at \in Places,
             Begins(c, op, u, seen, at)
      PROVE  ProfileInv' /\ Grows
  <2>1. at # "profile" /\ at # "reread" /\ (at \in {"overlay", "regenerate"} => user[u].profile)
    BY <1>2 DEF Begins, Asks
  <2> QED BY <1>2, <2>1 DEF Begins, CallIs, ProfileInv
<1>3. ASSUME NEW c \in Calls, Does(c) PROVE ProfileInv' /\ Grows
  <2>1. Advances(c)
    BY <1>3, DoesAdvance
  <2>2. ASSUME NEW v \in Users
        PROVE  /\ user[v].exists => user'[v].exists
               /\ user[v].profile => user'[v].profile
               /\ user'[v].profile => user'[v].exists
               /\ (user'[v].overlay # None \/ user'[v].pending) => user'[v].profile
    <3>0. /\ user[v].profile => user[v].exists
          /\ (user[v].overlay # None \/ user[v].pending) => user[v].profile
      BY DEF ProfileInv
    <3>1. CASE user'[v] = user[v]
      BY <3>0, <3>1
    <3>2. CASE v = call[c].u /\ CreatesUser(c) /\ user'[v] = NewUser(c)
      BY <3>0, <3>2 DEF CreatesUser, Me, NewUser, FreshUser
    <3>3. CASE v = call[c].u /\ Alters(c, v)
      <4>1. CreatesProfile(c) => user[v].exists
        BY <3>3 DEF CreatesProfile, GoesOn, Goes, ProfileInv
      <4>2. WinsOverlay(c) \/ ReplacesOverlay(c) => user[v].profile
        BY <3>3 DEF WinsOverlay, ReplacesOverlay, GoesOn, Goes, ProfileInv
      <4> QED BY <3>0, <3>3, <4>1, <4>2 DEF Alters
    <3> QED BY <1>3, <3>1, <3>2, <3>3, RowChanges
  <2>3. /\ call'[c].at = "profile" => user'[call[c].u].exists
        /\ call'[c].at \in {"overlay", "reread", "regenerate"} => user'[call[c].u].profile
    <3>0. call[c].u \in Users
      BY <2>1 DEF Fit, CallsFit, Advances, UnderWay, Over
    <3>1. call'[c].at = "profile" => CreatesUser(c)
      BY <1>3, EntersBy
    <3>2. CreatesUser(c) => user'[call[c].u].exists
      BY DEF CreatesUser, Sets, UserIs, NewUser, FreshUser
    <3>3. call'[c].at \in {"overlay", "reread", "regenerate"} => MissesOverlay(c)
      BY <1>3, EntersBy
    <3>4. MissesOverlay(c) => user[call[c].u].profile
      BY DEF MissesOverlay, GoesOn, Goes, ProfileInv
    <3> QED BY <2>2, <3>0, <3>1, <3>2, <3>3, <3>4
  <2>4. ASSUME NEW d \in Calls \ {c}
        PROVE  /\ call'[d].at = "profile" => user'[call'[d].u].exists
               /\ call'[d].at \in {"overlay", "reread", "regenerate"} => user'[call'[d].u].profile
    <3>1. call'[d] = call[d]
      BY <2>1 DEF Advances
    <3>2. call[d].at # "idle" => call[d].u \in Users
      BY DEF Fit, CallsFit
    <3> QED BY <2>2, <3>1, <3>2 DEF ProfileInv
  <2> QED BY <2>1, <2>2, <2>3, <2>4 DEF ProfileInv, Advances
<1> QED BY <1>1, <1>2, <1>3, WhatHappens

\* The invariant that types the state.
AccountInv == Fit /\ ProfileInv

\* Types, and what calls know of the rows, are kept by every step.
LEMMA AccountInvariant == AccountSpec => []AccountInv
<1>1. AccountInit => AccountInv
  <2> SUFFICES ASSUME AccountInit PROVE AccountInv
    OBVIOUS
  <2>1. call \in [Calls -> CallRecord]
    BY DEF AccountInit, IdleCall, CallRecord, Places, CallOrNone
  <2>2. \A u \in Users : FreshUser(None, u \in Registered, u \in Registered) \in UserRecord
    BY DEF FreshUser, UserRecord, CallOrNone
  <2>3. user \in [Users -> UserRecord]
    BY <2>2 DEF AccountInit
  <2>4. ProfileInv
    BY DEF AccountInit, FreshUser, IdleCall, ProfileInv
  <2> QED BY <2>1, <2>3, <2>4 DEF AccountInit, IdleCall, AccountInv, Fit, CallsFit, RowsFit
<1>2. AccountInv /\ [AccountNext]_accountVars => AccountInv'
  BY FitStep, ProfileStep DEF AccountInv
<1> QED BY <1>1, <1>2, PTL DEF AccountSpec

\* Rows and calls keep their types; a profile belongs to a user, and only a
\* profile has an overlay token or a pending KYC.
THEOREM AccountTypes == AccountSpec => []AccountTypeOK
<1>1. AccountInv => AccountTypeOK
  BY DEF AccountInv, Fit, CallsFit, RowsFit, ProfileInv, AccountTypeOK, CallRecord, Tables
<1> QED BY <1>1, AccountInvariant, PTL

-----------------------------------------------------------------------------
(* A welcomed user owns the account.                                       *)

\* From the insert of its user to its answer a sign-up owns the row.
OwnerInv ==
  \A c \in Calls : call[c].op = "signup" =>
    /\ call[c].at \in {"profile", "verification", "mail", "answer", "done"} =>
         user[call[c].u].exists /\ user[call[c].u].id = c
    /\ call[c].at \in {"verification", "mail", "answer", "done"} => user[call[c].u].profile

\* Nobody takes over a row of users: it is inserted where there is none.
LEMMA OwnerStep ==
  ASSUME AccountInv, OwnerInv, [AccountNext]_accountVars
  PROVE  OwnerInv'
<1> USE DEF AccountInv
<1>1. CASE Expires
  BY <1>1 DEF Expires, OwnerInv
<1>2. ASSUME NEW c \in Calls, NEW op \in Ops, NEW u \in Users, NEW seen \in CallOrNone, NEW at \in Places,
             Begins(c, op, u, seen, at)
      PROVE  OwnerInv'
  <2>1. op = "signup" => at \in {"user", "refused"}
    BY <1>2 DEF Begins, Asks
  <2> QED BY <1>2, <2>1 DEF Begins, CallIs, OwnerInv
<1>3. ASSUME NEW c \in Calls, Does(c) PROVE OwnerInv'
  <2>1. Advances(c) /\ call[c].u \in Users
    BY <1>3, DoesAdvance DEF Fit, CallsFit, Advances, UnderWay, Over
  <2>2. ASSUME NEW v \in Users, NEW d \in Calls, user[v].exists, user[v].id = d
        PROVE  user'[v].exists /\ user'[v].id = d /\ (user[v].profile => user'[v].profile)
    <3>1. ~(v = call[c].u /\ CreatesUser(c))
      BY <2>2 DEF CreatesUser, Me
    <3> QED BY <1>3, <2>2, <3>1, RowChanges DEF Alters
  <2>3. ASSUME NEW d \in Calls \ {c}, call'[d].op = "signup"
        PROVE  /\ call'[d].at \in {"profile", "verification", "mail", "answer", "done"} =>
                    user'[call'[d].u].exists /\ user'[call'[d].u].id = d
               /\ call'[d].at \in {"verification", "mail", "answer", "done"} => user'[call'[d].u].profile
    <3>1. call'[d] = call[d] /\ (call[d].at # "idle" => call[d].u \in Users)
      BY <2>1 DEF Advances, Fit, CallsFit
    <3> QED BY <2>2, <2>3, <3>1 DEF OwnerInv
  <2>4. ASSUME call[c].op = "signup"
        PROVE  /\ call'[c].at \in {"profile", "verification", "mail", "answer", "done"} =>
                    user'[call[c].u].exists /\ user'[call[c].u].id = c
               /\ call'[c].at \in {"verification", "mail", "answer", "done"} => user'[call[c].u].profile
    <3>1. CASE call'[c].at = "profile"
      <4>1. CreatesUser(c)
        BY <1>3, <3>1, EntersBy
      <4> QED BY <3>1, <4>1 DEF CreatesUser, Sets, UserIs, NewUser, FreshUser
    <3>2. CASE call'[c].at = "verification"
      <4>1. CreatesProfile(c)
        BY <1>3, <3>2, EntersBy
      <4>2. user[call[c].u].exists /\ user[call[c].u].id = c
        BY <2>4, <4>1 DEF CreatesProfile, GoesOn, Goes, OwnerInv
      <4>3. user'[call[c].u] = [user[call[c].u] EXCEPT !.profile = TRUE] /\ user[call[c].u] \in UserRecord
        BY <2>1, <4>1 DEF CreatesProfile, Sets, UserIs, Me, Fit, RowsFit
      <4>4. user'[call[c].u].profile
        BY <4>3 DEF UserRecord
      <4> QED BY <2>1, <2>2, <4>2, <4>4
    <3>3. CASE call'[c].at \in {"mail", "answer", "done"}
      <4>1. call[c].at \in {"verification", "mail", "answer"}
        <5>1. Visits("signup", call[c].at)
          BY <2>1, <2>4 DEF Fit, CallsFit, Advances, UnderWay, Over
        <5>2. call'[c].at = "mail" => call[c].at \in {"verification", "reset"}
          BY <1>3, EntersBy
        <5> QED BY <2>1, <3>3, <5>1, <5>2 DEF Visits, Advances, UnderWay, Over
      <4>2. user[call[c].u].exists /\ user[call[c].u].id = c /\ user[call[c].u].profile
        BY <2>4, <4>1 DEF OwnerInv
      <4> QED BY <2>1, <2>2, <4>2
    <3> QED BY <3>1, <3>2, <3>3
  <2> QED BY <2>1, <2>3, <2>4 DEF OwnerInv, Advances
<1> QED BY <1>1, <1>2, <1>3, WhatHappens

\* A sign-up answered 201 (auth/routes.ts:83) owns the row of its address and
\* has a profile, whatever raced with it: the unique index on users.email lets
\* one insert through, and the handler only goes on after it.
THEOREM TheWelcomedOwn == AccountSpec => []WelcomedOwnsAccount
<1>1. AccountInit => OwnerInv
  BY DEF AccountInit, IdleCall, OwnerInv
<1>2. AccountInv /\ OwnerInv /\ [AccountNext]_accountVars => OwnerInv'
  BY OwnerStep
<1>3. OwnerInv => WelcomedOwnsAccount
  BY DEF OwnerInv, WelcomedOwnsAccount, Done
<1> QED BY <1>1, <1>2, <1>3, AccountInvariant, PTL DEF AccountSpec

-----------------------------------------------------------------------------
(* What a careful user does one at a time.                                 *)

ExclusiveInv ==
  \A c, d \in Calls, F \in Exclusive :
    /\ UnderWay(c) /\ UnderWay(d) /\ call[c].op \in F /\ call[d].op \in F
    /\ call[c].u = call[d].u /\ call[c].u \in CarefulUsers
    => c = d

\* A careful user begins no call beside another of its family.
LEMMA ExclusiveStep ==
  ASSUME AccountInv, ExclusiveInv, [AccountNext]_accountVars
  PROVE  ExclusiveInv'
<1> USE DEF AccountInv
<1>1. CASE Expires
  BY <1>1 DEF Expires, ExclusiveInv, UnderWay
<1>2. ASSUME NEW c \in Calls, NEW op \in Ops, NEW u \in Users, NEW seen \in CallOrNone, NEW at \in Places,
             Begins(c, op, u, seen, at)
      PROVE  ExclusiveInv'
  <2>1. /\ call'[c].op = op /\ call'[c].u = u /\ \A d \in Calls \ {c} : call'[d] = call[d]
        /\ MayCall(u, op)
    BY <1>2 DEF Begins, CallIs
  <2> SUFFICES ASSUME NEW d \in Calls, NEW e \in Calls, NEW F \in Exclusive,
                      UnderWay(d)', UnderWay(e)', call'[d].op \in F, call'[e].op \in F,
                      call'[d].u = call'[e].u, call'[d].u \in CarefulUsers
               PROVE  d = e
    BY DEF ExclusiveInv
  <2>2. ASSUME NEW x \in Calls \ {c}, u \in CarefulUsers, op \in F, call[x].op \in F, call[x].u = u
        PROVE  ~UnderWay(x)
    BY <2>1, <2>2 DEF MayCall
  <2> QED BY <2>1, <2>2 DEF ExclusiveInv, UnderWay
<1>3. ASSUME NEW c \in Calls, Does(c) PROVE ExclusiveInv'
  BY <1>3, DoesAdvance DEF Advances, ExclusiveInv, UnderWay
<1> QED BY <1>1, <1>2, <1>3, WhatHappens

\* A careful user has one call of each family under way.
LEMMA ExclusiveInvariant == AccountSpec => []ExclusiveInv
<1>1. AccountInit => ExclusiveInv
  BY DEF AccountInit, IdleCall, ExclusiveInv, UnderWay, Over
<1>2. AccountInv /\ ExclusiveInv /\ [AccountNext]_accountVars => ExclusiveInv'
  BY ExclusiveStep
<1> QED BY <1>1, <1>2, AccountInvariant, PTL DEF AccountSpec

-----------------------------------------------------------------------------
(* Nobody careful is locked out.                                           *)

\* The password of a row is the one it was created or last reset with.
Chose(c, u) == call[c].at # "idle" /\ call[c].u = u /\ call[c].op \in {"signup", "reset"}
PasswordInv ==
  \A u \in Users : user[u].password # None => \E c \in Calls : user[u].password = c /\ Chose(c, u)

\* A careful user whose 2FA is enabled, or about to be, has the secret; the
\* secret is set up anew only while 2FA is disabled.
SecretInv ==
  /\ \A u \in Users : user[u].secret # None => user[u].exists
  /\ \A c \in Calls : call[c].at = "secret" => user[call[c].u].exists
  /\ \A u \in CarefulUsers : user[u].enabled => user[u].secret \in Authenticator(u)
  /\ \A c \in Calls : call[c].u \in CarefulUsers =>
       /\ call[c].at = "enable" => user[call[c].u].secret \in Authenticator(call[c].u)
       /\ call[c].at = "secret" => ~user[call[c].u].enabled

\* What an authenticator was shown it keeps.
LEMMA AuthenticatorKeeps ==
  ASSUME AccountInv, [AccountNext]_accountVars, NEW u
  PROVE  Authenticator(u) \subseteq Authenticator(u)'
<1>1. ASSUME NEW c \in Calls, call[c].at = "done" PROVE call'[c] = call[c]
  <2>1. CASE Expires
    BY <2>1 DEF Expires
  <2>2. ASSUME NEW d \in Calls, NEW op \in Ops, NEW v \in Users, NEW seen \in CallOrNone, NEW at \in Places,
               Begins(d, op, v, seen, at)
        PROVE  call'[c] = call[c]
    BY <1>1, <2>2 DEF Begins, CallIs
  <2>3. ASSUME NEW d \in Calls, Does(d) PROVE call'[c] = call[c]
    BY <1>1, <2>3, DoesAdvance DEF Advances, UnderWay, Over, AccountInv
  <2> QED BY <2>1, <2>2, <2>3, WhatHappens DEF AccountInv
<1> QED BY <1>1 DEF Authenticator

\* A password is written by the sign-up or the reset that chose it.
LEMMA PasswordStep ==
  ASSUME AccountInv, PasswordInv, [AccountNext]_accountVars
  PROVE  PasswordInv'
<1> USE DEF AccountInv
<1>1. CASE Expires
  BY <1>1 DEF Expires, PasswordInv, Chose
<1>2. ASSUME NEW c \in Calls, NEW op \in Ops, NEW u \in Users, NEW seen \in CallOrNone, NEW at \in Places,
             Begins(c, op, u, seen, at)
      PROVE  PasswordInv'
  BY <1>2 DEF Begins, CallIs, PasswordInv, Chose
<1>3. ASSUME NEW c \in Calls, Does(c) PROVE PasswordInv'
  <2>1. Advances(c) /\ Visits(call[c].op, call[c].at)
    BY <1>3, DoesAdvance DEF Fit, CallsFit, Advances, UnderWay, Over
  <2>2. ASSUME NEW d \in Calls, NEW v, Chose(d, v) PROVE Chose(d, v)'
    BY <2>1, <2>2 DEF Advances, Chose, Visits
  <2>3. ASSUME NEW v \in Users, user'[v].password # None
        PROVE  \E d \in Calls : user'[v].password = d /\ Chose(d, v)'
    <3>1. CASE user'[v].password = user[v].password
      BY <2>2, <2>3, <3>1 DEF PasswordInv
    <3>2. CASE v = call[c].u /\ CreatesUser(c) /\ user'[v] = NewUser(c)
      <4>1. Chose(c, v)
        BY <2>1, <3>2 DEF CreatesUser, GoesOn, Goes, Visits, Chose
      <4> QED BY <2>2, <3>2, <4>1 DEF NewUser, FreshUser
    <3>3. CASE v = call[c].u /\ ChangesPassword(c) /\ user'[v].password = c
      <4>1. Chose(c, v)
        BY <2>1, <3>3 DEF ChangesPassword, GoesOn, Goes, Visits, Chose
      <4> QED BY <2>2, <3>3, <4>1
    <3> QED BY <1>3, <3>1, <3>2, <3>3, RowChanges DEF Alters
  <2> QED BY <2>3 DEF PasswordInv
<1> QED BY <1>1, <1>2, <1>3, WhatHappens

\* While a careful user enables 2FA the secret stays the one that was proved.
LEMMA SecretStep ==
  ASSUME AccountInv, ExclusiveInv, SecretInv, [AccountNext]_accountVars
  PROVE  SecretInv'
<1> USE DEF AccountInv
<1>0. \A u : Authenticator(u) \subseteq Authenticator(u)'
  BY AuthenticatorKeeps
<1>a. CarefulUsers \subseteq Users
  BY AccountAssumption
<1>1. CASE Expires
  BY <1>0, <1>1 DEF Expires, SecretInv
<1>2. ASSUME NEW c \in Calls, NEW op \in Ops, NEW u \in Users, NEW seen \in CallOrNone, NEW at \in Places,
             Begins(c, op, u, seen, at)
      PROVE  SecretInv'
  <2>1. /\ at = "secret" => op = "setup" /\ user[u].exists
        /\ at = "enable" => user[u].secret \in Authenticator(u)
    BY <1>2 DEF Begins, Asks
  <2>2. at = "secret" /\ u \in CarefulUsers => ~user[u].enabled
    BY <1>2, <2>1 DEF Begins, MayCall
  <2> QED BY <1>0, <1>2, <2>1, <2>2 DEF Begins, CallIs, SecretInv
<1>3. ASSUME NEW c \in Calls, Does(c) PROVE SecretInv'
  <2>1. /\ Advances(c) /\ call[c].u \in Users /\ UnderWay(c)
        /\ Visits(call[c].op, call[c].at)
    BY <1>3, DoesAdvance DEF Fit, CallsFit, Advances, UnderWay, Over
  <2>2. call'[c].at \notin {"secret", "enable"}
    BY <1>3, EntersBy
  <2>3. ASSUME NEW d \in Calls \ {c} PROVE call'[d] = call[d] /\ (call[d].at # "idle" => call[d].u \in Users)
    BY <2>1 DEF Advances, Fit, CallsFit
  <2>4. \A v \in Users : user[v].exists => user'[v].exists
    BY ProfileStep
  \* While the secret or the flag of a careful user changes, no other call is about to change them.
  <2>5. ASSUME NEW d \in Calls \ {c}, call[d].at \in {"secret", "enable"}, call[d].u \in CarefulUsers,
               call[c].at \in {"secret", "enable", "disable"}, call[c].u = call[d].u
        PROVE  FALSE
    <3>1. Visits(call[d].op, call[d].at) /\ UnderWay(d)
      BY <2>5 DEF Fit, CallsFit, UnderWay, Over
    <3>2. {call[c].op, call[d].op} \subseteq {"setup", "enable", "disable"}
      BY <2>1, <2>5, <3>1 DEF Visits
    <3> QED BY <2>1, <2>5, <3>1, <3>2 DEF ExclusiveInv, Exclusive
  <2>6. ASSUME NEW v \in Users
        PROVE  \/ user'[v].secret = user[v].secret /\ user'[v].enabled = user[v].enabled
               \/ /\ v = call[c].u /\ CreatesUser(c) /\ ~user[v].exists
                  /\ user'[v].secret = None /\ ~user'[v].enabled
               \/ /\ v = call[c].u /\ call[c].at \in {"secret", "enable", "disable"}
                  /\ \/ StoresSecret(c) /\ user'[v].enabled = user[v].enabled
                     \/ Enables(c) /\ user'[v].secret = user[v].secret
                     \/ user'[v].enabled = FALSE /\ Disables(c)
    <3>1. CreatesUser(c) => ~user[call[c].u].exists
      BY DEF CreatesUser, Me
    <3>2. StoresSecret(c) \/ Enables(c) \/ Disables(c) => call[c].at \in {"secret", "enable", "disable"}
      BY DEF StoresSecret, Enables, Disables, GoesOn, Goes
    <3>3. NewUser(c).secret = None /\ NewUser(c).enabled = FALSE
      BY DEF NewUser, FreshUser
    <3>4. CASE user'[v] = user[v]
      BY <3>4
    <3>5. CASE v = call[c].u /\ CreatesUser(c) /\ user'[v] = NewUser(c)
      BY <3>1, <3>3, <3>5
    <3>6. CASE v = call[c].u /\ Alters(c, v)
      BY <3>2, <3>6 DEF Alters
    <3> QED BY <1>3, <3>4, <3>5, <3>6, RowChanges
  <2>7. ASSUME NEW v \in Users, user'[v].secret # None PROVE user'[v].exists
    <3>1. CASE StoresSecret(c) /\ v = call[c].u
      BY <2>4, <2>7, <3>1 DEF SecretInv, StoresSecret, GoesOn, Goes
    <3>2. CASE Disables(c) /\ v = call[c].u
      <4>1. user'[v].secret = None
        <5>1. user'[v] = [[user[v] EXCEPT !.enabled = FALSE] EXCEPT !.secret = None] /\ user[v] \in UserRecord
          BY <3>2 DEF Disables, Sets, UserIs, Me, Fit, RowsFit
        <5> QED BY <5>1 DEF UserRecord
      <4> QED BY <2>7, <4>1
    <3> QED BY <2>4, <2>6, <2>7, <3>1, <3>2 DEF SecretInv
  <2>8. ASSUME NEW v \in CarefulUsers, user'[v].enabled PROVE user'[v].secret \in Authenticator(v)'
    <3>1. CASE StoresSecret(c) /\ v = call[c].u /\ user'[v].enabled = user[v].enabled
      BY <2>8, <3>1 DEF SecretInv, StoresSecret, GoesOn, Goes
    <3>2. CASE Enables(c) /\ v = call[c].u /\ user'[v].secret = user[v].secret
      BY <1>0, <2>8, <3>2 DEF SecretInv, Enables, GoesOn, Goes
    <3> QED BY <1>0, <1>a, <2>6, <2>8, <3>1, <3>2 DEF SecretInv
  <2>9. ASSUME NEW d \in Calls \ {c}, NEW v \in CarefulUsers, call[d].u = v
        PROVE  /\ call[d].at = "enable" => user'[v].secret \in Authenticator(v)'
               /\ call[d].at = "secret" => ~user'[v].enabled
    <3>1. v \in Users
      BY <1>a
    <3>2. /\ call[d].at = "enable" => user[v].secret \in Authenticator(v) /\ user[v].secret # None
          /\ call[d].at = "secret" => ~user[v].enabled
      BY <2>9, AccountAssumption DEF SecretInv, Authenticator
    <3>3. call[d].at \in {"enable", "secret"} => user[v].exists
      BY <2>9, <3>1, <3>2 DEF SecretInv
    <3>4. call[d].at \in {"enable", "secret"} =>
            user'[v].secret = user[v].secret /\ user'[v].enabled = user[v].enabled
      BY <2>5, <2>6, <2>9, <3>1, <3>3
    <3> QED BY <1>0, <3>2, <3>4
  <2> QED BY <2>1, <2>2, <2>3, <2>4, <2>7, <2>8, <2>9 DEF SecretInv, Advances
<1> QED BY <1>1, <1>2, <1>3, WhatHappens

\* A careful user can log in at any moment (auth/routes.ts:96-108): with a
\* password of theirs and, once 2FA is enabled, a code of a secret whose set-up
\* was answered - although no set-up, enabling or disabling is a transaction.
THEOREM CarefulIsNotLockedOut == AccountSpec => []NeverLockedOut
<1>1. AccountInit => PasswordInv /\ SecretInv
  BY AccountAssumption DEF AccountInit, IdleCall, FreshUser, PasswordInv, SecretInv
<1>2. AccountInv /\ ExclusiveInv /\ PasswordInv /\ SecretInv /\ [AccountNext]_accountVars
        => PasswordInv' /\ SecretInv'
  BY PasswordStep, SecretStep
<1>3. PasswordInv /\ SecretInv => NeverLockedOut
  <2> SUFFICES ASSUME PasswordInv, SecretInv, NEW u \in CarefulUsers, user[u].exists
               PROVE  CanLogIn(u)
    BY DEF NeverLockedOut
  <2>1. user[u].password \in {None} \cup {c \in Calls : call[c].u = u /\ call[c].op \in {"signup", "reset"}}
    BY AccountAssumption DEF PasswordInv, Chose
  <2>2. CASE ~user[u].enabled
    BY <2>1, <2>2 DEF CanLogIn, LoginAccepts
  <2>3. CASE user[u].enabled
    <3>1. user[u].secret \in Authenticator(u) /\ user[u].secret # None
      BY <2>3, AccountAssumption DEF SecretInv, Authenticator
    <3> QED BY <2>1, <2>3, <3>1 DEF CanLogIn, LoginAccepts, Passes2FA, verifyTotp
  <2> QED BY <2>2, <2>3
<1> QED BY <1>1, <1>2, <1>3, AccountInvariant, ExclusiveInvariant, PTL DEF AccountSpec

-----------------------------------------------------------------------------
(* An overlay token is generated once.                                     *)

\* A token is the call that generated it; the call has seen itself then.
Generated(s, u) == call[s].at # "idle" /\ call[s].u = u /\ call[s].seen = s
Won(s, u) == Generated(s, u) /\ call[s].op = "overlay"

\* Tokens are generated by their owner's calls, a profile that was given one
\* keeps one, and only one of them by GET.
LazyInv ==
  /\ \A u \in Users : user[u].overlay # None => \E s \in Calls : user[u].overlay = s /\ Generated(s, u)
  /\ \A s \in Calls, u \in Users : Won(s, u) => user[u].overlay # None
  /\ \A s, r \in Calls, u \in Users : Won(s, u) /\ Won(r, u) => s = r
  /\ \A c \in Calls : call[c].op = "overlay" /\ call[c].at # "idle" /\ call[c].seen # None =>
       \E s \in Calls : call[c].seen = s /\ Generated(s, call[c].u)
  /\ \A c \in Calls : call[c].op = "overlay" /\ call[c].at \in {"answer", "done"} => call[c].seen # None
  /\ \A c \in Calls : call[c].at \in {"overlay", "reread", "regenerate"} => call[c].seen = None
  /\ \A c \in Calls : call[c].at = "reread" => user[call[c].u].overlay # None

\* A token is generated for a profile without one, and there is always one afterwards.
LEMMA LazyStep ==
  ASSUME AccountInv, LazyInv, [AccountNext]_accountVars
  PROVE  LazyInv'
<1> USE DEF AccountInv
<1>0. None \notin Calls
  BY AccountAssumption
<1>1. CASE Expires
  BY <1>1 DEF Expires, LazyInv, Won, Generated
<1>2. ASSUME NEW c \in Calls, NEW op \in Ops, NEW u \in Users, NEW seen \in CallOrNone, NEW at \in Places,
             Begins(c, op, u, seen, at)
      PROVE  LazyInv'
  <2>1. /\ call[c].at = "idle" /\ call'[c] = [op |-> op, at |-> at, u |-> u, seen |-> seen]
        /\ \A d \in Calls \ {c} : call'[d] = call[d]
        /\ user' = user
    BY <1>2 DEF Begins, CallIs
  <2>2. /\ op = "overlay" => seen = user[u].overlay /\ (at = "answer" => seen # None) /\ at # "done"
        /\ at \in {"overlay", "regenerate"} => seen = None
        /\ at # "reread"
    BY <1>2 DEF Begins, Asks
  <2>3. ASSUME NEW s \in Calls, NEW v, Generated(s, v) PROVE s # c /\ Generated(s, v)'
    BY <2>1, <2>3 DEF Generated
  <2>4. ASSUME NEW s \in Calls, NEW v \in Users, Won(s, v)' PROVE Won(s, v)
    <3>1. s # c
      <4>1. s = c => op = "overlay" /\ user[u].overlay = c
        BY <2>1, <2>2, <2>4 DEF Won, Generated
      <4>2. user[u].overlay = c => \E r \in Calls : r = c /\ Generated(r, u)
        BY <1>0 DEF LazyInv
      <4> QED BY <2>3, <4>1, <4>2
    <3> QED BY <2>1, <2>4, <3>1 DEF Won, Generated
  <2>5. \A v \in Users : user'[v].overlay # None => \E s \in Calls : user'[v].overlay = s /\ Generated(s, v)'
    BY <2>1, <2>3 DEF LazyInv
  <2>6. /\ \A s \in Calls, v \in Users : Won(s, v)' => user'[v].overlay # None
        /\ \A s, r \in Calls, v \in Users : Won(s, v)' /\ Won(r, v)' => s = r
    BY <2>1, <2>4 DEF LazyInv
  <2>7. ASSUME NEW d \in Calls, NEW v, call'[d].op = "overlay", call'[d].at # "idle", call'[d].seen # None,
               v = call'[d].u
        PROVE  \E s \in Calls : call'[d].seen = s /\ Generated(s, v)'
    <3>1. \E s \in Calls : call'[d].seen = s /\ Generated(s, v)
      BY <2>1, <2>2, <2>7 DEF LazyInv
    <3> QED BY <2>3, <3>1
  <2>8. /\ \A d \in Calls : call'[d].op = "overlay" /\ call'[d].at \in {"answer", "done"} => call'[d].seen # None
        /\ \A d \in Calls : call'[d].at \in {"overlay", "reread", "regenerate"} => call'[d].seen = None
        /\ \A d \in Calls : call'[d].at = "reread" => user'[call'[d].u].overlay # None
    BY <2>1, <2>2 DEF LazyInv
  <2> QED BY <2>5, <2>6, <2>7, <2>8 DEF LazyInv, Generated
<1>3. ASSUME NEW c \in Calls, Does(c) PROVE LazyInv'
  <2>0. PICK v0 \in Users : v0 = call[c].u
    BY <1>3, DoesAdvance DEF Fit, CallsFit, Advances, UnderWay, Over
  <2>1. /\ Advances(c) /\ Visits(call[c].op, call[c].at) /\ UnderWay(c) /\ call[c].at # "idle"
    BY <1>3, DoesAdvance DEF Fit, CallsFit, Advances, UnderWay, Over
  <2>2. \A d \in Calls \ {c} : call'[d] = call[d] /\ (call[d].at # "idle" => call[d].u \in Users)
    BY <2>1 DEF Advances, Fit, CallsFit
  <2>3. call'[c].op = call[c].op /\ call'[c].u = call[c].u /\ call'[c].at # "idle"
    BY <2>1 DEF Advances, Visits
  \* What c now has seen.
  <2>4. \/ call'[c].seen = call[c].seen /\ ~WinsOverlay(c) /\ ~ReplacesOverlay(c)
        \/ (WinsOverlay(c) \/ ReplacesOverlay(c)) /\ call'[c].seen = c
        \/ ReadsOverlay(c) /\ call'[c].seen = user[call[c].u].overlay
    <3>1. ASSUME call[c].at \notin {"overlay", "reread", "regenerate"}
          PROVE  call'[c].seen = call[c].seen /\ ~WinsOverlay(c) /\ ~ReplacesOverlay(c)
      BY <2>1, <3>1 DEF Advances, WinsOverlay, ReplacesOverlay, Goes
    <3>2. ASSUME call[c].at \in {"overlay", "reread", "regenerate"}
          PROVE  WinsOverlay(c) \/ ReplacesOverlay(c) \/ ReadsOverlay(c) \/ MissesOverlay(c) \/ Ends(c)
      BY <1>3, <3>2 DEF Does, CreatesUser, IsRefused, CreatesProfile, InsertsRow, Mails, Verifies, DropsRow,
                        ChangesPassword, StoresSecret, Enables, Disables, MarksPending, Links, GoesOn, Goes
    <3>3. Ends(c) => call'[c].seen = call[c].seen /\ ~WinsOverlay(c) /\ ~ReplacesOverlay(c)
      BY DEF Ends, GoesOn, Goes, CallIs, WinsOverlay, ReplacesOverlay
    <3>4. MissesOverlay(c) => call'[c].seen = call[c].seen /\ ~WinsOverlay(c) /\ ~ReplacesOverlay(c)
      BY DEF MissesOverlay, GoesOn, Goes, CallIs, WinsOverlay, ReplacesOverlay
    <3>5. WinsOverlay(c) \/ ReplacesOverlay(c) => call'[c].seen = c
      BY DEF WinsOverlay, ReplacesOverlay, Goes, CallIs
    <3>6. ReadsOverlay(c) => call'[c].seen = user[call[c].u].overlay
      BY DEF ReadsOverlay, Goes, CallIs, Me
    <3> QED BY <3>1, <3>2, <3>3, <3>4, <3>5, <3>6
  <2>5. call[c].at \in {"overlay", "reread", "regenerate"} => call[c].seen = None
    BY DEF LazyInv
  <2>6. WinsOverlay(c) \/ ReplacesOverlay(c) \/ ReadsOverlay(c) =>
          call[c].at \in {"overlay", "reread", "regenerate"}
    BY DEF WinsOverlay, ReplacesOverlay, ReadsOverlay, Goes
  <2>7. ASSUME NEW s \in Calls, NEW v, Generated(s, v) PROVE Generated(s, v)'
    <3>1. s = c => call'[c].seen = c
      BY <1>0, <2>4, <2>5, <2>6, <2>7 DEF Generated
    <3> QED BY <2>2, <2>3, <2>7, <3>1 DEF Generated
  \* What becomes of a profile's token.
  <2>8. ASSUME NEW v \in Users
        PROVE  \/ user'[v].overlay = user[v].overlay
               \/ v = v0 /\ (WinsOverlay(c) \/ ReplacesOverlay(c)) /\ user'[v].overlay = c
    <3>1. CASE v = v0 /\ CreatesUser(c) /\ user'[v] = NewUser(c)
      <4>1. user[v].overlay = None
        BY <2>0, <3>1 DEF CreatesUser, Me, ProfileInv
      <4> QED BY <3>1, <4>1 DEF NewUser, FreshUser
    <3> QED BY <1>3, <2>0, <3>1, RowChanges DEF Alters
  <2>9. ASSUME WinsOverlay(c) \/ ReplacesOverlay(c)
        PROVE  user'[v0].overlay = c /\ Generated(c, v0)'
    <3>1. user'[v0] = [user[v0] EXCEPT !.overlay = c] /\ user[v0] \in UserRecord
      BY <2>0, <2>9 DEF WinsOverlay, ReplacesOverlay, Sets, UserIs, Me, Fit, RowsFit
    <3>2. user'[v0].overlay = c
      BY <3>1 DEF UserRecord
    <3>3. call'[c].seen = c
      BY <2>9 DEF WinsOverlay, ReplacesOverlay, Goes, CallIs
    <3> QED BY <2>0, <2>3, <3>2, <3>3 DEF Generated
  <2>10. ASSUME NEW v \in Users, user[v].overlay # None PROVE user'[v].overlay # None
    BY <1>0, <2>8, <2>10
  <2>11. ASSUME NEW v \in Users, user'[v].overlay # None
         PROVE  \E s \in Calls : user'[v].overlay = s /\ Generated(s, v)'
    <3>1. CASE user'[v].overlay = user[v].overlay
      <4>1. PICK s \in Calls : user[v].overlay = s /\ Generated(s, v)
        BY <2>11, <3>1 DEF LazyInv
      <4> QED BY <2>7, <3>1, <4>1
    <3>2. CASE v = v0 /\ (WinsOverlay(c) \/ ReplacesOverlay(c))
      BY <2>9, <3>2
    <3> QED BY <2>8, <3>1, <3>2
  <2>12. ASSUME NEW s \in Calls, NEW v \in Users, Won(s, v)'
         PROVE  Won(s, v) \/ (s = c /\ v = v0 /\ WinsOverlay(c))
    <3>1. CASE s # c
      BY <2>2, <2>12, <3>1 DEF Won, Generated
    <3>2. CASE s = c
      <4>1. v = v0 /\ call[c].op = "overlay" /\ call'[c].seen = c
        BY <2>0, <2>3, <2>12, <3>2 DEF Won, Generated
      <4>2. CASE call'[c].seen = call[c].seen
        BY <2>0, <2>1, <3>2, <4>1, <4>2 DEF Won, Generated
      <4>3. ~ReplacesOverlay(c)
        BY <2>1, <4>1 DEF ReplacesOverlay, Goes, Visits
      <4>4. CASE ReadsOverlay(c) /\ user[v0].overlay = c
        <5>1. PICK r \in Calls : r = c /\ Generated(r, v0)
          BY <1>0, <4>4 DEF LazyInv
        <5> QED BY <3>2, <4>1, <5>1 DEF Won
      <4> QED BY <2>0, <2>4, <3>2, <4>1, <4>2, <4>3, <4>4
    <3> QED BY <3>1, <3>2
  <2>13. ASSUME NEW s \in Calls, NEW v \in Users, Won(s, v)' PROVE user'[v].overlay # None
    <3>1. Won(s, v) => user[v].overlay # None
      BY DEF LazyInv
    <3> QED BY <1>0, <2>9, <2>10, <2>12, <2>13, <3>1
  <2>14. ASSUME NEW s \in Calls, NEW r \in Calls, NEW v \in Users, Won(s, v)', Won(r, v)' PROVE s = r
    <3>1. WinsOverlay(c) => user[v0].overlay = None
      BY <2>0 DEF WinsOverlay, Me
    <3>2. WinsOverlay(c) => ~Won(s, v0) /\ ~Won(r, v0)
      BY <3>1 DEF LazyInv
    <3>3. Won(s, v) /\ Won(r, v) => s = r
      BY DEF LazyInv
    <3> QED BY <2>12, <2>14, <3>2, <3>3
  <2>15. ASSUME NEW d \in Calls, NEW v, v = call'[d].u,
                call'[d].op = "overlay", call'[d].at # "idle", call'[d].seen # None
         PROVE  \E s \in Calls : call'[d].seen = s /\ Generated(s, v)'
    <3>1. CASE call'[d].seen = call[d].seen
      <4>1. call[d].op = "overlay" /\ call[d].at # "idle" /\ v = call[d].u
        BY <2>1, <2>2, <2>3, <2>15
      <4>2. PICK s \in Calls : call[d].seen = s /\ Generated(s, v)
        BY <2>15, <3>1, <4>1 DEF LazyInv
      <4> QED BY <2>7, <3>1, <4>2
    <3>2. CASE d = c /\ (WinsOverlay(c) \/ ReplacesOverlay(c)) /\ call'[c].seen = c
      BY <2>0, <2>3, <2>9, <2>15, <3>2
    <3>3. CASE d = c /\ ReadsOverlay(c) /\ call'[c].seen = user[v0].overlay
      <4>1. PICK s \in Calls : user[v0].overlay = s /\ Generated(s, v0)
        BY <2>15, <3>3 DEF LazyInv
      <4> QED BY <2>0, <2>3, <2>7, <2>15, <3>3, <4>1
    <3> QED BY <2>0, <2>2, <2>4, <3>1, <3>2, <3>3
  <2>16. ASSUME NEW d \in Calls, call'[d].op = "overlay", call'[d].at \in {"answer", "done"}
         PROVE  call'[d].seen # None
    <3>1. CASE d # c
      BY <2>2, <2>16, <3>1 DEF LazyInv
    <3>2. CASE d = c /\ call'[c].at = "done"
      <4>1. call[c].at = "answer" /\ call'[c].seen = call[c].seen
        BY <2>1, <3>2 DEF Advances
      <4> QED BY <2>3, <2>16, <3>2, <4>1 DEF LazyInv
    <3>3. CASE d = c /\ call'[c].at = "answer"
      <4>1. call[c].at \in {"overlay", "reread"}
        BY <2>1, <2>3, <2>16, <3>3 DEF Advances, Visits, UnderWay, Over
      <4>2. WinsOverlay(c) \/ ReadsOverlay(c)
        BY <1>3, <3>3, <4>1, EntersBy
      <4>3. ReadsOverlay(c) => user[v0].overlay # None /\ call'[c].seen = user[v0].overlay
        BY <2>0 DEF ReadsOverlay, Goes, CallIs, Me, LazyInv
      <4>4. WinsOverlay(c) => call'[c].seen = c
        BY DEF WinsOverlay, Goes, CallIs
      <4> QED BY <1>0, <3>3, <4>2, <4>3, <4>4
    <3> QED BY <2>16, <3>1, <3>2, <3>3
  <2>17. /\ call'[c].at \in {"overlay", "reread", "regenerate"} => MissesOverlay(c)
         /\ MissesOverlay(c) => user[v0].overlay # None /\ call'[c].seen = call[c].seen /\ call[c].at = "overlay"
    <3>1. call'[c].at \in {"overlay", "reread", "regenerate"} => MissesOverlay(c)
      BY <1>3, EntersBy
    <3> QED BY <2>0, <3>1 DEF MissesOverlay, GoesOn, Goes, CallIs, Me
  <2>18. ASSUME NEW d \in Calls, call'[d].at \in {"overlay", "reread", "regenerate"} PROVE call'[d].seen = None
    BY <2>2, <2>17, <2>18 DEF LazyInv
  <2>19. ASSUME NEW d \in Calls, call'[d].at = "reread" PROVE user'[call'[d].u].overlay # None
    <3>1. CASE d = c
      BY <2>0, <2>3, <2>10, <2>17, <2>19, <3>1
    <3>2. CASE d # c
      BY <2>2, <2>10, <2>19, <3>2 DEF LazyInv
    <3> QED BY <3>1, <3>2
  <2> QED BY <2>11, <2>13, <2>14, <2>15, <2>16, <2>18, <2>19 DEF LazyInv
<1> QED BY <1>1, <1>2, <1>3, WhatHappens

\* "two concurrent requests for the same creator can't each generate a different
\* token" (creators.ts:98-100): the update that stores a generated token asks
\* for overlay_token is null, and nothing makes it null again.
THEOREM OneTokenIsGenerated == AccountSpec => []OneLazyToken
<1>1. AccountInit => LazyInv
  BY DEF AccountInit, IdleCall, FreshUser, LazyInv, Won, Generated
<1>2. AccountInv /\ LazyInv /\ [AccountNext]_accountVars => LazyInv'
  BY LazyStep
<1>3. AccountInv /\ LazyInv => OneLazyToken
  <2> SUFFICES ASSUME AccountInv, LazyInv, NEW c \in Calls, NEW d \in Calls,
                      Done(c, "overlay"), Done(d, "overlay"), call[c].u = call[d].u,
                      call[call[c].seen].op = "overlay", call[call[d].seen].op = "overlay"
               PROVE  call[c].seen = call[d].seen
    BY DEF OneLazyToken
  <2>1. PICK s \in Calls : call[c].seen = s /\ Generated(s, call[c].u)
    BY DEF Done, LazyInv
  <2>2. PICK r \in Calls : call[d].seen = r /\ Generated(r, call[d].u)
    BY DEF Done, LazyInv
  <2>3. call[c].u \in Users
    BY DEF Done, AccountInv, Fit, CallsFit
  <2> QED BY <2>1, <2>2, <2>3 DEF LazyInv, Won
<1> QED BY <1>1, <1>2, <1>3, AccountInvariant, PTL DEF AccountSpec

-----------------------------------------------------------------------------
(* A reset token is spent once.                                            *)

\* A reset is for the user its token was mailed to; once it is answered the
\* token's row is gone, and of a careful user's resets none is still to come
\* that had selected that row before.
SpentInv ==
  /\ \A c \in Calls : call[c].op = "reset" /\ call[c].at # "idle" =>
       call[c].seen \in mailed /\ call[c].u = call[call[c].seen].u
  /\ \A c \in Calls : call[c].op = "reset" /\ call[c].at \in {"answer", "done"} =>
       <<"reset", call[c].seen>> \notin rows
  /\ \A c, d \in Calls : At(c, "password") /\ call[c].u \in CarefulUsers /\ Done(d, "reset") =>
       call[c].seen # call[d].seen

\* A token's row is gone before its reset is answered, and is not inserted again.
LEMMA SpentStep ==
  ASSUME AccountInv, ExclusiveInv, SpentInv, [AccountNext]_accountVars
  PROVE  SpentInv'
<1> USE DEF AccountInv
<1>0. \A c \in Calls : call[c].at # "idle" => Visits(call[c].op, call[c].at)
  BY DEF Fit, CallsFit
<1>1. CASE Expires
  BY <1>1 DEF Expires, SpentInv, At, Done
<1>2. ASSUME NEW c \in Calls, NEW op \in Ops, NEW u \in Users, NEW seen \in CallOrNone, NEW at \in Places,
             Begins(c, op, u, seen, at)
      PROVE  SpentInv'
  <2>1. /\ call'[c] = [op |-> op, at |-> at, u |-> u, seen |-> seen]
        /\ \A d \in Calls \ {c} : call'[d] = call[d]
        /\ rows' = rows /\ mailed' = mailed
    BY <1>2 DEF Begins, CallIs
  <2>2. /\ op = "reset" => seen \in mailed /\ u = call[seen].u /\ at \notin {"answer", "done"}
        /\ op = "reset" /\ at = "password" => <<"reset", seen>> \in rows
        /\ at = "password" => op = "reset"
        /\ at # "done"
    BY <1>2 DEF Begins, Asks
  <2>3. c \notin mailed /\ mailed \subseteq Calls
    BY <1>2, BeginsFit DEF Fit, RowsFit
  <2>4. ASSUME NEW d \in Calls, call'[d].op = "reset", call'[d].at # "idle"
        PROVE  call'[d].seen \in mailed' /\ call'[d].u = call'[call'[d].seen].u
    BY <2>1, <2>2, <2>3, <2>4 DEF SpentInv
  <2>5. ASSUME NEW d \in Calls, call'[d].op = "reset", call'[d].at \in {"answer", "done"}
        PROVE  <<"reset", call'[d].seen>> \notin rows'
    BY <2>1, <2>2, <2>5 DEF SpentInv
  <2>6. ASSUME NEW d \in Calls, NEW e \in Calls, call'[d].at = "password", call'[d].u \in CarefulUsers,
               call'[e].op = "reset", call'[e].at = "done"
        PROVE  call'[d].seen # call'[e].seen
    BY <2>1, <2>2, <2>6 DEF SpentInv, At, Done
  <2> QED BY <2>4, <2>5, <2>6 DEF SpentInv, At, Done
<1>3. ASSUME NEW c \in Calls, Does(c) PROVE SpentInv'
  <2>1. Advances(c) /\ UnderWay(c) /\ call[c].at # "idle" /\ Visits(call[c].op, call[c].at)
    BY <1>3, DoesAdvance DEF Fit, CallsFit, Advances, UnderWay, Over
  <2>2. /\ \A d \in Calls \ {c} : call'[d] = call[d]
        /\ \A d \in Calls : call'[d].op = call[d].op /\ call'[d].u = call[d].u
        /\ \A d \in Calls : call[d].op = "reset" /\ call[d].at # "idle" => call'[d].seen = call[d].seen
        /\ \A d \in Calls : call'[d].at # "idle" => call[d].at # "idle"
    BY <2>1 DEF Advances, Visits
  <2>3. mailed \subseteq Calls /\ mailed \subseteq mailed'
    <3>1. mailed' = mailed \/ mailed' = mailed \cup {c}
      BY <1>3 DEF Does, CreatesUser, IsRefused, CreatesProfile, InsertsRow, Mails, Verifies, DropsRow,
                  ChangesPassword, StoresSecret, Enables, Disables, WinsOverlay, MissesOverlay, ReadsOverlay,
                  ReplacesOverlay, MarksPending, Links, Ends, Sets, RowsRest
    <3> QED BY <3>1 DEF Fit, RowsFit
  <2>4. ASSUME NEW t, <<"reset", t>> \in rows', <<"reset", t>> \notin rows PROVE t \notin mailed
    <3>1. InsertsRow(c)
      BY <1>3, <2>4 DEF Does, CreatesUser, IsRefused, CreatesProfile, Mails, Verifies, DropsRow,
                        ChangesPassword, StoresSecret, Enables, Disables, WinsOverlay, MissesOverlay,
                        ReadsOverlay, ReplacesOverlay, MarksPending, Links, Ends, Sets, RowsRest
    <3>2. t = c /\ call[c].at = "reset"
      BY <2>4, <3>1 DEF InsertsRow, GoesOn, Goes
    <3> QED BY <3>2 DEF Fit, RowsFit
  <2>5. ASSUME NEW d \in Calls, call'[d].op = "reset", call'[d].at # "idle"
        PROVE  call'[d].seen \in mailed' /\ call'[d].u = call'[call'[d].seen].u
    BY <2>2, <2>3, <2>5 DEF SpentInv
  <2>6. ASSUME NEW d \in Calls, call'[d].op = "reset", call'[d].at \in {"answer", "done"}
        PROVE  <<"reset", call'[d].seen>> \notin rows'
    <3>1. call[d].op = "reset" /\ call'[d].seen = call[d].seen /\ call[d].seen \in mailed
      BY <2>2, <2>6 DEF SpentInv
    <3>2. CASE call[d].at \in {"answer", "done"}
      BY <2>4, <3>1, <3>2 DEF SpentInv
    <3>3. CASE call[d].at \notin {"answer", "done"}
      <4>1. d = c /\ call'[c].at = "answer" /\ call[c].at = "dropReset"
        BY <2>1, <2>2, <2>6, <3>1, <3>3 DEF Advances, Visits, UnderWay, Over
      <4>2. rows' = rows \ {<<"reset", call[c].seen>>}
        BY <1>3, <4>1, EntersBy
      <4> QED BY <3>1, <4>1, <4>2
    <3> QED BY <3>2, <3>3
  <2>7. ASSUME NEW d \in Calls, NEW e \in Calls, call'[d].at = "password", call'[d].u \in CarefulUsers,
               call'[e].op = "reset", call'[e].at = "done"
        PROVE  call'[d].seen # call'[e].seen
    <3>1. d # c /\ call'[d] = call[d]
      BY <1>3, <2>2, <2>7, EntersBy
    <3>2. call[d].op = "reset"
      BY <1>0, <2>7, <3>1 DEF Visits
    <3>3. call[e].op = "reset" /\ call'[e].seen = call[e].seen
      BY <2>2, <2>7
    <3>4. CASE call[e].at = "done"
      BY <2>7, <3>1, <3>3, <3>4 DEF SpentInv, At, Done
    <3>5. CASE call[e].at # "done"
      <4>1. UnderWay(e) /\ UnderWay(d)
        BY <2>1, <2>2, <2>7, <3>1, <3>5 DEF UnderWay, Over
      <4>2. call[e].u # call[d].u
        <5>1. d # e
          BY <2>7
        <5> QED BY <2>7, <3>1, <3>2, <3>3, <4>1, <5>1 DEF ExclusiveInv, Exclusive
      <4>3. call[e].u = call[call[e].seen].u /\ call[d].u = call[call[d].seen].u
        BY <3>2, <3>3, <4>1 DEF SpentInv, UnderWay, Over
      <4> QED BY <3>1, <3>3, <4>2, <4>3
    <3> QED BY <3>4, <3>5
  <2> QED BY <2>5, <2>6, <2>7 DEF SpentInv, At, Done
<1> QED BY <1>1, <1>2, <1>3, WhatHappens

\* A reset token whose use was answered never sets the password again
\* (auth/routes.ts:191-203), for users who use one at a time: the row is
\* deleted before the answer, although after the password.
THEOREM SpentIsSpent == AccountSpec => SpentStaysSpent
<1>1. AccountInit => SpentInv
  BY DEF AccountInit, IdleCall, SpentInv, At, Done
<1>2. AccountInv /\ ExclusiveInv /\ SpentInv /\ [AccountNext]_accountVars => SpentInv'
  BY SpentStep
<1>3. SpentInv => SpentStaysSpentFor(CarefulUsers)
  BY DEF SpentInv, SpentStaysSpentFor
<1>4. SpentInv /\ [AccountNext]_accountVars => [SpentStaysSpentFor(CarefulUsers)]_accountVars
  BY <1>3
<1> QED BY <1>1, <1>2, <1>4, AccountInvariant, ExclusiveInvariant, PTL DEF AccountSpec, SpentStaysSpent
=============================================================================
