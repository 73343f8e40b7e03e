-------------------------------- MODULE Sessions --------------------------------
(****************************************************************************)
(* Refresh tokens (src/auth/jwt.ts and the login, refresh and logout routes *)
(* of src/auth/routes.ts).  A login starts a family of tokens; a refresh    *)
(* exchanges the family's live token for a new one; a token that is         *)
(* presented and not live makes the server revoke the whole family.         *)
(*                                                                          *)
(* A step is one statement: no transaction holds the steps of a refresh     *)
(* together.  The tokens of a family are numbered in the order of their     *)
(* insertion.                                                               *)
(****************************************************************************)
EXTENDS Integers, FiniteSets

CONSTANTS
  Families,   \* logins
  Careful,    \* families of a client that awaits every answer and presents the last token it got
  Requests,   \* calls of POST /refresh
  FamilyOf,   \* the family whose token a request presents
  MaxTokens,  \* bound: tokens of a family
  Faults      \* what may go wrong

FaultKinds ==
  { "dies",     \* the handler ends before it has inserted the new token
    "half",     \* ... between the insert and the revocation of the old one
    "lost" }    \* the answer does not reach the client

ASSUME SessionAssumption ==
  /\ Careful \subseteq Families
  /\ FamilyOf \in [Requests -> Families]
  /\ MaxTokens \in Nat \ {0}
  /\ Faults \subseteq FaultKinds

VARIABLES
  issued,     \* how many tokens of each family have been inserted
  live,       \* those with revoked_at IS NULL
  expired,    \* those whose expires_at has passed
  request,    \* what each refresh is about to do, the token presented and the new one
  known,      \* the tokens the client has received
  presented,  \* how often each token has been presented
  ended,      \* whether the family was revoked as a whole: by a logout or for reuse
  unlucky     \* per family: answers lost, and refreshes that ended half-way

tokens == <<issued, live, expired>>
vars == <<issued, live, expired, request, known, presented, ended, unlucky>>

Token == 1..MaxTokens
Idle == [at |-> "idle", old |-> 0, new |-> 0]

Init ==
  /\ issued    = [f \in Families |-> 0]
  /\ live      = [f \in Families |-> {}]
  /\ expired   = [f \in Families |-> {}]
  /\ request   = [q \in Requests |-> Idle]
  /\ known     = [f \in Families |-> {}]
  /\ presented = [f \in Families |-> [t \in Token |-> 0]]
  /\ ended     = [f \in Families |-> "no"]
  /\ unlucky   = [f \in Families |-> [lost |-> 0, half |-> 0]]

-----------------------------------------------------------------------------
InFlight(q) == request[q].at \notin {"idle", "done"}
Quiet(f) == \A q \in Requests : FamilyOf[q] = f => ~InFlight(q)
Latest(f) == CHOOSE t \in known[f] : \A u \in known[f] : u <= t

\* What the client of a family can send.
Sends(f, t) ==
  /\ t \in known[f]
  /\ f \in Careful => Quiet(f) /\ t = Latest(f)

SetRequest(q, at, old, new) == request' = [request EXCEPT ![q] = [at |-> at, old |-> old, new |-> new]]

\* issueRefreshTokenFamily.
Login(f) ==
  /\ issued[f] = 0
  /\ issued' = [issued EXCEPT ![f] = 1]
  /\ live'   = [live EXCEPT ![f] = {1}]
  /\ known'  = [known EXCEPT ![f] = {1}]
  /\ UNCHANGED <<expired, request, presented, ended, unlucky>>

\* expires_at passes; of a revoked token nobody asks.
TokenExpires(f, t) ==
  /\ t \in live[f] \ expired[f]
  /\ expired' = [expired EXCEPT ![f] = @ \cup {t}]
  /\ UNCHANGED <<issued, live, request, known, presented, ended, unlucky>>

\* The select of rotateRefreshToken decides what the refresh goes on to do.
NextStep(f, t) ==
  IF t \notin live[f] THEN "revokeFamily"
  ELSE IF t \in expired[f] THEN "done"          \* refresh_token_expired
  ELSE "insert"

Present(q, t) ==
  LET f == FamilyOf[q] IN
  /\ request[q].at = "idle"
  /\ Sends(f, t)
  /\ presented' = [presented EXCEPT ![f][t] = @ + 1]
  /\ SetRequest(q, NextStep(f, t), t, 0)
  /\ UNCHANGED <<tokens, known, ended, unlucky>>

\* rotateOrCreateRefreshToken.
InsertNext(q) ==
  LET f == FamilyOf[q]
      t == issued[f] + 1
  IN
  /\ request[q].at = "insert"
  /\ t \in Token
  /\ issued' = [issued EXCEPT ![f] = t]
  /\ live'   = [live EXCEPT ![f] = @ \cup {t}]
  /\ SetRequest(q, "revoke", request[q].old, t)
  /\ UNCHANGED <<expired, known, presented, ended, unlucky>>

\* The row the select found is revoked, and the new token sent.
RevokedNew(q) == request[q].new                                    \* mutant
RevokedNone(q) == 0                                                \* mutant
Revoked(q) == request[q].old

RevokeOld(q) ==
  LET f == FamilyOf[q] IN
  /\ request[q].at = "revoke"
  /\ live' = [live EXCEPT ![f] = @ \ {Revoked(q)}]
  /\ SetRequest(q, "answer", request[q].old, request[q].new)
  /\ UNCHANGED <<issued, expired, known, presented, ended, unlucky>>

Answer(q) ==
  LET f == FamilyOf[q] IN
  /\ request[q].at = "answer"
  /\ known' = [known EXCEPT ![f] = @ \cup {request[q].new}]
  /\ SetRequest(q, "done", 0, 0)
  /\ UNCHANGED <<tokens, presented, ended, unlucky>>

\* refresh_token_reuse_detected: every row of the family is revoked.
RevokeFamily(q) ==
  LET f == FamilyOf[q] IN
  /\ request[q].at = "revokeFamily"
  /\ live'  = [live EXCEPT ![f] = {}]
  /\ ended' = [ended EXCEPT ![f] = IF @ = "no" THEN "reuse" ELSE @]
  /\ SetRequest(q, "done", 0, 0)
  /\ UNCHANGED <<issued, expired, known, presented, unlucky>>

LogoutLeavesOthers(f, t) ==                                        \* mutant
  /\ Sends(f, t)
  /\ live'  = [live EXCEPT ![f] = @ \ {t}]
  /\ ended' = [ended EXCEPT ![f] = "logout"]
  /\ UNCHANGED <<issued, expired, request, known, presented, unlucky>>

\* revokeRefreshToken, for whatever token of the family the client sends.
Logout(f, t) ==
  /\ Sends(f, t)
  /\ live'  = [live EXCEPT ![f] = {}]
  /\ ended' = [ended EXCEPT ![f] = "logout"]
  /\ UNCHANGED <<issued, expired, request, known, presented, unlucky>>

-----------------------------------------------------------------------------
\* A handler that ends early: the client gets an error, or nothing.
Dies(q) ==
  /\ "dies" \in Faults
  /\ request[q].at = "insert"
  /\ SetRequest(q, "done", 0, 0)
  /\ UNCHANGED <<tokens, known, presented, ended, unlucky>>

DiesHalfWay(q) ==
  /\ "half" \in Faults
  /\ request[q].at = "revoke"
  /\ unlucky' = [unlucky EXCEPT ![FamilyOf[q]].half = @ + 1]
  /\ SetRequest(q, "done", 0, 0)
  /\ UNCHANGED <<tokens, known, presented, ended>>

AnswerLost(q) ==
  /\ "lost" \in Faults
  /\ request[q].at = "answer"
  /\ unlucky' = [unlucky EXCEPT ![FamilyOf[q]].lost = @ + 1]
  /\ SetRequest(q, "done", 0, 0)
  /\ UNCHANGED <<tokens, known, presented, ended>>

RequestStep(q) ==
  \/ \E t \in Token : Present(q, t)
  \/ InsertNext(q) \/ RevokeOld(q) \/ Answer(q) \/ RevokeFamily(q)
  \/ Dies(q) \/ DiesHalfWay(q) \/ AnswerLost(q)

Next ==
  \/ \E f \in Families : Login(f) \/ \E t \in Token : TokenExpires(f, t) \/ Logout(f, t)
  \/ \E q \in Requests : RequestStep(q)

Spec == Init /\ [][Next]_vars

-----------------------------------------------------------------------------
(* What clients and the server rely on.                                    *)

\* Every variable keeps its type; the tokens that are live or known to a
\* client are rows of the table.
TypeOK ==
  /\ issued \in [Families -> 0..MaxTokens]
  /\ live \in [Families -> SUBSET Token]
  /\ expired \in [Families -> SUBSET Token]
  /\ known \in [Families -> SUBSET Token]
  /\ \A f \in Families :
       /\ live[f] \subseteq 1..issued[f]
       /\ expired[f] \subseteq 1..issued[f]
       /\ known[f] \subseteq 1..issued[f]
  /\ request \in [Requests -> [at : {"idle", "insert", "revoke", "answer", "revokeFamily", "done"},
                               old : 0..MaxTokens, new : 0..MaxTokens]]
  /\ presented \in [Families -> [Token -> Nat]]
  /\ ended \in [Families -> {"no", "logout", "reuse"}]
  /\ unlucky \in [Families -> [lost : Nat, half : Nat]]

\* "the CURRENT (un-revoked) token for its family" (jwt.ts:70): the family of a
\* client that awaits its answers has one live token, apart from those a refresh
\* has inserted on its way, or left behind when it ended half-way.
OneCurrentToken ==
  \A f \in Careful :
    Cardinality(live[f]) <= 1 + unlucky[f].half
                              + Cardinality({q \in Requests : FamilyOf[q] = f /\ request[q].at = "revoke"})

\* Such a client stays signed in: as long as it has not logged out and no
\* answer was lost, the last token it received is live.
CarefulStaysSignedIn ==
  \A f \in Careful :
    Quiet(f) /\ issued[f] > 0 /\ ended[f] # "logout" /\ unlucky[f].lost = 0 => Latest(f) \in live[f]

\* Reuse is only detected (jwt.ts:88-97) when there was some: a token of
\* the family was presented twice, or the client had logged out.  This holds
\* for every client, whatever its requests race with.
ReuseWasReuse ==
  \A f \in Families : ended[f] = "reuse" => \E t \in Token : presented[f][t] > 1

\* "the entire family is revoked" (jwt.ts:70-72), for ever: once a careful
\* client's family has ended no token of it is live again.
EndedStaysEnded == \A f \in Careful : ended[f] # "no" => live[f] = {}

\* The same for every client: violated when a refresh that has read the rows
\* inserts its token after the family was revoked.
EveryEndedStaysEnded == \A f \in Families : ended[f] # "no" => live[f] = {}
=============================================================================
