-------------------------- MODULE IdempotencyProofs --------------------------
(***************************************************************************)
(* Theorems of Idempotency and of Checkout, for any number of requests and *)
(* keys: handlers under one key exclude each other as long as no handler   *)
(* outlives its lock, and a client that waits for its answers is not       *)
(* served twice by one API node: it pays for a second topup, or is debited *)
(* for a second cashout, only if one of the requests was cut short or      *)
(* another node served it.  Checkout implements Idempotency, Topups and    *)
(* Cashouts, so that what is proved of them holds of it.                   *)
(***************************************************************************)
EXTENDS Checkout, TLAPS

Places == {"idle", "lock", "run", "store", "unlock", "done", "dead"}

\* The lock, anonymous as it is, belongs to one request: whoever got it and
\* has not freed it yet holds it alone, and while it does the lock exists.
Holds(r) == at[r] \in {"run", "store", "unlock"}

LockInv ==
  /\ TypeOK
  /\ \A r \in Requests : Holds(r) => lock[KeyOf[r]]
  /\ \A r, q \in Requests : Holds(r) /\ Holds(q) /\ KeyOf[r] = KeyOf[q] => r = q

\* Under a careful key at most one request is unanswered.  Whoever is has seen
\* the cache after every command its node had sent, and no command of its node
\* has come between since.
CarefulInv ==
  /\ TypeOK
  /\ \A r, q \in Requests :
       KeyOf[r] \in Careful /\ KeyOf[q] = KeyOf[r] /\ Unanswered(r) /\ Unanswered(q) => r = q
  /\ \A r, q \in Requests :
       KeyOf[r] \in Careful /\ KeyOf[q] = KeyOf[r] /\ Unanswered(r) /\ OnOneNode(r, q)
         => at[q] \notin {"store", "unlock"}
  /\ \A r \in Requests :
       KeyOf[r] \in Careful /\ Unanswered(r) => Uncached(r) \/ ~OnOneNode(cache[KeyOf[r]], r)

\* The initial state has the declared types.
LEMMA TypeInitial == Init => TypeOK
BY IdempotencyAssumption DEF Init, TypeOK

\* Every step of the middleware keeps the types.
LEMMA TypeStep ==
  ASSUME TypeOK, [Next]_vars
  PROVE  TypeOK'
<1> USE IdempotencyAssumption DEF TypeOK
<1>1. CASE UNCHANGED vars
  BY <1>1 DEF vars
<1>2. ASSUME NEW r \in Requests, Look(r) PROVE TypeOK'
  BY <1>2 DEF Look, Goto
<1>3. ASSUME NEW r \in Requests, TryLock(r) PROVE TypeOK'
  BY <1>3 DEF TryLock, Goto, SetLock
<1>4. ASSUME NEW r \in Requests, RunHandler(r) PROVE TypeOK'
  BY <1>4 DEF RunHandler, Goto
<1>5. ASSUME NEW r \in Requests, StoreResponse(r) PROVE TypeOK'
  BY <1>5 DEF StoreResponse, Goto, payload
<1>6. ASSUME NEW r \in Requests, DeleteLock(r) PROVE TypeOK'
  BY <1>6 DEF DeleteLock, Goto, SetLock
<1>7. ASSUME NEW r \in Requests, CheckFails(r) PROVE TypeOK'
  BY <1>7 DEF CheckFails, Goto, SetLock
<1>8. ASSUME NEW r \in Requests, CrashRequest(r) PROVE TypeOK'
  BY <1>8 DEF CrashRequest, Goto
<1>9. ASSUME NEW k \in Keys, ExpireLock(k) PROVE TypeOK'
  BY <1>9 DEF ExpireLock, SetLock
<1> QED
  BY <1>1, <1>2, <1>3, <1>4, <1>5, <1>6, <1>7, <1>8, <1>9 DEF Next, RequestStep, Handle

\* Cache, locks and requests keep their types.
THEOREM TypeCorrect == Spec => []TypeOK
BY TypeInitial, TypeStep, PTL DEF Spec

\* At first no lock is held.
LEMMA LockInitial == Init => LockInv
BY TypeInitial DEF Init, LockInv, Holds

\* A lock is only taken when it is free, and only its request gets on.
LEMMA LockStep ==
  ASSUME LockInv, [Next]_vars, "slow" \notin Faults
  PROVE  LockInv'
<1> USE IdempotencyAssumption DEF LockInv, TypeOK, Holds
<1>1. TypeOK'
  BY TypeStep
<1>2. CASE UNCHANGED vars
  BY <1>2 DEF vars
<1>3. ASSUME NEW r \in Requests, NEW place \in Places \ {"run", "store", "unlock"},
             Goto(r, place), UNCHANGED lock
      PROVE  LockInv'
  BY <1>1, <1>3 DEF Goto, Places
<1>4. ASSUME NEW r \in Requests, Look(r) \/ CrashRequest(r) PROVE LockInv'
  BY <1>3, <1>4 DEF Look, CrashRequest, Places
<1>5. ASSUME NEW r \in Requests, TryLock(r) PROVE LockInv'
  <2>1. CASE Unlocked(r) /\ SetLock(KeyOf[r], TRUE) /\ Goto(r, "run")
    BY <1>1, <2>1 DEF Unlocked, SetLock, Goto
  <2>2. CASE Goto(r, "done") /\ UNCHANGED lock
    BY <1>3, <2>2 DEF Places
  <2> QED
    BY <1>5, <2>1, <2>2 DEF TryLock
<1>6. ASSUME NEW r \in Requests, RunHandler(r) \/ StoreResponse(r) PROVE LockInv'
  BY <1>1, <1>6 DEF RunHandler, StoreResponse, Goto
<1>7. ASSUME NEW r \in Requests, DeleteLock(r) PROVE LockInv'
  <2>1. CASE SetLock(KeyOf[r], FALSE)
    BY <1>1, <1>7, <2>1 DEF DeleteLock, SetLock, Goto
  <2>2. CASE UNCHANGED lock
    BY <1>3, <1>7, <2>2 DEF DeleteLock, Places
  <2> QED
    BY <1>7, <2>1, <2>2 DEF DeleteLock
<1>8. ASSUME NEW r \in Requests, CheckFails(r) PROVE LockInv'
  <2>1. CASE SetLock(KeyOf[r], TRUE)
    BY <1>1, <1>8, <2>1 DEF CheckFails, SetLock, Goto
  <2>2. CASE UNCHANGED lock
    BY <1>3, <1>8, <2>2 DEF CheckFails, Places
  <2> QED
    BY <1>8, <2>1, <2>2 DEF CheckFails
<1>9. ASSUME NEW k \in Keys, ExpireLock(k) PROVE LockInv'
  BY <1>1, <1>9 DEF ExpireLock, SetLock
<1> QED
  BY <1>2, <1>4, <1>5, <1>6, <1>7, <1>8, <1>9 DEF Next, RequestStep, Handle

\* Handlers under one key exclude each other, unless one outlives its lock.
THEOREM HandlersExcludeEachOther ==
  ASSUME "slow" \notin Faults
  PROVE  Spec => []HandlersNeverOverlap
<1>1. LockInv /\ [Next]_vars => LockInv'
  BY LockStep
<1>2. LockInv => HandlersNeverOverlap
  BY DEF LockInv, Holds, HandlersNeverOverlap
<1> QED
  BY <1>1, <1>2, LockInitial, PTL DEF Spec

\* At first no handler of a careful key runs.
LEMMA CarefulInitial == Init => CarefulInv
BY TypeInitial DEF Init, CarefulInv, Unanswered

\* No two handlers of a careful key come to run at once, and on one node none
\* comes to run over a cached response.
LEMMA CarefulStep ==
  ASSUME CarefulInv, [Next]_vars
  PROVE  CarefulInv'
<1> USE IdempotencyAssumption DEF CarefulInv, TypeOK, Unanswered, OnOneNode, Uncached
<1>1. TypeOK'
  BY TypeStep
<1>2. CASE UNCHANGED vars
  BY <1>2 DEF vars
<1>3. ASSUME NEW r \in Requests, NEW place \in Places \ {"lock", "store"},
             Goto(r, place), UNCHANGED cache,
             place = "run" => at[r] = "lock", place = "unlock" => at[r] \in {"run", "store"}
      PROVE  CarefulInv'
  BY <1>1, <1>3 DEF Goto, Places
<1>4. ASSUME NEW r \in Requests, Look(r) PROVE CarefulInv'
  <2>1. CASE Missed(r) /\ Goto(r, "lock")
    BY <1>1, <1>4, <2>1 DEF Look, Awaited, InOrder, Missed, Goto
  <2>2. CASE Goto(r, "done")
    BY <1>3, <1>4, <2>2 DEF Look, Places
  <2> QED
    BY <1>4, <2>1, <2>2 DEF Look
<1>5. ASSUME NEW r \in Requests, RunHandler(r) PROVE CarefulInv'
  BY <1>1, <1>5 DEF RunHandler, Goto
<1>6. ASSUME NEW r \in Requests, StoreResponse(r) PROVE CarefulInv'
  <2>1. \A q \in Requests : KeyOf[q] # KeyOf[r] => cache'[KeyOf[q]] = cache[KeyOf[q]]
    BY <1>6 DEF StoreResponse
  <2>2. \A q \in Requests : cache'[KeyOf[q]] = cache[KeyOf[q]] \/ (KeyOf[q] = KeyOf[r] /\ cache'[KeyOf[q]] = r)
    BY <1>6, <2>1 DEF StoreResponse, payload
  <2>3. /\ at[r] = "store" /\ at'[r] = "unlock"
        /\ \A q \in Requests : q # r => at'[q] = at[q]
    BY <1>6 DEF StoreResponse, Goto
  <2> QED
    BY <1>1, <2>2, <2>3
<1>7. ASSUME NEW r \in Requests,
             TryLock(r) \/ DeleteLock(r) \/ CheckFails(r) \/ CrashRequest(r)
      PROVE  CarefulInv'
  <2>1. UNCHANGED cache
    BY <1>7 DEF TryLock, DeleteLock, CheckFails, CrashRequest
  <2>2. \E place \in {"run", "done", "dead"} : Goto(r, place) /\ (place = "run" => at[r] = "lock")
    BY <1>7 DEF TryLock, DeleteLock, CheckFails, CrashRequest
  <2> QED
    BY <1>3, <2>1, <2>2 DEF Places
<1>8. ASSUME NEW k \in Keys, ExpireLock(k) PROVE CarefulInv'
  BY <1>1, <1>8 DEF ExpireLock
<1> QED
  BY <1>2, <1>4, <1>5, <1>6, <1>7, <1>8 DEF Next, RequestStep, Handle

\* A client that repeats its requests when they are answered makes a handler
\* run over a cached response on another node than the one that cached it, or
\* not at all: whatever fails, however long handlers take, and though nobody
\* waits for the commands that cache a response and free its lock.
THEOREM CarefulRetriesAreReplayed == Spec => RetriesOnOneNodeAreReplayed
<1> DEFINE Replayed == \A r \in Requests : KeyOf[r] \in Careful /\ Starts(r) =>
                         Uncached(r) \/ ~OnOneNode(cache[KeyOf[r]], r)
<1>1. CarefulInv /\ [Next]_vars => CarefulInv'
  BY CarefulStep
<1>2. ASSUME CarefulInv, Next PROVE Replayed
  <2>1. SUFFICES ASSUME NEW r \in Requests, KeyOf[r] \in Careful, Starts(r)
                 PROVE  at[r] = "lock"
    BY <1>2, <2>1 DEF CarefulInv, Unanswered
  <2>2. PICK q \in Requests : RequestStep(q)
    BY <1>2, <2>1 DEF Next, ExpireLock, Starts
  <2>3. at \in [Requests -> Places]
    BY <1>2 DEF CarefulInv, TypeOK, Places
  <2>4. ~(Look(q) \/ RunHandler(q) \/ StoreResponse(q) \/ DeleteLock(q) \/ CheckFails(q) \/ CrashRequest(q))
    BY <2>1, <2>3
    DEF Starts, Look, RunHandler, StoreResponse, DeleteLock, CheckFails, CrashRequest, Goto
  <2>5. TryLock(q)
    BY <2>2, <2>4 DEF RequestStep, Handle
  <2> QED
    BY <2>1, <2>3, <2>5 DEF Starts, TryLock, Goto
<1>3. CarefulInv /\ [Next]_vars => [Replayed]_vars
  BY <1>2
<1> QED
  BY <1>1, <1>3, CarefulInitial, PTL DEF Spec, RetriesOnOneNodeAreReplayed

-----------------------------------------------------------------------------
(* The middleware in front of buy-coins and cash-outs.                     *)

CallTypeOK ==
  /\ charge  \in [Headers -> T!ChargeStates]
  /\ buyer   \in [Purchases -> T!BuyerRecord]
  /\ topup   \in [Purchases -> {"none", "pending", "succeeded"}]
  /\ credits \in [Purchases -> Nat]
  /\ request \in [CashoutCalls -> {"idle", "debit", "enqueue", "done"}]
  /\ status  \in [CashoutCalls -> {"none", "pending"}]
  /\ payout  \in [CashoutCalls -> C!JobRecord]

\* A handler that has not begun, or not got a reply, has written nothing.
RowInv ==
  /\ CallTypeOK
  /\ \A r \in Requests : Written(r) => at[r] \notin {"idle", "lock"} /\ ~Undecided(r)
  /\ \A r \in Purchases : /\ buyer[r].at = "idle" => buyer[r].reply = "none"
                          /\ buyer[r].at \in {"insert", "credit"} => buyer[r].reply # "none"

\* A request that has written its row and is over was cut short, or its
\* answer is the one that is replayed.
KeptInv ==
  \A r \in Requests :
    Written(r) /\ at[r] \in {"unlock", "done"} => CutShort(r) \/ cache[KeyOf[r]] # NoResponse

\* When a handler of a careful key runs, whoever wrote a row under the key on
\* its node was cut short: otherwise the answer would have been replayed.
FreshInv ==
  \A r, q \in Requests :
    /\ KeyOf[r] \in Careful /\ KeyOf[q] = KeyOf[r] /\ OnOneNode(r, q) /\ r # q
    /\ Unanswered(r) /\ Written(q)
    => CutShort(q)

CheckoutInv == CarefulInv /\ RowInv /\ KeptInv /\ FreshInv /\ OneRowPerKey

handlerVars == <<moneyVars, debitVars>>

\* What a middleware step does to the handlers' state, and the reverse.
LEMMA CheckoutSteps ==
  ASSUME CheckoutNext
  PROVE  \/ UNCHANGED <<vars, lost>> /\ \E r \in Requests : Work(r)
         \/ UNCHANGED <<vars, debitVars, lost>> /\ \E h \in Headers : T!GatewaySettles(h)
         \/ UNCHANGED handlerVars /\ \E r \in Requests : Respond(r)
         \/ UNCHANGED handlerVars /\ \E r \in Requests : Keep(r)
         \/ UNCHANGED <<handlerVars, lost>> /\ \E r \in Requests :
               Look(r) \/ TryLock(r) \/ DeleteLock(r) \/ CheckFails(r) \/ CrashRequest(r)
         \/ UNCHANGED <<handlerVars, lost>> /\ \E k \in Keys : ExpireLock(k)
BY DEF CheckoutNext, Arrive, Proceed, Cut, Expire, Settle, Middleware, Work, Respond, Keep, handlerVars

\* Every step is a step of the middleware or none.
LEMMA CheckoutIsIdempotency == [CheckoutNext]_checkoutVars => [Next]_vars
<1>1. CASE UNCHANGED checkoutVars
  BY <1>1 DEF checkoutVars
<1>2. CASE CheckoutNext
  BY <1>2, CheckoutSteps DEF Respond, Keep, Next, RequestStep, Handle
<1> QED
  BY <1>1, <1>2

\* At first no money has moved.
LEMMA CheckoutInitial == CheckoutInit => CheckoutInv
<1> SUFFICES ASSUME CheckoutInit PROVE CheckoutInv
  OBVIOUS
<1>1. CarefulInv
  BY CarefulInitial DEF CheckoutInit
<1>2. CallTypeOK /\ \A r \in Requests : ~Written(r)
  <2>1. charge \in [Headers -> T!ChargeStates] /\ buyer \in [Purchases -> T!BuyerRecord]
    BY DEF CheckoutInit, T!Init, T!ChargeStates, T!BuyerRecord
  <2>2. topup = [r \in Purchases |-> "none"] /\ credits \in [Purchases -> Nat]
    BY DEF CheckoutInit, T!Init
  <2>3. status = [r \in CashoutCalls |-> "none"] /\ request = [r \in CashoutCalls |-> "idle"]
    BY DEF CheckoutInit, C!Init
  <2>4. payout \in [CashoutCalls -> C!JobRecord]
    BY DEF CheckoutInit, C!Init, C!QueueInit, C!JobRecord
  <2> QED
    BY <2>1, <2>2, <2>3, <2>4 DEF CallTypeOK, Written, Purchases
<1>3. RowInv
  BY <1>2 DEF RowInv, CheckoutInit, T!Init
<1>4. KeptInv /\ FreshInv /\ OneRowPerKey
  BY <1>2 DEF CheckoutInit, Init, KeptInv, FreshInv, OneRowPerKey, TwoRows
<1> QED
  BY <1>1, <1>3, <1>4 DEF CheckoutInv

\* What a request's handler has done by now; the handlers of the others do
\* not change it.
Untouched(r) == /\ Written(r)' <=> Written(r)
                /\ Recorded(r)' <=> Recorded(r)
                /\ Undecided(r)' <=> Undecided(r)
                /\ Returns(r)' <=> Returns(r)

\* A purchase changes what belongs to its request only, and writes a row and
\* credits it only after the gateway replied.
LEMMA PurchaseEffect ==
  ASSUME RowInv, NEW p \in Purchases, T!PurchaseStep(p)
  PROVE  /\ charge' \in [Headers -> T!ChargeStates]
         /\ buyer'  \in [Purchases -> T!BuyerRecord]
         /\ topup'  \in [Purchases -> {"none", "pending", "succeeded"}]
         /\ credits' \in [Purchases -> Nat]
         /\ \A r \in Purchases : r # p =>
              buyer'[r] = buyer[r] /\ topup'[r] = topup[r] /\ credits'[r] = credits[r]
         /\ buyer'[p].at \in {"insert", "credit"} \/ topup'[p] # "none" => buyer'[p].reply # "none"
         /\ buyer'[p].at # "idle"
<1> USE DEF RowInv, CallTypeOK, T!ChargeStates, T!BuyerRecord
<1>0. HeaderOf[p] \in Headers
  BY CheckoutAssumption DEF Purchases
<1>00. p \in Requests /\ p \notin CashoutCalls
  BY DEF Purchases
<1>01. topup[p] # "none" => buyer[p].reply # "none"
  BY <1>00 DEF Written, Undecided
<1>1. CASE T!ChargeAtGateway(p)
  BY <1>0, <1>1 DEF T!ChargeAtGateway, T!Replies, T!FreshReplies, T!StripeReplies, T!WaafiPayReplies, T!PromptReplies
<1>2. CASE T!ChargeThrows(p)
  BY <1>0, <1>01, <1>2 DEF T!ChargeThrows, T!Replies, T!FreshReplies, T!StripeReplies, T!WaafiPayReplies, T!PromptReplies
<1>3. CASE T!InsertTopup(p)
  BY <1>3 DEF T!InsertTopup, T!RowStatus
<1>4. CASE T!CreditTopup(p)
  BY <1>4 DEF T!CreditTopup
<1>5. CASE T!ApiFault(p)
  BY <1>01, <1>5 DEF T!ApiFault
<1> QED
  BY <1>1, <1>2, <1>3, <1>4, <1>5 DEF T!PurchaseStep

\* So does a cashout, which writes its row only past the checks.
LEMMA CashoutEffect ==
  ASSUME RowInv, NEW p \in CashoutCalls, C!RequestStep(p)
  PROVE  /\ request' \in [CashoutCalls -> {"idle", "debit", "enqueue", "done"}]
         /\ status'  \in [CashoutCalls -> {"none", "pending"}]
         /\ payout'  \in [CashoutCalls -> C!JobRecord]
         /\ \A r \in CashoutCalls : r # p =>
              request'[r] = request[r] /\ status'[r] = status[r] /\ payout'[r] = payout[r]
         /\ request'[p] # "idle"
<1> USE DEF RowInv, CallTypeOK
<1>1. CASE C!CheckProfile(p)
  BY <1>1 DEF C!CheckProfile, C!payoutVars
<1>2. CASE C!DebitAndInsert(p)
  BY <1>2 DEF C!DebitAndInsert
<1>3. CASE C!EnqueuePayout(p)
  BY <1>3 DEF C!EnqueuePayout, C!Add, C!SetJob, C!JobRecord, C!payoutVars
<1>4. CASE C!EnqueueFault(p)
  BY <1>4 DEF C!EnqueueFault, C!payoutVars
<1> QED
  BY <1>1, <1>2, <1>3, <1>4 DEF C!RequestStep

\* A handler at work changes nothing of another request, and leaves what it
\* writes in order.
LEMMA WorkEffect ==
  ASSUME RowInv, NEW p \in Requests, Work(p)
  PROVE  /\ CallTypeOK'
         /\ \A r \in Requests : r # p => Untouched(r)
         /\ Written(p)' => ~Undecided(p)'
         /\ \A r \in Purchases : /\ buyer'[r].at = "idle" => buyer'[r].reply = "none"
                                 /\ buyer'[r].at \in {"insert", "credit"} => buyer'[r].reply # "none"
<1>1. CASE p \in Purchases /\ T!PurchaseStep(p) /\ UNCHANGED debitVars
  <2>1. p \notin CashoutCalls /\ \A r \in Requests : r \notin CashoutCalls => r \in Purchases
    BY <1>1 DEF Purchases
  <2>2. CallTypeOK'
    BY <1>1, PurchaseEffect DEF RowInv, CallTypeOK, debitVars
  <2>3. \A r \in Requests : r # p => Untouched(r)
    BY <1>1, <2>1, PurchaseEffect DEF Untouched, Written, Recorded, Undecided, Returns, debitVars, T!CreditsNow
  <2>4. Written(p)' => ~Undecided(p)'
    BY <1>1, <2>1, PurchaseEffect DEF Written, Undecided
  <2> QED
    BY <1>1, <2>2, <2>3, <2>4, PurchaseEffect DEF RowInv
<1>2. CASE p \in CashoutCalls /\ C!RequestStep(p) /\ UNCHANGED moneyVars
  <2>1. CallTypeOK'
    BY <1>2, CashoutEffect DEF RowInv, CallTypeOK, moneyVars
  <2>2. \A r \in Requests : r # p => Untouched(r)
    BY <1>2, CashoutEffect DEF Untouched, Written, Recorded, Undecided, Returns, moneyVars, T!CreditsNow
  <2>3. ~Undecided(p)'
    BY <1>2, CashoutEffect DEF Undecided
  <2> QED
    BY <1>2, <2>1, <2>2, <2>3 DEF RowInv, moneyVars
<1> QED
  BY <1>1, <1>2 DEF Work

\* Neither the middleware nor the gateway changes what a handler has done.
LEMMA OnlyWorkWrites ==
  ASSUME UNCHANGED handlerVars \/ (UNCHANGED debitVars /\ \E h \in Headers : T!GatewaySettles(h)),
         NEW r \in Requests
  PROVE  Untouched(r)
<1>1. UNCHANGED <<buyer, topup, credits, request, status, payout>>
  BY DEF handlerVars, moneyVars, debitVars, T!GatewaySettles
<1> QED
  BY <1>1 DEF Untouched, Written, Recorded, Undecided, Returns, T!CreditsNow

\* A handler writes its row only while it runs.
LEMMA RowStep ==
  ASSUME TypeOK, RowInv, [CheckoutNext]_checkoutVars
  PROVE  RowInv'
<1>1. ASSUME UNCHANGED handlerVars,
             \A r \in Requests : at[r] \notin {"idle", "lock"} => at'[r] \notin {"idle", "lock"}
      PROVE  RowInv'
  <2>1. \A r \in Requests : Untouched(r)
    BY <1>1, OnlyWorkWrites
  <2>2. CallTypeOK' /\ UNCHANGED buyer
    BY <1>1 DEF RowInv, CallTypeOK, handlerVars, moneyVars, debitVars
  <2> QED
    BY <1>1, <2>1, <2>2 DEF RowInv, Untouched
<1>2. CASE UNCHANGED checkoutVars
  BY <1>1, <1>2 DEF checkoutVars, handlerVars, vars
<1>3. ASSUME UNCHANGED <<vars, lost>>, NEW p \in Requests, Work(p) PROVE RowInv'
  <2>1. at[p] = "run" /\ UNCHANGED at
    BY <1>3 DEF Work, vars
  <2>2. \A r \in Requests : Written(r)' => at'[r] \notin {"idle", "lock"} /\ ~Undecided(r)'
    BY <1>3, <2>1, WorkEffect DEF RowInv, Untouched
  <2> QED
    BY <1>3, <2>2, WorkEffect DEF RowInv
<1>4. ASSUME UNCHANGED <<vars, debitVars, lost>>, NEW h \in Headers, T!GatewaySettles(h)
      PROVE  RowInv'
  <2>1. CallTypeOK' /\ UNCHANGED buyer
    BY <1>4 DEF T!GatewaySettles, RowInv, CallTypeOK, T!ChargeStates, debitVars
  <2>2. \A r \in Requests : Untouched(r)
    BY <1>4, OnlyWorkWrites
  <2> QED
    BY <1>4, <2>1, <2>2 DEF RowInv, Untouched, vars
<1>5. ASSUME NEW r \in Requests,
             RunHandler(r) \/ StoreResponse(r) \/ Look(r) \/ TryLock(r) \/ DeleteLock(r) \/ CheckFails(r) \/ CrashRequest(r)
      PROVE  \A q \in Requests : at[q] \notin {"idle", "lock"} => at'[q] \notin {"idle", "lock"}
  BY <1>5 DEF TypeOK, RunHandler, StoreResponse, Look, TryLock, DeleteLock, CheckFails, CrashRequest, Goto
<1>6. CASE UNCHANGED handlerVars /\ \E k \in Keys : ExpireLock(k)
  BY <1>1, <1>6 DEF ExpireLock
<1> QED
  BY <1>1, <1>2, <1>3, <1>4, <1>5, <1>6, CheckoutSteps DEF Respond, Keep

\* A request that was cut short remains so.
LEMMA CutShortStays ==
  ASSUME TypeOK, RowInv, [CheckoutNext]_checkoutVars, NEW r \in Requests, CutShort(r)
  PROVE  CutShort(r)'
<1>1. ASSUME Untouched(r), lost \subseteq lost',
             at[r] = "dead" => at'[r] = "dead",
             at[r] \in {"unlock", "done"} => at'[r] \in {"unlock", "done", "dead"}
      PROVE  CutShort(r)'
  BY <1>1 DEF CutShort, Untouched
<1>2. CASE UNCHANGED checkoutVars
  BY <1>1, <1>2, OnlyWorkWrites DEF checkoutVars, handlerVars, vars
<1>3. ASSUME UNCHANGED <<vars, lost>>, NEW p \in Requests, Work(p) PROVE CutShort(r)'
  <2>1. CASE p = r
    BY <1>3, <2>1 DEF CutShort, Work, vars
  <2>2. CASE p # r
    BY <1>1, <1>3, <2>2, WorkEffect DEF vars
  <2> QED
    BY <2>1, <2>2
<1>4. ASSUME UNCHANGED <<vars, debitVars, lost>>, NEW h \in Headers, T!GatewaySettles(h)
      PROVE  CutShort(r)'
  BY <1>1, <1>4, OnlyWorkWrites DEF vars
<1>5. ASSUME NEW q \in Requests,
             RunHandler(q) \/ StoreResponse(q) \/ Look(q) \/ TryLock(q) \/ DeleteLock(q) \/ CheckFails(q) \/ CrashRequest(q)
      PROVE  /\ at[r] = "dead" => at'[r] = "dead"
             /\ at[r] \in {"unlock", "done"} => at'[r] \in {"unlock", "done", "dead"}
  BY <1>5 DEF TypeOK, RunHandler, StoreResponse, Look, TryLock, DeleteLock, CheckFails, CrashRequest, Goto, InFlight
<1>6. ASSUME NEW q \in Requests, Respond(q) \/ Keep(q) PROVE lost \subseteq lost'
  BY <1>6 DEF Respond, Keep
<1>7. CASE UNCHANGED <<handlerVars, lost>> /\ \E k \in Keys : ExpireLock(k)
  BY <1>1, <1>7, OnlyWorkWrites DEF ExpireLock
<1> QED
  BY <1>1, <1>2, <1>3, <1>4, <1>5, <1>6, <1>7, OnlyWorkWrites, CheckoutSteps DEF Respond, Keep

\* The answer of a handler that ended is kept, unless the request was cut short.
LEMMA KeptStep ==
  ASSUME TypeOK, RowInv, KeptInv, [CheckoutNext]_checkoutVars
  PROVE  KeptInv'
<1> USE IdempotencyAssumption DEF TypeOK
<1>1. SUFFICES ASSUME NEW r \in Requests, Written(r)', at'[r] \in {"unlock", "done"}, ~CutShort(r)'
               PROVE  cache'[KeyOf[r]] # NoResponse
  BY DEF KeptInv
<1>2. ~CutShort(r)
  BY <1>1, CutShortStays
<1>3. ASSUME Untouched(r), at[r] \in {"unlock", "done"} PROVE cache[KeyOf[r]] # NoResponse
  BY <1>1, <1>2, <1>3 DEF KeptInv, Untouched
<1>4. CASE UNCHANGED checkoutVars
  BY <1>1, <1>3, <1>4, OnlyWorkWrites DEF checkoutVars, handlerVars, vars
<1>5. ASSUME UNCHANGED <<vars, lost>>, NEW p \in Requests, Work(p)
      PROVE  cache'[KeyOf[r]] # NoResponse
  <2>1. p # r
    BY <1>1, <1>5 DEF Work, vars
  <2> QED
    BY <1>1, <1>3, <1>5, <2>1, WorkEffect DEF vars
<1>6. ASSUME UNCHANGED <<vars, debitVars, lost>>, NEW h \in Headers, T!GatewaySettles(h)
      PROVE  cache'[KeyOf[r]] # NoResponse
  BY <1>1, <1>3, <1>6, OnlyWorkWrites DEF vars
<1>7. ASSUME UNCHANGED handlerVars, NEW q \in Requests, Respond(q) PROVE cache'[KeyOf[r]] # NoResponse
  <2>0. Untouched(r)
    BY <1>7, OnlyWorkWrites
  <2>1. CASE q # r
    BY <1>1, <1>3, <1>7, <2>0, <2>1 DEF Respond, RunHandler, Goto
  <2>2. CASE q = r
    <3>1. ~Undecided(r) /\ at'[r] = "unlock"
      BY <1>1, <1>7, <2>0, <2>2 DEF RowInv, Untouched, Respond, RunHandler, Goto
    <3>2. ~Recorded(r)
      BY <1>7, <2>2, <3>1 DEF Respond, Continuations
    <3>3. CutShort(r)'
      BY <2>0, <3>1, <3>2 DEF CutShort, Untouched
    <3> QED
      BY <1>1, <3>3
  <2> QED
    BY <2>1, <2>2
<1>8. ASSUME UNCHANGED handlerVars, NEW q \in Requests, Keep(q) PROVE cache'[KeyOf[r]] # NoResponse
  <2>1. CASE q # r
    BY <1>1, <1>3, <1>8, <2>1, OnlyWorkWrites DEF Keep, StoreResponse, Goto, payload
  <2>2. CASE q = r
    BY <1>1, <1>8, <2>2 DEF Keep, StoreResponse, CutShort, payload
  <2> QED
    BY <2>1, <2>2
<1>9. ASSUME UNCHANGED <<handlerVars, lost>>, NEW q \in Requests,
             Look(q) \/ TryLock(q) \/ DeleteLock(q) \/ CheckFails(q) \/ CrashRequest(q)
      PROVE  cache'[KeyOf[r]] # NoResponse
  <2>0. Untouched(r)
    BY <1>9, OnlyWorkWrites
  <2>1. at[r] \in {"unlock", "done"}
    BY <1>1, <1>9, <2>0 DEF RowInv, Untouched, Look, TryLock, DeleteLock, CheckFails, CrashRequest, Goto
  <2> QED
    BY <1>3, <1>9, <2>0, <2>1 DEF Look, TryLock, DeleteLock, CheckFails, CrashRequest
<1>10. CASE UNCHANGED <<handlerVars, lost>> /\ \E k \in Keys : ExpireLock(k)
  BY <1>1, <1>3, <1>10, OnlyWorkWrites DEF ExpireLock
<1> QED
  BY <1>4, <1>5, <1>6, <1>7, <1>8, <1>9, <1>10, CheckoutSteps

\* A handler of a careful key starts over no answer of its own node that could
\* have been replayed, and no other writes under the key before it answers.
LEMMA FreshStep ==
  ASSUME CarefulInv, RowInv, KeptInv, FreshInv, [CheckoutNext]_checkoutVars
  PROVE  FreshInv'
<1> USE IdempotencyAssumption DEF Unanswered, OnOneNode
<1>0. TypeOK /\ [Next]_vars
  BY CheckoutIsIdempotency DEF CarefulInv
<1> SUFFICES ASSUME NEW r \in Requests, NEW q \in Requests, r # q,
                    KeyOf[r] \in Careful, KeyOf[q] = KeyOf[r], OnOneNode(r, q),
                    Unanswered(r)', Written(q)'
             PROVE  CutShort(q)'
  BY DEF FreshInv
<1>1. CASE Unanswered(r) /\ Written(q)
  BY <1>0, <1>1, CutShortStays DEF FreshInv
<1>2. CASE Unanswered(r) /\ ~Written(q)
  <2>1. PICK p \in Requests : Work(p)
    BY <1>2, OnlyWorkWrites, CheckoutSteps DEF Untouched, checkoutVars, handlerVars
  <2>2. p = q
    BY <1>2, <2>1, WorkEffect DEF Untouched
  <2> QED
    BY <1>2, <2>1, <2>2 DEF Work, CarefulInv
<1>3. CASE ~Unanswered(r)
  <2>1. Look(r) /\ at[r] = "idle" /\ at'[r] = "lock"
    BY <1>0, <1>3
    DEF Next, vars, RequestStep, Handle, Look, TryLock, RunHandler, StoreResponse, DeleteLock,
        CheckFails, CrashRequest, ExpireLock, Goto, TypeOK
  <2>2. UNCHANGED handlerVars
    BY <2>1, CheckoutSteps
    DEF checkoutVars, vars, Respond, RunHandler, Keep, StoreResponse, TryLock, DeleteLock,
        CheckFails, CrashRequest, ExpireLock, Goto, TypeOK
  <2>3. Written(q)
    BY <2>2, OnlyWorkWrites DEF Untouched
  <2>4. at[q] \in {"done", "dead"}
    BY <1>0, <2>1, <2>3 DEF Look, Awaited, InOrder, RowInv, TypeOK
  <2>5. Missed(r)
    BY <1>0, <2>1 DEF Look, Goto, TypeOK
  <2>6. CutShort(q)
    BY <2>3, <2>4, <2>5 DEF KeptInv, Missed, CutShort
  <2> QED
    BY <1>0, <2>6, CutShortStays
<1> QED
  BY <1>1, <1>2, <1>3

\* Whoever writes a row under a careful key finds every earlier writer of its
\* node cut short.
LEMMA OneRowStep ==
  ASSUME CheckoutInv, [CheckoutNext]_checkoutVars
  PROVE  OneRowPerKey'
<1> USE DEF CheckoutInv, OnOneNode
<1>1. TypeOK /\ RowInv
  BY DEF CarefulInv
<1>2. ASSUME NEW r \in Requests, NEW q \in Requests, r # q, KeyOf[r] = KeyOf[q], KeyOf[r] \in Careful,
             OnOneNode(r, q), ~Written(r), Written(r)', Written(q)'
      PROVE  CutShort(q)'
  <2>1. ~Untouched(r)
    BY <1>2 DEF Untouched
  <2>2. PICK p \in Requests : Work(p)
    BY <2>1, OnlyWorkWrites, CheckoutSteps DEF checkoutVars, handlerVars
  <2>3. p = r /\ at[r] = "run" /\ Untouched(q)
    BY <1>1, <1>2, <2>1, <2>2, WorkEffect DEF Work
  <2>4. Written(q)
    BY <1>2, <2>3 DEF Untouched
  <2>5. CutShort(q)
    BY <1>2, <2>3, <2>4 DEF FreshInv, Unanswered
  <2> QED
    BY <1>1, <2>5, CutShortStays
<1>3. SUFFICES ASSUME NEW r \in Requests, NEW q \in Requests,
                      KeyOf[r] \in Careful, KeyOf[q] = KeyOf[r], OnOneNode(r, q), TwoRows(r, q)'
               PROVE  CutShort(r)' \/ CutShort(q)'
  BY DEF OneRowPerKey
<1>4. CASE Written(r) /\ Written(q)
  BY <1>1, <1>3, <1>4, CutShortStays DEF OneRowPerKey, TwoRows
<1>5. CASE ~Written(r)
  BY <1>2, <1>3, <1>5 DEF TwoRows
<1>6. CASE ~Written(q)
  BY <1>2, <1>3, <1>6 DEF TwoRows
<1> QED
  BY <1>4, <1>5, <1>6

\* Every step of a request behind the middleware keeps all of this.
LEMMA CheckoutStep ==
  ASSUME CheckoutInv, [CheckoutNext]_checkoutVars
  PROVE  CheckoutInv'
<1>1. TypeOK /\ [Next]_vars
  BY CheckoutIsIdempotency DEF CheckoutInv, CarefulInv
<1> QED
  BY <1>1, CarefulStep, RowStep, KeptStep, FreshStep, OneRowStep DEF CheckoutInv

\* The cache tells the clients of careful keys what was served.
LEMMA CheckoutInvariant == CheckoutSpec => []CheckoutInv
<1>1. CheckoutInv /\ [CheckoutNext]_checkoutVars => CheckoutInv'
  BY CheckoutStep
<1> QED
  BY <1>1, CheckoutInitial, PTL DEF CheckoutSpec

\* However requests fail, crash and are repeated, a client who awaits each
\* answer gets a second topup or a second cashout under one key only if one of
\* the two requests was cut short after it had written its row, or another
\* node served it.
THEOREM SecondRowNeedsACut == CheckoutSpec => []OneRowPerKey
<1>1. CheckoutInv => OneRowPerKey
  BY DEF CheckoutInv
<1> QED
  BY <1>1, CheckoutInvariant, PTL

\* No process dies, the cache takes every answer, and neither the statements
\* between a row and its credit nor the enqueue of a payout fail.  Redis may
\* still refuse a check or a delete, a gateway may fail, and a handler may
\* outlive its lock.
NothingIsCut == Faults \cap {"set", "crash"} = {} /\ HandlerFaults \cap {"api", "enqueue"} = {}

\* Between a row and what has to follow it a handler runs and does not return.
UncutInv ==
  /\ lost = {}
  /\ \A r \in Requests : /\ at[r] # "dead"
                         /\ Written(r) /\ ~Recorded(r) => at[r] = "run" /\ ~Returns(r)

\* A handler that goes on, and does not fail, records what it has written.
LEMMA WorkRecords ==
  ASSUME NothingIsCut, RowInv, NEW p \in Requests, Work(p),
         Written(p) /\ ~Recorded(p) => ~Returns(p), Written(p)', ~Recorded(p)'
  PROVE  ~Returns(p)'
<1> USE DEF RowInv, CallTypeOK
<1>1. CASE p \in Purchases /\ T!PurchaseStep(p)
  <2>1. p \notin CashoutCalls
    BY <1>1 DEF Purchases
  <2>2. ~T!ApiFault(p)
    BY DEF T!ApiFault, NothingIsCut
  <2>3. ~T!CreditTopup(p)
    BY <1>1, <2>1 DEF T!CreditTopup, Written, Recorded
  <2>4. CASE T!InsertTopup(p)
    BY <1>1, <2>1, <2>4 DEF T!InsertTopup, T!BuyerRecord, Written, Recorded, Returns
  <2>5. ~T!ChargeAtGateway(p) /\ ~T!ChargeThrows(p)
    BY <1>1, <2>1 DEF T!ChargeAtGateway, T!ChargeThrows, Written, Undecided, Purchases
  <2> QED
    BY <1>1, <2>2, <2>3, <2>4, <2>5 DEF T!PurchaseStep
<1>2. CASE p \in CashoutCalls /\ C!RequestStep(p)
  <2>1. CASE C!CheckProfile(p) \/ C!EnqueueFault(p)
    BY <1>2, <2>1 DEF C!CheckProfile, C!EnqueueFault, C!payoutVars, NothingIsCut, Written, Undecided
  <2>2. CASE C!DebitAndInsert(p)
    BY <1>2, <2>2 DEF C!DebitAndInsert, Written, Recorded, Returns
  <2>3. ~C!EnqueuePayout(p)
    BY <1>2 DEF C!EnqueuePayout, C!Add, C!SetJob, Recorded
  <2> QED
    BY <1>2, <2>1, <2>2, <2>3 DEF C!RequestStep
<1> QED
  BY <1>1, <1>2 DEF Work

\* Nobody dies, every answer is kept, and no handler returns half-way.
LEMMA UncutStep ==
  ASSUME NothingIsCut, TypeOK, RowInv, UncutInv, [CheckoutNext]_checkoutVars
  PROVE  UncutInv'
<1>0. \A r \in Requests : ~CrashRequest(r)
  BY DEF CrashRequest, NothingIsCut
<1>1. ASSUME NEW r \in Requests, at'[r] = "dead" PROVE FALSE
  <2>1. at[r] # "dead" /\ [Next]_vars
    BY CheckoutIsIdempotency DEF UncutInv
  <2> QED
    BY <1>0, <1>1, <2>1
    DEF Next, vars, RequestStep, Handle, Look, TryLock, RunHandler, StoreResponse, DeleteLock,
        CheckFails, ExpireLock, Goto, TypeOK
<1>2. lost' = {}
  <2>1. ASSUME NEW r \in Requests, Keep(r) PROVE lost' = {}
    BY <2>1, IdempotencyAssumption DEF Keep, StoreResponse, payload, NothingIsCut, UncutInv, TypeOK
  <2> QED
    BY <2>1, CheckoutSteps DEF checkoutVars, Respond, UncutInv
<1>3. ASSUME NEW r \in Requests, Written(r)', ~Recorded(r)' PROVE at'[r] = "run" /\ ~Returns(r)'
  <2>1. ASSUME Untouched(r), UNCHANGED vars \/ \A p \in Requests : ~Work(p)
        PROVE  at'[r] = "run" /\ ~Returns(r)'
    <3>1. at[r] = "run" /\ ~Returns(r) /\ ~Returns(r)'
      BY <1>3, <2>1 DEF UncutInv, Untouched
    <3>2. ~Respond(r)
      BY <3>1 DEF Respond
    <3>3. at'[r] = "run"
      BY <1>0, <2>1, <3>1, <3>2, CheckoutSteps
      DEF checkoutVars, vars, TypeOK, Respond, RunHandler, Keep, StoreResponse, Look, TryLock,
          DeleteLock, CheckFails, ExpireLock, Goto
    <3> QED
      BY <3>1, <3>3
  <2>2. ASSUME NEW p \in Requests, Work(p) PROVE at'[r] = "run" /\ ~Returns(r)'
    <3>1. UNCHANGED vars /\ at[p] = "run"
      BY <2>2 DEF Work
    <3>2. CASE p = r
      BY <1>3, <2>2, <3>1, <3>2, WorkRecords DEF UncutInv, vars
    <3>3. CASE p # r
      BY <2>1, <2>2, <3>1, <3>3, WorkEffect
    <3> QED
      BY <3>2, <3>3
  <2>3. CASE \A p \in Requests : ~Work(p)
    <3>1. Untouched(r)
      BY <2>3, OnlyWorkWrites, CheckoutSteps DEF checkoutVars, handlerVars
    <3> QED
      BY <2>1, <2>3, <3>1
  <2> QED
    BY <2>2, <2>3
<1> QED
  BY <1>1, <1>2, <1>3 DEF UncutInv

\* As long as nothing is cut, a client who awaits each answer pays for one topup,
\* or is debited for one cashout, per key and node, however often it repeats the
\* request and whatever the gateway or the checks of Redis do.
THEOREM UncutPayOnce ==
  ASSUME NothingIsCut
  PROVE  CheckoutSpec => []OneRow
<1>1. CheckoutInit => UncutInv
  <2> SUFFICES ASSUME CheckoutInit PROVE UncutInv
    OBVIOUS
  <2>1. lost = {} /\ \A r \in Requests : at[r] = "idle"
    BY DEF CheckoutInit, Init
  <2>2. \A r \in Requests : ~Written(r)
    BY <2>1, CheckoutInitial DEF CheckoutInv, RowInv
  <2> QED
    BY <2>1, <2>2 DEF UncutInv
<1>2. CheckoutInv /\ UncutInv /\ [CheckoutNext]_checkoutVars => UncutInv'
  BY UncutStep DEF CheckoutInv, CarefulInv
<1>3. CheckoutInv /\ UncutInv => OneRow
  BY DEF CheckoutInv, UncutInv, OneRowPerKey, OneRow, TwoRows, CutShort
<1> QED
  BY <1>1, <1>2, <1>3, CheckoutInvariant, PTL DEF CheckoutSpec

\* The composition behaves, as far as the middleware goes, like Idempotency,
\* and inherits its theorems.
THEOREM CheckoutImplementsIdempotency == CheckoutSpec => Spec
<1>1. CheckoutInit => Init
  BY DEF CheckoutInit
<1> QED
  BY <1>1, CheckoutIsIdempotency, PTL DEF CheckoutSpec, Spec

\* It behaves, as far as the handlers go, like Topups without webhooks: the
\* middleware only holds handlers back.
THEOREM CheckoutImplementsTopups == CheckoutSpec => T!Spec
<1>1. CheckoutInit => T!Init
  BY DEF CheckoutInit
<1>2. [CheckoutNext]_checkoutVars => [T!Next]_(T!vars)
  <2> SUFFICES ASSUME [CheckoutNext]_checkoutVars PROVE [T!Next]_(T!vars)
    OBVIOUS
  <2>1. CASE UNCHANGED moneyVars
    BY <2>1 DEF moneyVars, T!vars
  <2>2. ASSUME NEW p \in Requests, Work(p), ~UNCHANGED moneyVars PROVE T!Next
    BY <2>2 DEF Work, T!Next
  <2>3. ASSUME NEW h \in Headers, T!GatewaySettles(h) PROVE T!Next
    BY <2>3 DEF T!Next
  <2> QED
    BY <2>1, <2>2, <2>3, CheckoutSteps DEF checkoutVars, handlerVars
<1> QED
  BY <1>1, <1>2, PTL DEF CheckoutSpec, T!Spec

\* And like the requests of Cashouts, whose queue is filled and whose jobs wait:
\* so no balance is overdrawn behind the middleware either.
THEOREM CheckoutImplementsCashouts == CheckoutSpec => C!Spec
<1>1. CheckoutInit => C!Init
  BY DEF CheckoutInit
<1>2. [CheckoutNext]_checkoutVars => [C!Next]_(C!vars)
  <2> SUFFICES ASSUME [CheckoutNext]_checkoutVars PROVE [C!Next]_(C!vars)
    OBVIOUS
  <2>1. CASE UNCHANGED debitVars
    BY <2>1 DEF debitVars, C!vars
  <2>2. ASSUME NEW p \in Requests, Work(p), ~UNCHANGED debitVars PROVE C!Next
    BY <2>2 DEF Work, C!Next
  <2> QED
    BY <2>1, <2>2, CheckoutSteps DEF checkoutVars, handlerVars
<1> QED
  BY <1>1, <1>2, PTL DEF CheckoutSpec, C!Spec
=============================================================================
