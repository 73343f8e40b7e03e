-------------------------------- MODULE Topups --------------------------------
(***************************************************************************)
(* Buying coins.  A request handler charges the gateway and records the    *)
(* outcome (src/routes/payments.ts, src/routes/cards.ts, src/payments/     *)
(* topup.ts); later the gateway posts a webhook, which an API handler      *)
(* stores and enqueues (src/routes/webhooks.ts) and a worker reconciles    *)
(* with the topup row (src/jobs/webhook-retry.job.ts).                     *)
(*                                                                         *)
(* A step is one statement or transaction that touches Postgres, Redis or  *)
(* the gateway.  Everything between two such steps is interleaved with the *)
(* other handlers and workers.  The jobs of the queue are the webhook      *)
(* events.  The cashout half of the webhook job is in module Cashouts.     *)
(***************************************************************************)
EXTENDS JobQueue

CONSTANTS
  Purchases,      \* calls that reach the charge: buy-coins, cards/confirm
  Refs,           \* gateway references of charges
  Hooks,          \* webhook deliveries an API process can be handling at once
  ChargeRef,      \* the reference each purchase's charge gets
  EventRef,       \* the charge each webhook event is about
  Reports,        \* the statuses of the charge each webhook event may report
  Faults,         \* what may go wrong, a subset of FaultKinds
  NoPurchase

FaultKinds == {"gateway", "api", "job", "crash"}
ChargeStates == {"none", "open", "collected", "declined"}

ASSUME TopupAssumption ==
  /\ ChargeRef \in [Purchases -> Refs]
  /\ EventRef \in [Jobs -> Refs]
  /\ Reports \in [Jobs -> SUBSET (ChargeStates \ {"none"})]
  /\ Faults \subseteq FaultKinds
  /\ NoPurchase \notin Purchases

VARIABLES
  charge,   \* gateway: the state of each charge
  buyer,    \* where each purchase's request handler is, and the gateway's reply
  topup,    \* topups.status of each purchase's row
  credits,  \* how many wallet_ledger rows credit each purchase
  event,    \* webhook_events: whether each row exists and has processed_at
  hook,     \* where each webhook request handler is
  exec,     \* where each execution of processWebhookRetryJob is
  mishap    \* history: what has come between each event and its topup row

topupVars == <<charge, buyer, topup, credits>>
vars == <<charge, buyer, topup, credits, event, hook, exec, mishap, job, slot>>

\* A request handler that never got past its row or its credit was "cut".
BuyerRecord == [at : {"idle", "insert", "credit", "cut", "done"}, reply : ChargeStates]
HookRecord  == [at : {"idle", "insert", "enqueue"}, ev : Jobs \cup {NoJob}]
ExecRecord  == [at : {"idle", "event", "topup", "settle", "mark", "finish"},
                target : Purchases \cup {NoPurchase}]

\* The event's enqueue failed after the row was stored, or the job looked for
\* the topup row before there was one.
Mishaps == {"dropped", "early"}

IdleHook == [at |-> "idle", ev |-> NoJob]
IdleExec == [at |-> "idle", target |-> NoPurchase]

Init ==
  /\ QueueInit
  /\ charge  = [r \in Refs |-> "none"]
  /\ buyer   = [p \in Purchases |-> [at |-> "idle", reply |-> "none"]]
  /\ topup   = [p \in Purchases |-> "none"]
  /\ credits = [p \in Purchases |-> 0]
  /\ event   = [e \in Jobs |-> "none"]
  /\ hook    = [h \in Hooks |-> IdleHook]
  /\ exec    = [s \in Slots |-> IdleExec]
  /\ mishap  = [e \in Jobs |-> {}]

-----------------------------------------------------------------------------
(* The purchase.                                                           *)

\* Stripe confirms a card at once or later; WaafiPay's answer is the final
\* word; the other gateways prompt the customer and say pending.
StripeReplies == {"open", "collected"}
WaafiPayReplies == {"collected", "declined"}
PromptReplies == {"open"}
FreshReplies == StripeReplies \cup WaafiPayReplies \cup PromptReplies

\* What a call for reference r can find: a fresh charge gets one of these, a
\* repeated key replays the charge there is.
Replies(r) == IF charge[r] = "none" THEN FreshReplies ELSE {charge[r]}

ChargeAtGateway(p) ==
  /\ buyer[p].at = "idle"
  /\ \E reply \in Replies(ChargeRef[p]) :
       /\ charge' = [charge EXCEPT ![ChargeRef[p]] = reply]
       /\ buyer'  = [buyer EXCEPT ![p] = [at |-> "insert", reply |-> reply]]
  /\ UNCHANGED <<topup, credits, event, hook, exec, mishap, job, slot>>

\* The call threw and the client gets 502 or 409: the request may or may not
\* have reached the gateway.
ChargeThrows(p) ==
  /\ "gateway" \in Faults
  /\ buyer[p].at = "idle"
  /\ buyer' = [buyer EXCEPT ![p].at = "done"]
  /\ \E state \in Replies(ChargeRef[p]) \cup {charge[ChargeRef[p]]} :
       charge' = [charge EXCEPT ![ChargeRef[p]] = state]
  /\ UNCHANGED <<topup, credits, event, hook, exec, mishap, job, slot>>

\* A mobile-money customer answers the prompt, a card challenge ends.
GatewaySettles(r) ==
  /\ charge[r] = "open"
  /\ \E outcome \in {"collected", "declined"} : charge' = [charge EXCEPT ![r] = outcome]
  /\ UNCHANGED <<buyer, topup, credits, event, hook, exec, mishap, job, slot>>

\* The row is pending unless the charge succeeded at once, a declined one too.
RowStatusEager(reply) == IF reply = "declined" THEN "pending" ELSE "succeeded"  \* mutant
RowStatus(reply) == IF reply = "collected" THEN "succeeded" ELSE "pending"

\* if (params.chargeResult.status === "succeeded") the wallet is credited.
CreditsNowEager(reply) == reply # "declined"                       \* mutant
CreditsNow(reply) == reply = "collected"

InsertTopup(p) ==
  /\ buyer[p].at = "insert"
  /\ topup' = [topup EXCEPT ![p] = RowStatus(buyer[p].reply)]
  /\ buyer' = [buyer EXCEPT ![p].at = IF CreditsNow(buyer[p].reply) THEN "credit" ELSE "done"]
  /\ UNCHANGED <<charge, credits, event, hook, exec, mishap, job, slot>>

\* The transaction that runs creditWallet, after the row was committed.
CreditTopup(p) ==
  /\ buyer[p].at = "credit"
  /\ credits' = [credits EXCEPT ![p] = @ + 1]
  /\ buyer'   = [buyer EXCEPT ![p].at = "done"]
  /\ UNCHANGED <<charge, topup, event, hook, exec, mishap, job, slot>>

\* The API process dies, or the next statement throws: nobody comes back for
\* the row or the credit that is missing.
ApiFault(p) ==
  /\ "api" \in Faults
  /\ buyer[p].at \in {"insert", "credit"}
  /\ buyer' = [buyer EXCEPT ![p].at = "cut"]
  /\ UNCHANGED <<charge, topup, credits, event, hook, exec, mishap, job, slot>>

-----------------------------------------------------------------------------
(* The webhook route.                                                      *)

\* The gateway posts event e and the handler's select finds no row for it.
\* A delivery that finds the row answers 200 and changes nothing.  The route
\* takes events of every type, a declined charge's too.
Reached(e) == charge[EventRef[e]] \in Reports[e]
Dedupe(e)  == event[e] # "none"

Deliver(h, e) ==
  /\ hook[h].at = "idle"
  /\ Reached(e)
  /\ ~Dedupe(e)
  /\ hook' = [hook EXCEPT ![h] = [at |-> "insert", ev |-> e]]
  /\ UNCHANGED <<topupVars, event, exec, mishap, job, slot>>

\* insert ... onConflictDoNothing().returning(): the loser of two concurrent
\* deliveries gets no row back and answers 200.
StoreEvent(h) ==
  /\ hook[h].at = "insert"
  /\ LET e == hook[h].ev IN
     \/ /\ event[e] = "none"
        /\ event' = [event EXCEPT ![e] = "stored"]
        /\ hook'  = [hook EXCEPT ![h] = [at |-> "enqueue", ev |-> e]]
     \/ /\ event[e] # "none"
        /\ hook' = [hook EXCEPT ![h] = IdleHook]
        /\ UNCHANGED event
  /\ UNCHANGED <<topupVars, exec, mishap, job, slot>>

EnqueueEvent(h) ==
  /\ hook[h].at = "enqueue"
  /\ Add(hook[h].ev)
  /\ hook' = [hook EXCEPT ![h] = IdleHook]
  /\ UNCHANGED <<topupVars, event, exec, mishap>>

\* The handler dies or the statement it was at throws: the gateway sees no
\* 2xx answer and will post the event again.
HookFault(h) ==
  /\ "api" \in Faults
  /\ hook[h].at # "idle"
  /\ hook'   = [hook EXCEPT ![h] = IdleHook]
  /\ mishap' = IF hook[h].at = "enqueue"
               THEN [mishap EXCEPT ![hook[h].ev] = @ \cup {"dropped"}] ELSE mishap
  /\ UNCHANGED <<topupVars, event, exec, job, slot>>

-----------------------------------------------------------------------------
(* processWebhookRetryJob.                                                 *)

Goto(s, at) == exec' = [exec EXCEPT ![s] = [at |-> at, target |-> NoPurchase]]

StartJob(s, e) ==
  /\ Start(s, e)
  /\ Goto(s, "event")
  /\ UNCHANGED <<topupVars, event, hook, mishap>>

\* if (event.processedAt) return;
ReadEvent(s) ==
  /\ exec[s].at = "event"
  /\ Goto(s, IF event[slot[s]] = "processed" THEN "finish" ELSE "topup")
  /\ UNCHANGED <<topupVars, event, hook, mishap, job, slot>>

\* const [topup] = select ... where gateway_ref = gatewayRef: one row of any
\* that match.  The status the event reports is not looked at.
RowsOf(e) == {p \in Purchases : topup[p] # "none" /\ ChargeRef[p] = EventRef[e]}
NeedsSettlingAlways(p) == TRUE                                     \* mutant
NeedsSettling(p) == topup[p] # "succeeded"

ReadTopup(s) ==
  /\ exec[s].at = "topup"
  /\ LET e == slot[s] IN
     /\ \/ \E p \in RowsOf(e) :
             /\ NeedsSettling(p)
             /\ exec' = [exec EXCEPT ![s] = [at |-> "settle", target |-> p]]
        \/ /\ RowsOf(e) = {} \/ \E p \in RowsOf(e) : ~NeedsSettling(p)
           /\ Goto(s, "mark")
     /\ mishap' = IF RowsOf(e) = {} THEN [mishap EXCEPT ![e] = @ \cup {"early"}] ELSE mishap
  /\ UNCHANGED <<topupVars, event, hook, job, slot>>

SettleTopupNoUpdate(s) ==                                          \* mutant
  /\ exec[s].at = "settle"
  /\ credits' = [credits EXCEPT ![exec[s].target] = @ + 1]
  /\ Goto(s, "mark")
  /\ UNCHANGED <<charge, buyer, topup, event, hook, mishap, job, slot>>

\* One transaction: the row becomes succeeded and the wallet is credited,
\* whatever the row says by now.
SettleTopup(s) ==
  /\ exec[s].at = "settle"
  /\ LET p == exec[s].target IN
     /\ topup'   = [topup EXCEPT ![p] = "succeeded"]
     /\ credits' = [credits EXCEPT ![p] = @ + 1]
  /\ Goto(s, "mark")
  /\ UNCHANGED <<charge, buyer, event, hook, mishap, job, slot>>

MarkProcessed(s) ==
  /\ exec[s].at = "mark"
  /\ event' = [event EXCEPT ![slot[s]] = "processed"]
  /\ Goto(s, "finish")
  /\ UNCHANGED <<topupVars, hook, mishap, job, slot>>

FinishJob(s) ==
  /\ exec[s].at = "finish"
  /\ Complete(s)
  /\ exec' = [exec EXCEPT ![s] = IdleExec]
  /\ UNCHANGED <<topupVars, event, hook, mishap>>

JobThrowsSwallowed(s) ==                                           \* mutant
  /\ "job" \in Faults
  /\ exec[s].at \in {"event", "topup", "settle", "mark"}
  /\ Complete(s)
  /\ exec' = [exec EXCEPT ![s] = IdleExec]
  /\ UNCHANGED <<topupVars, event, hook, mishap>>

\* A statement throws: the catch block counts the attempt and rethrows.  An
\* open transaction is rolled back.
JobThrows(s) ==
  /\ "job" \in Faults
  /\ exec[s].at \in {"event", "topup", "settle", "mark"}
  /\ Fail(s)
  /\ exec' = [exec EXCEPT ![s] = IdleExec]
  /\ UNCHANGED <<topupVars, event, hook, mishap>>

WorkerCrash(s) ==
  /\ "crash" \in Faults
  /\ Crash(s)
  /\ exec' = [exec EXCEPT ![s] = IdleExec]
  /\ UNCHANGED <<topupVars, event, hook, mishap>>

StallJob(e) ==
  /\ Stall(e)
  /\ UNCHANGED <<topupVars, event, hook, exec, mishap>>

-----------------------------------------------------------------------------
PurchaseStep(p) ==
  \/ ChargeAtGateway(p) \/ ChargeThrows(p)
  \/ InsertTopup(p) \/ CreditTopup(p) \/ ApiFault(p)

HookStep(h) ==
  \/ \E e \in Jobs : Deliver(h, e)
  \/ StoreEvent(h) \/ EnqueueEvent(h) \/ HookFault(h)

JobStep(s) ==
  \/ \E e \in Jobs : StartJob(s, e)
  \/ ReadEvent(s) \/ ReadTopup(s) \/ SettleTopup(s) \/ MarkProcessed(s) \/ FinishJob(s)
  \/ JobThrows(s) \/ WorkerCrash(s)

Next ==
  \/ \E p \in Purchases : PurchaseStep(p)
  \/ \E r \in Refs : GatewaySettles(r)
  \/ \E h \in Hooks : HookStep(h)
  \/ \E s \in Slots : JobStep(s)
  \/ \E e \in Jobs : StallJob(e)

Spec == Init /\ [][Next]_vars

\* Handlers and workers run on, the gateway repeats an unanswered webhook,
\* BullMQ hands out waiting jobs and checks for stalled ones.  A delivery that
\* is repeated for ever is stored at last (strong): not every one of them dies
\* first.  No purchase has to be made, no charge has to settle and no fault has
\* to happen.
Fairness ==
  /\ \A p \in Purchases : WF_vars(InsertTopup(p)) /\ WF_vars(CreditTopup(p))
  /\ \A e \in Jobs : /\ WF_vars(\E h \in Hooks : Deliver(h, e))
                     /\ WF_vars(\E s \in Slots : StartJob(s, e))
                     /\ WF_vars(StallJob(e))
  /\ \A h \in Hooks : SF_vars(StoreEvent(h)) /\ WF_vars(EnqueueEvent(h))
  /\ \A s \in Slots : WF_vars(ReadEvent(s) \/ ReadTopup(s) \/ SettleTopup(s)
                              \/ MarkProcessed(s) \/ FinishJob(s))

FairSpec == Spec /\ Fairness

-----------------------------------------------------------------------------
(* What a buyer, a creditor and an operator rely on.                       *)

\* Every variable keeps its type: the rows, handlers and jobs are in states
\* the routes and jobs can put them in.
TypeOK ==
  /\ QueueTypeOK
  /\ charge  \in [Refs -> ChargeStates]
  /\ buyer   \in [Purchases -> BuyerRecord]
  /\ topup   \in [Purchases -> {"none", "pending", "succeeded"}]
  /\ credits \in [Purchases -> Nat]
  /\ event   \in [Jobs -> {"none", "stored", "processed"}]
  /\ hook    \in [Hooks -> HookRecord]
  /\ exec    \in [Slots -> ExecRecord]
  /\ mishap  \in [Jobs -> SUBSET Mishaps]

\* A charge is turned into coins once, whichever of the request handler, a
\* redelivered job, a retried job or a second row gets to it, and in
\* whatever order (recordTopupResult and processWebhookRetryJob both credit).
CreditedAtMostOnce ==
  /\ \A p \in Purchases : credits[p] <= 1
  /\ \A p, q \in Purchases :
       ChargeRef[p] = ChargeRef[q] /\ credits[p] > 0 /\ credits[q] > 0 => p = q

\* Coins are credited only against money the gateway collected.  The webhook
\* job's own comment says it reconciles the topup with the reported status; it
\* never reads that status, and an event about a declined charge credits too.
CreditedOnlyWhenCollected ==
  \A p \in Purchases : credits[p] > 0 => charge[ChargeRef[p]] = "collected"

\* A topup row that says succeeded has its coins, or its handler is about to
\* credit them, or was cut down first: the job that settles a row credits it
\* in the same transaction, and no other path writes succeeded.
SucceededIsCredited ==
  \A p \in Purchases :
    topup[p] = "succeeded" => credits[p] > 0 \/ buyer[p].at \in {"credit", "cut"}

\* An event the route has stored is one some handler is about to enqueue, one
\* the queue still holds, or one whose enqueue failed: the dedupe answers 200
\* to every redelivery, so an event lost in any other way is lost for good.
StoredReachesQueue ==
  \A e \in Jobs : event[e] = "stored" =>
    \/ \E h \in Hooks : hook[h] = [at |-> "enqueue", ev |-> e]
    \/ job[e].state \in {"waiting", "active", "failed"}
    \/ "dropped" \in mishap[e]

\* Once an event about a charge is marked processed, no row of that charge is
\* pending, now or later, unless the job looked for the row before the buyer's
\* handler had written it: the job returns at its first line from now on.
ProcessedMeansSettled ==
  \A e \in Jobs, p \in Purchases :
    /\ event[e] = "processed" /\ ChargeRef[p] = EventRef[e]
    /\ "early" \notin mishap[e]
    => topup[p] # "pending"

\* Money collected for a purchase whose row was written ends as coins or as a
\* job in the failed set, which worker.ts reports, whatever crashes, stalls and
\* lost deliveries come between: only a handler that was cut down, a failed
\* enqueue or a webhook that came before the row can leave it without either.
CollectedIsCreditedOrReported ==
  \A p \in Purchases :
    (charge[ChargeRef[p]] = "collected" /\ topup[p] # "none") ~>
      \/ credits[p] > 0
      \/ buyer[p].at = "cut"
      \/ \E e \in Jobs : /\ EventRef[e] = ChargeRef[p]
                         /\ job[e].state = "failed" \/ mishap[e] # {}

\* The word the code credits on: the gateway collected the charge, or a webhook
\* event about it is stored, whatever that event reports.
Confirmed(p) ==
  \/ charge[ChargeRef[p]] = "collected"
  \/ \E e \in Jobs : EventRef[e] = ChargeRef[p] /\ event[e] # "none"

\* What a sale of coins promises, and the state of this module as a sale.
saleOf == [p \in Purchases |->
  IF credits[p] > 1 THEN "overdelivered"
  ELSE IF credits[p] = 1 THEN "delivered"
  ELSE IF Confirmed(p) THEN "confirmed" ELSE "open"]

Sale == INSTANCE CoinSale WITH Sales <- Purchases, sale <- saleOf
SaleSpec == Sale!Spec
=============================================================================
