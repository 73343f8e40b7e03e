------------------------------- MODULE Checkout -------------------------------
(****************************************************************************)
(* POST /api/payments/buy-coins and POST /api/creators/cashout as           *)
(* src/routes/payments.ts and src/routes/cashouts.ts mount them: the        *)
(* middleware of module Idempotency in front of the handlers of modules     *)
(* Topups and Cashouts.  The middleware sees of a handler what it answers;  *)
(* the handler sees of the middleware that it runs at all.  The header      *)
(* alone is the key that a gateway replays, whereas the cache also compares *)
(* the endpoint and the user (or, without a valid access token, the         *)
(* wallet).  Nothing else compares either: neither topups nor cashouts has  *)
(* a unique index on idempotency_key.                                       *)
(*                                                                          *)
(* Webhooks, their jobs and payout jobs are left to the runs of Topups and  *)
(* Cashouts.                                                                *)
(****************************************************************************)
EXTENDS Idempotency

CONSTANTS
  CashoutCalls,  \* the requests to cash out; the others buy coins
  Headers,
  HeaderOf,      \* the Idempotency-Key each request carries
  Creators, Approved, Owner, Amount, MinCashout, Opening,  \* as in Cashouts
  HandlerFaults  \* what may go wrong in a handler, see Topups and Cashouts

VARIABLES
  charge, buyer, topup, credits,     \* as in Topups, a purchase per request
  balance, request, status, payout,  \* as in Cashouts, the payout queue's jobs
  lost                               \* history: requests whose answer was not kept

Purchases == Requests \ CashoutCalls

T == INSTANCE Topups WITH
  Refs <- Headers, ChargeRef <- HeaderOf, NoPurchase <- NoResponse,
  Faults <- HandlerFaults \ {"enqueue"}, Hooks <- {}, Jobs <- {}, Slots <- {},
  EventRef <- <<>>, Reports <- <<>>, MaxAttempts <- 1, MaxStalls <- 0, Zombies <- FALSE,
  NoJob <- NoResponse, NoSlot <- NoResponse,
  event <- <<>>, hook <- <<>>, exec <- <<>>, mishap <- <<>>, job <- <<>>, slot <- <<>>

\* No payout job is executed, so nothing is paid out, refunded or confirmed.
C == INSTANCE Cashouts WITH
  Jobs <- CashoutCalls, Keys <- Headers, Key <- HeaderOf, Faults <- HandlerFaults \cap {"enqueue"},
  Rate <- [r \in CashoutCalls |-> 1], HasGateway <- [r \in CashoutCalls |-> TRUE],
  Notices <- {}, Slots <- {}, MaxAttempts <- 1, MaxStalls <- 0, Zombies <- FALSE,
  NoJob <- NoResponse, NoSlot <- NoResponse,
  hasRef <- [r \in CashoutCalls |-> FALSE], refunds <- [r \in CashoutCalls |-> 0],
  transfer <- [h \in Headers |-> 0], outcome <- [h \in Headers |-> "none"],
  exec <- <<>>, notice <- <<>>, job <- payout, slot <- <<>>

ASSUME CheckoutAssumption ==
  /\ CashoutCalls \subseteq Requests
  /\ HeaderOf \in [Requests -> Headers]
  /\ \A r, q \in Requests : KeyOf[r] = KeyOf[q] =>
       HeaderOf[r] = HeaderOf[q] /\ (r \in CashoutCalls <=> q \in CashoutCalls)
  /\ Approved \subseteq Creators
  /\ Owner \in [CashoutCalls -> Creators]
  /\ Amount \in [CashoutCalls -> Nat \ {0}]
  /\ MinCashout \in Nat
  /\ Opening \in [Creators -> Nat]
  /\ HandlerFaults \subseteq {"gateway", "api", "enqueue"}

moneyVars == <<charge, buyer, topup, credits>>
debitVars == <<balance, request, status, payout>>
checkoutVars == <<vars, moneyVars, debitVars, lost>>

CheckoutInit == Init /\ T!Init /\ C!Init /\ lost = {}

-----------------------------------------------------------------------------
\* A handler has written its row: topups or cashouts has one of this request.
Written(r) == IF r \in CashoutCalls THEN status[r] # "none" ELSE topup[r] # "none"

\* The row and what has to follow it are there: recordTopupResult returned, or
\* the payout queue took the job.
Recorded(r) ==
  /\ Written(r)
  /\ IF r \in CashoutCalls THEN payout[r].state # "absent"
     ELSE T!CreditsNow(buyer[r].reply) => credits[r] > 0

\* The charge, or the checks on the profile, are not behind the handler.
Undecided(r) == IF r \in CashoutCalls THEN request[r] = "idle" ELSE buyer[r].reply = "none"

\* The next thing the handler does may be to answer: a cashout once its job is
\* enqueued or a statement threw, a purchase once it is recorded.
Returns(r) == IF r \in CashoutCalls THEN request[r] # "enqueue" ELSE buyer[r].at \in {"idle", "cut", "done"}

\* Where res.json goes on: 201 and 202 are cached; so is a 4xx, an invalid body,
\* a missing card or one that wants authentication, a profile without approval
\* or balance; 500 and 502 are not.
ContinuationsOnly200(r) ==                                         \* mutant
  IF Undecided(r) THEN {"store", "unlock"} ELSE {"unlock"}
Continuations(r) ==
  IF Undecided(r) THEN {"store", "unlock"}
  ELSE IF Recorded(r) THEN {"store"} ELSE {"unlock"}

\* The handler of a request performs its next statement.
Work(r) ==
  /\ at[r] = "run"
  /\ \/ r \in Purchases    /\ T!PurchaseStep(r) /\ UNCHANGED debitVars
     \/ r \in CashoutCalls /\ C!RequestStep(r)  /\ UNCHANGED moneyVars
  /\ UNCHANGED <<vars, lost>>

Respond(r) ==
  /\ Returns(r)
  /\ RunHandler(r)
  /\ at'[r] \in Continuations(r)
  /\ UNCHANGED <<moneyVars, debitVars, lost>>

Middleware(A) == A /\ UNCHANGED <<moneyVars, debitVars, lost>>

Keep(r) ==
  /\ StoreResponse(r)
  /\ lost' = IF cache'[KeyOf[r]] = r THEN lost ELSE lost \cup {r}
  /\ UNCHANGED <<moneyVars, debitVars>>

Settle(h) == T!GatewaySettles(h) /\ UNCHANGED <<vars, debitVars, lost>>

Arrive(r) == Middleware(Look(r))
Proceed(r) == Middleware(TryLock(r)) \/ Work(r) \/ Respond(r) \/ Keep(r) \/ Middleware(DeleteLock(r))
Cut(r) == Middleware(CheckFails(r)) \/ Middleware(CrashRequest(r))
Expire(k) == Middleware(ExpireLock(k))

CheckoutNext ==
  \/ \E r \in Requests : Arrive(r) \/ Proceed(r) \/ Cut(r)
  \/ \E k \in Keys : Expire(k)
  \/ \E h \in Headers : Settle(h)

\* A request that is being handled goes on (or crashes), and time passes.
CheckoutFairness ==
  /\ \A r \in Requests : WF_checkoutVars(Proceed(r))
  /\ \A k \in Keys : WF_checkoutVars(Expire(k))

CheckoutSpec == CheckoutInit /\ [][CheckoutNext]_checkoutVars /\ CheckoutFairness

-----------------------------------------------------------------------------
(* What a client who repeats a request relies on.                          *)

TwoRows(r, q) == r # q /\ HeaderOf[r] = HeaderOf[q] /\ Written(r) /\ Written(q)

\* The request died, was answered 500 half-way, or its answer was not kept.
CutShort(r) ==
  \/ at[r] = "dead"
  \/ at[r] \in {"unlock", "done"} /\ ~Recorded(r)
  \/ r \in lost

\* A client who awaits each answer before repeating a request pays for a second
\* topup, or is debited for a second cashout, under one key only if one of the
\* two was cut short after it had written its row, or another node served it:
\* the cache, and not the database, tells them apart.
OneRowPerKey ==
  \A r, q \in Requests :
    KeyOf[r] \in Careful /\ KeyOf[q] = KeyOf[r] /\ TwoRows(r, q) =>
      CutShort(r) \/ CutShort(q) \/ ~OnOneNode(r, q)

\* One node writes one row at most under a careful key.
OneRow ==
  \A r, q \in Requests :
    KeyOf[r] \in Careful /\ KeyOf[q] = KeyOf[r] /\ OnOneNode(r, q) => ~TwoRows(r, q)

\* "buy-coins idempotency (same key twice => one topup)" (README.md, Testing).
SameKeyOneTopup == \A r, q \in Purchases : ~TwoRows(r, q)
=============================================================================
