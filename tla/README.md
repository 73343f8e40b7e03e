# A TLA+ verification of the GCW money server

The server (`src/src`, TypeScript on Express, Postgres, Redis and BullMQ) sells coins, lets viewers
send them as gifts to creators, and pays creators out. This directory models the parts that move
money and the accounts, sessions and cards they rest on, model-checks them with TLC on small instances,
and proves the main safety properties with TLAPS for instances of any size. Paths below are relative to the repository's own `src/` directory
unless they start with `README`.

How to run it, in this directory:

    tlc -workers 2 -config MCTopups_races.cfg MCTopups.tla      # any run of PROJECT.json
    tlapm TopupsProofs.tla                                      # any proof module

## 1. The system

An API process (any number of replicas) serves HTTP; a worker process (any number of replicas) runs
BullMQ jobs. They share Postgres, which they use at its default isolation (read committed) and with
transactions around some groups of statements, and Redis, which holds the queues, the idempotency
cache, the rate limits and the leaderboards. Payment gateways are called from both and call back
with webhooks. Handlers are `async` functions: between two `await`s on Postgres, Redis or a gateway
any other handler or job may run.

### Inventory

| Component | State | Operations | Interacts with | Hard behaviour |
|---|---|---|---|---|
| Coin purchases: `routes/payments.ts`, `routes/cards.ts` (confirm), `payments/topup.ts`, `ledger/wallet.ts` | `topups`, `wallets`, `wallet_ledger` | charge, insert the row, credit the wallet | gateways, webhook job (same rows) | crash between insert and credit; a charge that throws after it collected; the webhook arriving first |
| Webhook intake: `routes/webhooks.ts` | `webhook_events` | select, insert (unique), enqueue, answer 200 | gateways, webhook queue | duplicate and concurrent deliveries; failure between insert and enqueue |
| Webhook job: `jobs/webhook-retry.job.ts` | `topups`, `cashouts`, `webhook_events` | read the event, settle a topup or confirm a cashout, mark processed | purchases, cashouts | retried, redelivered and concurrent executions; row read outside the transaction that updates it |
| Cashout requests: `routes/cashouts.ts`, `ledger/creator.ts` | `cashouts`, `creator_profiles.payout_balance_cents`, `creator_ledger` | check, debit and insert, enqueue | payout queue | concurrent requests on one balance; failure between debit and enqueue |
| Payout job: `jobs/payout.job.ts` | `cashouts`, balance, ledger | mark processing, call the gateway, record, refund on the final attempt | gateways, e-mail queue, webhook job | timeouts, retries, stalls, exceptions inside and outside the try block |
| Queues and worker: `jobs/queues.ts`, `worker.ts` | BullMQ jobs in Redis | add, start, complete, fail, stall | all jobs | at-least-once execution, lost locks |
| Gifts: `routes/gifts.ts`, `tiers.ts`, `money.ts`, `ledger/*` | wallets, `gift_events`, `creator_profiles`, Redis boards | read wallet and profile, the gift transaction, leaderboards | leaderboards, sockets | concurrent gifts to one creator or from one wallet; failure after the commit |
| Idempotency: `idempotency.ts` | Redis cache and lock per key | look up, lock, run, cache, unlock | every money-moving route | check and lock are two commands; the lock expires |
| Promotion and reconciliation: `jobs/promote-pending.job.ts`, `jobs/reconcile.job.ts` | balances, `creator_ledger` | move matured earnings, compare sums | gifts, cashouts | overlapping executions, the marker row |
| Sessions: `auth/jwt.ts` | `refresh_tokens` | issue, rotate, revoke a family | accounts | two refreshes with one token; crash between insert and revoke |
| Accounts: `auth/routes.ts`, `auth/middleware.ts`, `auth/totp.ts` | `users`, verification and reset tokens | sign up, verify, reset, 2FA set-up / enable / disable | sessions, e-mail queue, creator profiles | five statements of a sign-up without a transaction; a token used twice at once; 2FA set up again while enabled, or disabled while being enabled |
| Saved cards: `routes/cards.ts`, `gateways/stripe-cards.ts` | `saved_payment_methods`, `wallets.stripe_customer_id` | set-up intent, customer compare-and-set, default card | purchases | two first cards at once |
| Creator profiles and KYC: `routes/creators.ts`, `routes/kyc.ts` | overlay token, `kyc_status` | compare-and-set of the token, regeneration, submission | accounts (who creates the profile), cashouts (kyc gate) | concurrent first reads; a profile that is missing |
| Streams, challenges, leaderboards | their rows, Redis boards | single-statement updates | gifts | none that spans two rows |
| Public pages, moderation, notifications, sockets, e-mail, FX, HTTP application, infrastructure | - | reads, single inserts, I/O | - | no invariant between rows |

### What makes each correct

* Purchase: a charge is turned into coins at most once, only if it was collected (this commit: collected, or
  reported on by a webhook, whatever it reports), and eventually once it is collected and recorded.
* Webhook intake: an event that was acknowledged is processed.
* Cashout: no balance is overdrawn; a debit is followed by a payout or a refund and never by both;
  it is marked paid when its money moved, and stays so.
* Gift: no wallet is overdrawn; a creator's coins and level are those that the gifts add up to; fee and
  share add up to the gift.
* Idempotency: handlers of one key exclude each other; a cached response is replayed.
* Promotion: each matured ledger row moves to the payout balance once, and the balances always equal the ledger.
* Session: a family has one live token, only reuse is treated as reuse, and an ended family stays ended.
* Saved card: a wallet has one Stripe customer, at most one default card, and keeps one once it has one.
* Account: who is welcomed owns the account; a reset token is spent once its use was answered; nobody who
  makes one 2FA call at a time is locked out, whatever dies half-way.
* Creator profile: of the overlay tokens that concurrent first reads generate one is ever handed out.
* Purchase and cashout behind the middleware: one key, one topup or one cashout, unless the first request was cut short or
  the next one went to another node.

## 2. The modules

| Module | Models | Built on |
|---|---|---|
| `JobQueue` | one BullMQ queue and its worker slots: jobs wait, are executed, fail, are retried and stall | - |
| `CoinSale` | abstract: a purchase is unpaid, paid, delivered | - |
| `Topups` | purchases, webhook intake and the topup half of the webhook job | `JobQueue`; implements `CoinSale` |
| `Withdrawal` | abstract: a cashout is owed, then sent or returned | - |
| `Cashouts` | the cashout request, the payout job and the cashout half of the webhook job | `JobQueue`; implements `Withdrawal` |
| `Tiers` | levels and the fee split | - |
| `Gifts` | the gift handler and its retries | `Tiers` |
| `Idempotency` | the middleware | - |
| `Checkout` | buy-coins and cash-outs: the middleware in front of the handlers | `Idempotency`, `Topups`, `Cashouts`; implements each of them |
| `Promotion` | a creator's pending and payout balance and ledger, the hourly promotion, the reconciliation | - |
| `Sessions` | refresh-token families | - |
| `Cards` | set-up intents, the wallet's customer, saved and default cards | - |
| `Accounts` | sign-up, verification, reset, 2FA, overlay token, KYC submission, wallet link | - |
| `MCTopups`, `MCCashouts`, `MCGifts`, `MCCheckout`, `MCPromotion`, `MCSessions`, `MCCards`, `MCAccounts` | the constants of the TLC runs | the module of that name |
| `JobQueueProofs`, `TopupsProofs`, `CashoutsProofs`, `GiftsProofs`, `IdempotencyProofs`, `PromotionProofs`, `CardsProofs`, `AuthProofs` | theorems | the module of that name; `IdempotencyProofs` also `Checkout`, `AuthProofs` both `Sessions` and `Accounts` |

Conventions. A step is one statement, transaction or external call; what the code does between two of
them is part of the first. An actor (a handler, an execution of a job) is a record whose `at` names the
statement it is about to perform and whose other fields are the local variables that are still needed:
this is how a value read before an `await` and used after it becomes visible. What may go wrong is the
constant set `Faults`; its members are named in `FaultKinds` (`Accounts` has one kind, `MayFail`: the call ends). A definition marked `\* mutant` is a
plausible bug in the definition below it; it is not part of the specification. `PROJECT.json` maps each
definition to the lines it stands for.

### JobQueue

`job[j]` is what Redis knows of a job (state, the slot that holds its lock, `attemptsMade`, stalls) and
`slot[s]` what a worker execution is running. `Start`, `Complete`, `Fail`, `Crash` and `Stall` are
BullMQ's; `queues.ts` supplies the number of attempts. Back-off delays are left out: a job to be retried
waits. `Zombies` says whether a worker that lost its lock may go on executing; BullMQ then drops the
outcome (`HoldsLock`) but not what the processor did to Postgres.

### Topups

The handler of a purchase: `ChargeAtGateway` (or `ChargeThrows`), `InsertTopup`, `CreditTopup`. The
webhook route: `Deliver` (the select), `StoreEvent` (insert or lose against the unique index),
`EnqueueEvent`. The job: `ReadEvent`, `ReadTopup`, `SettleTopup` (a transaction), `MarkProcessed`. The
gateway decides a charge at once or later (`GatewaySettles`), replays a repeated idempotency key, and
posts an event when the charge is in a state the event may report (`Reports`), collected or declined in the runs, until it is acknowledged:
the webhook may come before the row is written, and of a charge that failed. Which of the two it reports is not in the job's steps, as the job
does not read it. `StripeReplies`,
`WaafiPayReplies` and `PromptReplies` are what the adapters of `gateways/` can answer to a fresh charge.
Amounts are left out, since every credit of a purchase has the same amount: `credits[p]` counts ledger rows.
Three things may leave a charge without its coins for good: the handler dies before the row or the credit (`buyer[p].at = "cut"`), the enqueue of
a stored event fails (`"dropped"`), and the job looks for the row before it is written (`"early"`). The history `mishap` records the last two for each event
and influences nothing. The properties hold under every fault, excepting the purchase or event to which exactly this has happened.

### Cashouts

The request: `CheckProfile` on a snapshot, `DebitAndInsert` (a transaction that rolls back on a negative
balance), `EnqueuePayout`. The job follows `processPayoutJob` statement by statement, with the try
block's exits leading to `Catch` and all others to `Fail`. `FindPayout` and `ConfirmPayout` are the webhook's half. The gateway takes one payout per
idempotency key (`transfer`); `outcome` says what became of it: it has moved the money when the gateway answers `paid`, is under way when it was accepted
(`processing`, `pending`), and such a payout later arrives or comes back (`GatewayEnds`). A webhook may be about a payout in any of these states, since the job finds its
cashout by the reference and reads no status. In what follows a debit is *sent* when the gateway has taken its payout, accepted ones included: the code has no
path that returns the money of an accepted payout. A gateway's answer `"failed"` is left out: no gateway of this commit gives it.

### Gifts and Tiers

`ReadWallet`, `ReadProfile`, then `SendGift` or `RefuseGift` (the transaction, whose conditional update
decides), then `RankGift`. `SendGift` writes `lifetimeCoins` and `currentLevel` from what was read before
the transaction, as the code does, and the other columns relative to what they are. `given` and `sent`
count the `gift_events` rows. Cuts are whole percents and `Math.round` is integer rounding, halves up;
the two agree exactly for every amount up to 2 000 000 cents (checked by evaluating both). ioredis repeats a command whose reply was lost with the
connection, so that a `zincrby` that is answered took effect up to `Resends` times more than once, and one that throws any number of times up to that. The sender
leaderboard of a stream is the board that may fail first and is otherwise left out.

### Idempotency

`Look` (GET), `TryLock` (SET NX EX 30), `RunHandler`, `StoreResponse` (SET), `DeleteLock` (DEL),
`ExpireLock`. The SET and the DEL are not awaited by the code: they are sent when the answer is, and a request whose handler has answered
is past `RunHandler` for its client while they are still on their way. A key in `Careful` belongs to a client that sends a request again only when
none under the key is unanswered (`Awaited`); it does not know of the two commands. `Nodes` are the API processes, each with
one connection, whose commands Redis executes in the order they were sent: `InOrder` makes a command of a later request wait for those its own node
sent earlier, and for no other node's. The 24 hours of the cache are left out: the model is about one day.

### Checkout

`POST /buy-coins` and `POST /creators/cashout` as they are mounted. `Arrive`, `Proceed`, `Keep` and `Cut` are the middleware's steps, `Work` and `Settle` those of
an instance of `Topups` without webhooks and of the requests of an instance of `Cashouts`, one purchase or cashout per request. They meet in `Respond`: the middleware's `RunHandler` stands for any
handler, here it answers when the handler of the request may (`Returns`), and `Continuations` says which answers are cached (below 500). `KeyOf` is the
cache key of the code (user or wallet, endpoint, header), `HeaderOf` the Idempotency-Key alone, which is what the gateway compares.
`lost` records the requests whose answer did not get into the cache and influences nothing.

### Accounts

A call is one HTTP request, a step of it one statement or queue command; no handler of these routes opens a transaction. `call[c]` says where
a request is and what it read at its first step (`seen`: the token or code that was presented, later the overlay token it will answer).
`Request` lists the first steps: each is the handler's select with the checks on what it returned, which decide
between going on and a refusal. `Handle` lists the later statements, and `Fails` ends a call before any of them: an exception, the death of the process
or a lost answer. Passwords, secrets and tokens are random, so each is named by the call that chose it; a user can
present a mailed token and a code of any secret a set-up call has shown them (`Authenticator`). An expired row is like a deleted one.
A user in `CarefulUsers` makes one 2FA call at a time, sets 2FA up only while `GET /auth/me` says that it is disabled, and uses one reset token at a time.
`user[u].id` is the call whose insert made the row; a registered user's is `None`. Login changes no row of these tables:
what it and `require2FA` ask for is the operator `LoginAccepts`, and its session is in `Sessions`. The two modules share no state, and only
their proof module extends both: hence the prefixes of `AccountInit`, `AccountNext` and `AccountSpec`.

### Promotion

`CreditPending`, `Debit` and `Refund` are the transactions of `ledger/creator.ts`, each with its ledger
row; `Cashouts` models what decides about the last two. An execution of the hourly job is `SelectMatured` and then
`PromoteRow` for each row it selected, in any order; `StopRun` is an exception or the worker's death. The marker is
a row of the ledger that changes no sum, so `markers[e]` counts it apart. `RefIdFits` is FALSE in the schema of this
commit: `ref_id` is a `uuid` and is given the `bigserial` id of a ledger row, so that the insert of the marker throws and
`PromoteRow` cannot happen. With `RefIdFits = TRUE` the module checks the rest of the design.
`Overlap` says whether executions may overlap; `worker.ts` runs them one at a time per process.

### Sessions

`Login` inserts a family's first token. A refresh is `Present` (the select, which decides between rotation,
expiry and reuse), then `InsertNext`, `RevokeOld` and `Answer`, or `RevokeFamily`: statements
without a transaction, so `DiesHalfWay` is possible. Tokens of a family are numbered by insertion. A
family in `Careful` belongs to a client that presents the last token it received, and only when none of its requests is
under way; any other client sends any token it ever received, whenever it likes (two tabs, an old copy).
`presented`, `ended` and `unlucky` record what happened and influence nothing.

### Cards

`ReadWallet`, `CreateCustomer`, `StoreCustomer` (the guarded update), `RereadCustomer` and `CreateIntent` are
`/setup-intent`; `ReadCustomer`, `VerifyIntent`, `ClearDefault`, `CommitCard` and `RefusedByIndex` the part of `/confirm`
before the charge. The transaction has two steps because at read committed its two statements see different
data: `seen` is what the update's snapshot contains, `cleared` what it changed and locks, and the
partial unique index decides at the insert. A payment method belongs to the set-up intent it was entered for.

## 3. The runs

| Run | Question | Bounds |
|---|---|---|
| `topups_races` | Under every fault: is a charge ever credited twice or before the gateway's word, is the whole a `CoinSale`, does collected money whose row was written end as coins, in the failed set, or at a named mishap? | 1 purchase, 1 event, delivered by 2 handlers, 2 workers, 3 attempts, 2 stalls |
| `topups_declined` | violation: a webhook about a declined charge credits it | the same, no fault |
| `cashouts_balance` | Is a balance overdrawn, a cashout marked paid that the gateway only accepted and no webhook is about, or a payout job completed without a payout or a refund, under every fault, shared keys and zombies? | 3 cashouts of one creator whose balance covers 2, 1 worker, 1 attempt, 1 stall, 1 payout webhook |
| `cashouts_settles` | With a gateway that fails only by refusing, is every debit sent or returned, never both? | 2 cashouts, 2 workers, 2 attempts |
| `gifts_races` | Are coins, earnings or levels invented, or wallets overdrawn? | 3 gifts, 2 from one wallet, one creator 100 coins below level 2, 2 tries each, no command sent twice |
| `checkout_retries` | Do handlers overlap, do careful clients get replays, are locks freed, and when does a retried request make a second topup or a second cashout? | 8 requests: 2 purchases and 3 cashouts under two keys whose clients wait, and 3 cashouts under one whose client does not; the second of each 3 goes to another node; a balance that covers 2; the three groups are explored one at a time |
| `accounts_calls` | Does a welcomed user own the account, is anyone locked out, does a token work twice, are two overlay tokens handed out? | 4 calls, sign-ups and either calls about the profile and wallet or calls about passwords and 2FA; a registered user who is careful and an address that can sign up |
| `promotion_balances` | Is every cent in one balance, moved once and in the end, and does the reconciliation ever see a drift? | 3 earnings and 2 cashouts of 2 creators, the earnings of 1 and 2 cents, 2 executions that take turns |
| `sessions_families` | Has a family one current token, is only reuse detected, does an ended family stay ended? | 3 refreshes of a careful client, 2 of another, 4 tokens a family |
| `cards_races` | One customer, one default card, no lost default? | 4 set-ups, 3 of one wallet and 2 of these under one key; 4 saves, 1 of another wallet's card |
| `gifts_tier` | violation: concurrent gifts lose coins and a level | 2 gifts race |
| `promotion_stuck` | violation: no matured earning ever becomes payable | `RefIdFits = FALSE` |

Why the bounds are enough. Every race the properties speak of is between two actors on one row (two
executions of one job, two deliveries of one event, a handler and a job, two requests on one balance), so
two of each, or three where the third must be the one refused, show it; a second cashout or
key is there so that actors can also be at work on different rows. Purchases whose keys differ share no row, and no event, and meet only where a webhook handler
or a worker is busy with the other one: one is enough, and leaves room for three attempts and two stalls. Two attempts have a first
and a final one, which is all `isFinalAttempt` distinguishes; one stall shows an execution after a
dead one. `gifts_races` has `Resends = 0`: with 1 its boards are the only thing that multiplies (it passes with one try for each request), and
`BoardsShowEarnings` is proved for every number. Amounts are chosen so that two of three cashouts are covered, and a gift crosses a
milestone alone or only together with another. For the safety theorems below the bounds do not matter.
Keys of `Checkout` with different headers share no state but the balance (how requests compete for that is the question of `cashouts_balance`), so the
constraint `OneKeyInUse` leaves out only the behaviours that interleave independent ones. Four calls of `Accounts` suffice for a sign-up racing another one,
for a set-up, an enabling, a second set-up and a disabling, and for two requests and two uses of reset tokens;
`OneConcern` leaves out only the behaviours that interleave calls which, a sign-up apart, share no column or table.
Runs without liveness properties use symmetry of workers and webhook handlers (or payout webhooks, refreshes of one
family, account calls), which no definition tells apart. All runs but those of `Promotion`, whose jobs recur, say `CHECK_DEADLOCK FALSE`: the
system rests when the given requests are done.

### Fairness

Weak fairness (with the two exceptions below), and only where the code schedules the step: an `await` that returns is followed by the
next statement (handlers, executions, requests past the middleware); BullMQ hands waiting jobs to free
workers and checks for stalled ones; a gateway repeats a webhook until it gets a 2xx
answer; a Redis key with a TTL expires. Never assumed: that a purchase, a cashout or a request is made,
that a charge settles, that an accepted payout ends, that a payout webhook arrives, that a fault happens or stops happening. A job that keeps failing ends in the
failed set, so liveness is stated with that outcome, which `worker.ts` reports to Sentry. The first exception is `StoreEvent`: any delivery may
fail, but the gateway posts the event until it is acknowledged, and strong fairness says that not every one of these deliveries dies before the insert. The second is `Promotion`: a run may
die at any row, but the next hour brings another one, and strong fairness of `PromoteRow` says that runs do not die at the
same row for ever; without it an unlucky row would justify any delay.

## 4. What is proved

For any number of purchases, events, cashouts, creators, gifts, requests, families, wallets, workers and any bounds:

| Theorem | Property | Assumptions |
|---|---|---|
| `TypeCorrect` of `TopupsProofs`, `CashoutsProofs`, `GiftsProofs`, `IdempotencyProofs`, `CardsProofs` and, for `Sessions`, of `AuthProofs` | `TypeOK` of that component | none |
| `TopupsProofs!NoDoubleCredit` | `CreditedAtMostOnce` | distinct keys, one event per charge, no zombies |
| `TopupsProofs!NoUnconfirmedCredit` | `CreditedOnlyWhenConfirmed` (no run of its own; `SaleSpec` contains it): no credit before the gateway's reply or a stored event | none |
| `TopupsProofs!NoEventLost` | `StoredReachesQueue` | none |
| `TopupsProofs!SucceededRowsAreCredited` | `SucceededIsCredited` | none |
| `TopupsProofs!ProcessedIsSettled` | `ProcessedMeansSettled` | distinct keys |
| `TopupsProofs!TopupsImplementCoinSale` | `SaleSpec` | those of `NoDoubleCredit` |
| `CashoutsProofs!NeverOverdrawn` | `BalanceNonNegative` | none |
| `CashoutsProofs!PaidOnlyOnWord` | `PaidOnWord` | none |
| `CashoutsProofs!NoDebitIsLost` | `DebitedReachesQueue` | the enqueue does not fail |
| `CashoutsProofs!NoneCompletesUnsettled` | `CompletedIsSettled` | none |
| `CashoutsProofs!OnlyStallsEndUnsettled` | `SettledUnlessStalled` (no run of its own): the same of failed jobs that did not run out of stalls | no failure outside the try block, a gateway for every method; workers may crash |
| `CashoutsProofs!NoneEndsUnsettled` | `SettledWhenJobEnds` | those, no crash of a worker, no zombies |
| `CashoutsProofs!RefundedAtMostOnce` | `AtMostOneRefund` (no run of its own) | no crash of a worker, no zombies |
| `CashoutsProofs!RefundedStaysFailed` | `RefundedIsFailed` | those, and the e-mail after a payment is enqueued |
| `CashoutsProofs!PaidStaysPaid` | `PaidIsFinal` | the same; timeouts, statements that fail and shared keys are allowed |
| `CashoutsProofs!CashoutsImplementWithdrawal` | `WithdrawalSpec` | only refusals and lost enqueues, distinct keys, no zombies |
| `GiftsProofs!FeeSplitConserves`, `HigherLevelKeepsMore` | arithmetic of a gift, for every amount | none |
| `GiftsProofs!WalletsNeverOverdrawn`, `LifetimeIsGiven`, `CutsAreEarned`, `LevelsAgreeWithCoins` | `WalletNonNegative`, `LifetimeNeverOverstates`, `NoUnearnedCut`, `LevelsFollowMilestones` | none |
| `GiftsProofs!BoardsShowEarnings` | `BoardsNeverOverstate` | none |
| `GiftsProofs!BoardsShowEarningsOnce` | `BoardsAreEarned` (no run of its own) | no command is sent twice |
| `IdempotencyProofs!CarefulRetriesAreReplayed` | `RetriesOnOneNodeAreReplayed` | none; the property is about keys in `Careful` |
| `IdempotencyProofs!SecondRowNeedsACut` | `OneRowPerKey`, for `CheckoutSpec` | none; the property is about keys in `Careful` |
| `IdempotencyProofs!UncutPayOnce` | `OneRow` (no run of its own), for `CheckoutSpec` | no crash, no lost cache command, no failure between a row and its credit or its job; the property is about keys in `Careful` |
| `IdempotencyProofs!CheckoutImplementsIdempotency`, `CheckoutImplementsTopups`, `CheckoutImplementsCashouts` | `CheckoutSpec` implies `Spec`, `T!Spec` and `C!Spec`: what is proved of the three modules holds of `Checkout` | none |
| `IdempotencyProofs!HandlersExcludeEachOther` | `HandlersNeverOverlap` | no handler outlives its lock |
| `PromotionProofs!BalancesNeverDrift` | `NeverDrifts` | none; runs may overlap |
| `PromotionProofs!PromotedAtMostOnce` | `PromotedOnce` | runs do not overlap |
| `PromotionProofs!EveryCentIsInOnePlace` | `PendingIsUnpromoted` | the same |
| `PromotionProofs!TypeCorrect` | `TypeOK`: no balance is negative | the same |
| `AuthProofs!OnlyReuseIsReuse` | `ReuseWasReuse` | none |
| `AuthProofs!OneTokenIsCurrent`, `CarefulIsNotSignedOut` | `OneCurrentToken`, `CarefulStaysSignedIn` | none; the properties are about families in `Careful` |
| `AuthProofs!EndedFamiliesStayEnded` | `EndedStaysEnded` | none; the property is about families in `Careful` |
| `AuthProofs!AccountTypes`, `TheWelcomedOwn`, `OneTokenIsGenerated` | `AccountTypeOK` (no run of its own), `WelcomedOwnsAccount`, `OneLazyToken` | none |
| `AuthProofs!CarefulIsNotLockedOut`, `SpentIsSpent` | `NeverLockedOut`, `SpentStaysSpent` | none; the properties are about users in `CarefulUsers` |
| `CardsProofs!OneCustomerEach`, `OnlyRacesConflict`, `DefaultNeverLost` | `IntentsOnOneCustomer`, `ConflictWasRaced`, `DefaultStays` | none |
| `CardsProofs!SavedCardsAreChargeable`, `AtMostOneDefault` | `CardsOfCustomer`, `OneDefault` (no run of their own) | none |

The assumptions are hypotheses of the theorems (`ASSUME ... PROVE`), apart from the typing of the
constants (`TopupAssumption`, `CashoutAssumption`, ...), which TLC evaluates in every run. Section 5
lists, for most of them, what happens without it.

The arguments.

* **Queue.** `JobQueueProofs` shows once that a job's lock has one holder and that an execution holds
  its job's lock unless there are zombies (`ExecutorHoldsLock`); both components refine every step of
  theirs to a queue step or a stutter of the queue and inherit it. As long as no worker dies, an active job is the one its
  owner executes (`QueueStepKeepsActive`), and goes back to waiting only by that execution's failure (`WaitsAgainByFailing`). Whatever dies, an execution
  that holds its lock has the attempts of its job (`HeldJobIsKept`), a job ends by such an execution or by too many stalls (`HowJobsEnd`), and
  an ended job rests (`EndedJobRests`).
* **No double credit.** `CreditedAtMostOnce` is not inductive: nothing in it says that an execution about
  to settle a row still finds it pending. `CreditInv` adds that whoever is about to credit is alone: a row the handler
  is about to credit is `succeeded` and uncredited, and a row an execution is about to settle is `pending`. The second conjunct survives
  another execution's step because two executions at work on rows of one charge run the same
  event's job, and the job's lock has one holder.
* **No unconfirmed credit.** `ConfirmInv` carries the gateway's reply to the handler's credit, and the stored event through queue and execution to
  the job's. It needs nothing about what the event reports, and shows that nothing more is to be had: `CreditedOnlyWhenCollected` is violated.
* **Processed events.** `SettledInv` follows an event from the select of its job: an execution past it has settled the one row of the charge, found
  it settled, or found none, which is the mishap `"early"`. Rows are written once and never pending again, so what it found remains true when the event is marked.
* **Cashouts.** A chain of invariants, each about one thing and under the weakest assumptions it holds with; the first three hold under every fault.
  - `RequestInv`: a row comes before its job, a job before its executions, so that whatever is executed has a row.
  - `TransferInv`: a cashout that is paid, that an execution is about to record, or whose webhook is being handled was taken by the gateway;
    that is for good under every key (`SentIsForGood`).
  - `WordInvariant`: the payout of an execution about to record `paid` has moved, and what has moved does not come back (`MovedIsForGood`). It needs what each
    gateway answer says of `outcome`, also when a key is replayed whose payout was only accepted or has come back since.
  - `FinishInv`: an execution returns only when its cashout is `Settled`, be it by the early return for a paid row, by a payout or by the refund; and
    a job completes only by an execution that returns and still holds the lock (`CompletesByReturning`).
  - `AttemptInv` and `FailedInv` (no failure outside the try block): an execution that holds its lock counts attempts as the queue does, so that the one the queue takes
    for the last is the one the catch block takes for the last and refunds.
  - `UnstalledInv` (no crash, no zombies): the execution of an active job is the only one and no job stalls.
  - `RefundInv` (with it): a waiting job's cashout was not refunded, and an execution does nothing after its refund; the job that
    `WaitingAgain` puts back threw before anything that lasts.
  - `OutcomeInv` (and the e-mail does not fail): a cashout that can still be paid or refunded has no reference of the gateway, which an execution
    records last and by which alone a webhook finds the row. What could overwrite `paid` or a refund is therefore over.
  - `SendInv` (only refusals, distinct keys): what is at the catch block or the refund was not sent. With it a step of the
    job is a `Send`, a `Return` or a stutter (`OneCashoutAtATime`).
* **Gifts.** `GiftInv` adds to the invariants that what a handler read of `lifetime_coins` is at most what was
  given by now; since `given` only grows, the stale absolute write cannot overstate, and a level is monotonic in the coins. `BoardInv` is about sums
  over the set of gifts that are earned and not ranked yet. A sum over a finite set would need induction; it is written as the cardinality of the set of
  its cents (`CentsOf`, one element for each cent of each gift), and a ranked gift takes a disjoint interval of it away, which the library's
  theorems on cardinality prove. A resent command adds a multiple, which `ResentAdds` and `ResentIsMonotonic` keep linear.
* **Idempotency.** `LockInv`: a request between lock and unlock implies the lock, and is the only one under its key.
  `CarefulInv`: under a careful key one request is unanswered, and whoever it is has read the cache after every command that its node sent with
  an earlier answer, so that what it missed can since have been stored by another node only.
* **Checkout.** Each step is a step of the middleware or leaves it alone, and the same of each handler, so `CarefulInv` carries over. A row is written in `Work` only,
  which touches nothing of another request (`WorkEffect`, `OnlyWorkWrites`). `OneRowPerKey` needs to know what
  an empty cache says: `KeptInv`, a request that wrote its row and is over was cut short or something is cached under its key, and
  `FreshInv`, while a request of a careful key is unanswered, whoever wrote a row under the key on its node was cut short. Whoever writes a second row therefore finds the first writer cut short, and
  a cut lasts (`CutShortStays`). `UncutInv` says when there is none: a handler between its row and what has to follow it still runs, and cannot answer there (`WorkRecords`).
* **Promotion.** A transaction changes a balance and the ledger by the same amount, or moves an amount between the two
  balances and writes a row that changes no sum; two lemmas say so once and each action is an instance of one of them. That a row is
  promoted once needs `TakeTurns` (one run is at work) and `TodoIsUnmarked`: what that run still has to do has no marker.
  `MoneyInv` puts these together with `PlaceInv`, the pending cents are those of the unpromoted earnings, again as a cardinality of a set of cents: a promotion takes
  from it exactly what it adds to the payable balance, and so neither becomes negative.
* **Sessions.** A token that is not live although the family goes on was presented (`RevokedWasPresented`), and so was the one a
  refresh under way is about to replace (`WorkingHasPresented`); a refresh that detects reuse therefore saw a token presented twice
  or an ended family (`AccuserSawReuse`). For `EndedStaysEnded`, a careful client has one request under way (`OneAtATime`), so that
  none is past its select when the family ends (`NoRotationAfterEnd`).
  `CurrentInv`: an insert adds a live token and a refresh at `RevokeOld`, the revocation takes both away, and one that dies in between is counted in
  `unlucky`; the token a careful refresh exchanges is still live. `SignedInv`: what a careful client presents is the last token it has (`IsLast`), which is live until
  the answer with its successor is under way, so that no refresh of such a client gets to `RevokeFamily`.
* **Accounts.** `WhatHappens` says of every step that it begins a call, takes a call one statement further (`Does`, one line for each) or lets a token expire, and
  `RowChanges` what each makes of which column; the invariants are then about the few statements that touch their columns. `OwnerInv`: from its insert on a sign-up's row
  is its own. `ExclusiveInv`: a careful user has one 2FA call and one reset under way; therefore a secret that was proved is still the one that
  is stored when 2FA is enabled, and a secret is stored while it is disabled (`SecretInv`), and a row that a reset deletes was selected by no other that is still to set a
  password (`SpentInv`). `LazyInv`: an overlay token once generated is only ever replaced, so that the guarded update succeeds once, and every later
  reader finds a token.
* **Cards.** `SetupKnowsCustomer` and `SaveKnowsCustomer` say at each statement what a request's copy of the customer has to do with the
  stored one: a stored customer is never replaced, so that a copy does not become stale. `UnracedSeesDefault`: as long as no other save of
  the wallet commits, what a transaction sees of the default row is what is committed, and the index cannot refuse it.

Only model-checked: the liveness properties (`CollectedIsCreditedOrReported`, `EveryCashoutSettles`, `LockIsFreed`, `MaturedIsPromoted`), which are out of
the prover's reach. Every safety property of a passing run is a theorem, each under assumptions that the constants of its run satisfy; the type invariants that no run
lists are proved all the same. That `PendingIsUnpromoted` and `BoardInv` count cents as elements of a set is the one place where a property takes the
form the prover needs: the library's induction over finite sets cannot be instantiated, and `CentsOf(S, amount)` has as many elements as the amounts of `S` add up to.

## 5. Where code and words disagree

The three violation runs of section 3 are findings in `PROJECT.json`, each with the line it contradicts. The
following disagreements are reproduced by changing constants of a listed configuration and checking the named property alone.

| Property | Change | What happens |
|---|---|---|
| `CreditedAtMostOnce` | `topups_races` with `Jobs = {e1, e2}`, `EventRef <- TwoEvents`, `Reports <- OpenThenCollected`, `Faults = {}` | two events about one charge (their ids differ, so the dedupe of `routes/webhooks.ts:14` lets both pass) are handled by two workers that read the row as pending before either settles it (`jobs/webhook-retry.job.ts:25`): both credit it, where line 16 promises "already handled — idempotent no-op" |
| `SameKeyOneTopup` | `checkout_retries` with requests r1 and r2, `CashoutCalls = {}`, `KeyOf <- OneKey`, `HeaderOf <- OneKey`, `Careful = {}`, no fault | r2's GET misses before r1's answer is cached, its SET NX succeeds after r1's DEL: two topups under one key (`README.md:279`: "same key twice ⇒ one topup") |
| `SameKeyOneTopup` | the same with `Careful = {k1}`, `Faults = {"crash"}` | the process dies after the row was written; the retry replays the charge and writes, and if it was collected credits, a second row |
| `SameKeyOneTopup` | the same with `KeyOf <- KeyOfLogin`, both keys careful, no fault | the access token expires between a request and its retry; `optionalAuth` ignores it, the cache key changes from the user to the wallet (`idempotency.ts:29`) and the handler runs again |
| `OneRow` | `checkout_retries` with `Faults = {}`, `HandlerFaults = {"enqueue"}` | Redis refuses the payout job after the debit was committed: the 500 is not cached, and the retry under the same key debits the creator again ("Idempotency-Key required (and cached 24h in Redis) on all money-moving POSTs", `README.md:265`). Any of the other faults that `UncutPayOnce` excludes (`"set"`, `"crash"`, `"api"`) violates it too |
| `NobodyLockedOut` | `accounts_calls` with `CarefulUsers = {}` | a set-up stores a new secret between the check of a code and the enabling it allows, and its answer is lost: 2FA is enabled with a secret nobody has seen; or an enabling lands after a concurrent disabling and leaves 2FA enabled without a secret |
| `EverySpentStaysSpent` | `accounts_calls` with `CarefulUsers = {}` | two resets read a token's row before either deletes it: both set a password |
| `SubmissionShows` | `accounts_calls` with `CarefulUsers = {}` | a sign-up dies between its first two inserts, or has not reached the second; the user submits KYC, the update finds no profile and the answer is 201 ("Every signed-up user gets a creatorProfiles row at signup", `sockets/index.ts:60`) |
| `LinkedStaysLinked` | `accounts_calls` with `CarefulUsers = {}` | two users link one wallet: both find it unlinked, the second update overwrites the first (`routes/payments.ts:115-119`) |
| `PaidIsFinal` | `cashouts_settles` with `Faults = {"refused", "email"}` | enqueueing the e-mail throws inside the try block (`jobs/payout.job.ts:37`): on the final attempt a paid cashout becomes failed and is refunded |
| `SettledWhenJobEnds` | `cashouts_settles` with `HasGateway <- BankFirst` | `getGateway` throws outside the try block (`jobs/payout.job.ts:21`) for a bank account, which `routes/cashouts.ts:18` accepts: no refund |
| `RetriesAreReplayed` | `checkout_retries` with `Faults = {}`, `HandlerFaults = {}` | the answer of one API node reaches the client before its SET and DEL reach Redis; the next request goes to another node ("Multiple API nodes can run behind a load balancer", `README.md:44`), misses the cache, takes the lock after the DEL, and the handler runs again though the client waited ("the underlying handler never runs again", `idempotency.ts:13-14`; the commands are not awaited, lines 56-59). `OneRowPerKey` without `~OnOneNode(r, q)` fails in the same way: two rows, or two debits |
| `PaidHasArrived` | `cashouts_settles` with `Faults = {}` | a payout is accepted, and a webhook that says so, or that it came back, marks the cashout paid (`jobs/webhook-retry.job.ts:38-41`), against lines 10-11 of that file; `gateways/stripe.ts:35-37` wants that a cashout is never marked paid "without money actually moving". Nor does any path refund a payout that came back: it stays `processing` or becomes `paid` |
| `BoardsAreEarned` | `gifts_races` with `Resends = 1` | the connection drops after Redis executed a ZINCRBY; ioredis sends it again when it is back (`redis.ts:7-11` leaves its defaults), and the board counts the gift twice |
| `CachedNeverRunsAgain` | `checkout_retries` with `Careful = {}` | a request that missed the cache before the response was stored takes the lock after it was freed, and the handler runs again (`idempotency.ts:13-14` says it never does) |
| `PromotedOnce` | `promotion_balances` with `Overlap = TRUE` | two executions select a row before either has promoted it: "safe to run repeatedly" (`jobs/promote-pending.job.ts:14-15`) holds only for one at a time |
| `EveryEndedStaysEnded` | `sessions_families` | a refresh that read the rows before a logout or a reuse detection inserts its token after it, and the revoked family has a live token (`auth/jwt.ts:72`: "the entire family is revoked") |
| `CreditedAtMostOnce` | `topups_races` with `Purchases = {p1, p2}`, `ChargeRef <- SameCharge`, `Faults = {}` | two requests under one key that both passed the middleware replay one charge and credit it in two rows |
| `CreditedAtMostOnce` | `topups_races` with `Zombies = TRUE` | an execution that lost its lock settles the row its successor has settled |
| `WithdrawalSpec` | `cashouts_settles` with `Faults = {"timeout"}` | every attempt times out after the money moved; the last one refunds as well |
| `RefundedIsFailed` | `cashouts_settles` with `Faults = {"refused", "crash"}` | a worker dies after the refund commits; the job runs again on the failed cashout |
| `PaidIsFinal` | `cashouts_settles` with `Faults = {"crash"}` | a redelivered execution sets a cashout back that a webhook has just marked paid |
| `SettledWhenJobEnds` | `cashouts_settles` with `Faults = {"db"}` | a statement outside the try block fails on every attempt: no refund |
| `DebitedReachesQueue` | `cashouts_settles` with `Faults = {"enqueue"}` | Redis refuses the job after the debit was committed |
| `TransferredIsDebited` | `cashouts_settles` with `Rate <- LocalRates` | the gateway is asked for the local amount in US dollars (the local gateways of this commit are stubs) |
| `OneTransferEach` | `cashouts_settles` with `Key <- SharedKey` | two cashouts under one key are marked paid for one transfer |
| `HandlersNeverOverlap` | `checkout_retries` with `Faults = {"slow"}` | a handler that runs longer than 30 seconds is overtaken by a second one |

The exceptions that the properties of `topups_races` name are of the same kind:

* `"dropped"` in `StoredReachesQueue`: the webhook handler dies, or Redis refuses the job, after the event row is committed; the redelivery is answered as deduped
  ("Already processed (or in-flight)", `routes/webhooks.ts:44`) and the event is never processed.
* `"early"` in `ProcessedMeansSettled`: an event whose job runs before the row exists is marked processed without effect, and the row stays pending.
* `"cut"` in `SucceededIsCredited`: the API dies between the insert of a succeeded row and its credit, and no job looks for such rows.

In each case `CollectedIsCreditedOrReported` without that disjunct is what fails: collected money ends as neither coins nor a failed job.

## 6. Not modelled

Not modelled at all: HTTP parsing and validation, rate limits (they fail open and guard no state),
signature checks (they decide only whether a handler is entered), request formatting for gateways, sockets,
e-mail and FX jobs, public pages, moderation, metrics and schema migrations: pure I/O or single
statements without an invariant between rows. Nor is the seed data: `scripts/seed.ts` writes balances without ledger rows, so that the reconciliation drifts on a
seeded database. `Promotion` starts from empty balances and an empty ledger, and `NeverDrifts` is about databases that the server alone has written.

Of modelled components: `getOrCreateWallet` (a select and an insert; the loser of two first calls gets a 500 from the primary key and has
changed nothing), `PATCH /creators/profile` (one update of columns that nothing else reads), the wallet half of the reconciliation (each
wallet transaction writes balance and ledger row together), and KYC approval, for which the repository has no code.
