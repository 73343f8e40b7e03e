------------------------------- MODULE Cashouts -------------------------------
(***************************************************************************)
(* Cashing out.  POST /api/creators/cashout checks a snapshot of the       *)
(* profile, debits the payout balance and inserts the cashout in one       *)
(* transaction, then enqueues a payout job (src/routes/cashouts.ts,        *)
(* src/ledger/creator.ts).  The job pays through the gateway, retries, and *)
(* refunds on its final attempt (src/jobs/payout.job.ts).  A gateway       *)
(* webhook may mark the cashout paid (src/jobs/webhook-retry.job.ts).      *)
(*                                                                         *)
(* A step is one statement or transaction; the jobs of the queue are the   *)
(* cashouts.  The gateway is external: it takes one payout per idempotency *)
(* key, as Stripe's transfers.create does, and a payout it only accepted   *)
(* may later move the money or come back.                                  *)
(***************************************************************************)
EXTENDS JobQueue, Integers

CONSTANTS
  Creators, Approved,   \* creators, and those whose kyc_status is approved
  Owner, Amount,        \* creator_id and amount_cents of each cashout
  Rate,                 \* fx_rate of each cashout's destination
  HasGateway,           \* FALSE for destinationType "bank"
  Keys, Key,            \* idempotency_key of each cashout
  MinCashout,           \* MIN_CASHOUT_USD in cents
  Opening,              \* payout_balance_cents before the first cashout
  Notices,              \* webhook jobs about payouts that can run at once
  Faults

FaultKinds == {"refused", "timeout", "db", "email", "enqueue", "crash"}

ASSUME CashoutAssumption ==
  /\ Approved \subseteq Creators
  /\ Owner \in [Jobs -> Creators]
  /\ Amount \in [Jobs -> Nat \ {0}]
  /\ Rate \in [Jobs -> Nat \ {0}]
  /\ HasGateway \in [Jobs -> BOOLEAN]
  /\ Key \in [Jobs -> Keys]
  /\ MinCashout \in Nat
  /\ Opening \in [Creators -> Nat]
  /\ Faults \subseteq FaultKinds

VARIABLES
  balance,   \* creator_profiles.payout_balance_cents
  request,   \* where each cashout's request handler is
  status,    \* cashouts.status, "none" before the row exists
  hasRef,    \* whether cashouts.gateway_ref is set
  refunds,   \* how many creator_ledger rows refund each cashout
  transfer,  \* gateway: USD cents of the payout it has taken under each key
  outcome,   \* gateway: what became of that payout
  exec,      \* where each execution of processPayoutJob is
  notice     \* the cashout each payout webhook job is about to mark paid

payoutVars == <<status, hasRef, refunds, transfer, outcome>>
vars == <<balance, request, status, hasRef, refunds, transfer, outcome, exec, notice, job, slot>>

Outcomes == {"none", "underway", "moved", "returned"}
Statuses == {"none", "pending", "processing", "paid", "failed"}
ExecRecord == [at   : {"idle", "read", "mark", "unrouted", "call", "paid", "accepted",
                       "email", "catch", "refund", "finish"},
               made : 0 .. MaxAttempts]
IdleExec == [at |-> "idle", made |-> 0]

Init ==
  /\ QueueInit
  /\ balance  = Opening
  /\ request  = [c \in Jobs |-> "idle"]
  /\ status   = [c \in Jobs |-> "none"]
  /\ hasRef   = [c \in Jobs |-> FALSE]
  /\ refunds  = [c \in Jobs |-> 0]
  /\ transfer = [k \in Keys |-> 0]
  /\ outcome  = [k \in Keys |-> "none"]
  /\ exec     = [s \in Slots |-> IdleExec]
  /\ notice   = [n \in Notices |-> NoJob]

-----------------------------------------------------------------------------
(* The request.                                                            *)

\* The checks on the profile as it was read: kyc, minimum, balance.  A
\* request that fails one gets a 4xx and changes nothing.
Eligible(c) ==
  /\ Owner[c] \in Approved
  /\ Amount[c] >= MinCashout
  /\ Amount[c] <= balance[Owner[c]]

CheckProfile(c) ==
  /\ request[c] = "idle"
  /\ Eligible(c)
  /\ request' = [request EXCEPT ![c] = "debit"]
  /\ UNCHANGED <<balance, payoutVars, exec, notice, job, slot>>

\* The update returns the new balance, and the transaction is rolled back
\* when that is negative: concurrent requests may all have passed the check.
CoveredUnchecked(c) == TRUE                                        \* mutant
Covered(c) == balance[Owner[c]] - Amount[c] >= 0

DebitAndInsert(c) ==
  /\ request[c] = "debit"
  /\ \/ /\ Covered(c)
        /\ balance' = [balance EXCEPT ![Owner[c]] = @ - Amount[c]]
        /\ status'  = [status EXCEPT ![c] = "pending"]
        /\ request' = [request EXCEPT ![c] = "enqueue"]
     \/ /\ ~Covered(c)
        /\ request' = [request EXCEPT ![c] = "done"]
        /\ UNCHANGED <<balance, status>>
  /\ UNCHANGED <<hasRef, refunds, transfer, outcome, exec, notice, job, slot>>

EnqueuePayout(c) ==
  /\ request[c] = "enqueue"
  /\ Add(c)
  /\ request' = [request EXCEPT ![c] = "done"]
  /\ UNCHANGED <<balance, payoutVars, exec, notice>>

\* Redis refuses the job or the API process dies: the client sees an error,
\* the debit stays.
EnqueueFault(c) ==
  /\ "enqueue" \in Faults
  /\ request[c] = "enqueue"
  /\ request' = [request EXCEPT ![c] = "done"]
  /\ UNCHANGED <<balance, payoutVars, exec, notice, job, slot>>

-----------------------------------------------------------------------------
(* processPayoutJob.                                                       *)

Goto(s, at) == exec' = [exec EXCEPT ![s] = [at |-> at, made |-> exec[s].made]]
Halt(s) == exec' = [exec EXCEPT ![s] = IdleExec]

\* The Job object the processor gets carries attemptsMade as of now.
StartPayout(s, c) ==
  /\ Start(s, c)
  /\ exec' = [exec EXCEPT ![s] = [at |-> "read", made |-> job[c].made]]
  /\ UNCHANGED <<balance, request, payoutVars, notice>>

ReadSkipsBegun(s) ==                                               \* mutant
  /\ exec[s].at = "read"
  /\ Goto(s, IF status[slot[s]] # "pending" THEN "finish" ELSE "mark")
  /\ UNCHANGED <<balance, request, payoutVars, notice, job, slot>>

\* Only a paid cashout is left alone; a failed one is paid again.
ReadCashout(s) ==
  /\ exec[s].at = "read"
  /\ Goto(s, IF status[slot[s]] = "paid" THEN "finish" ELSE "mark")
  /\ UNCHANGED <<balance, request, payoutVars, notice, job, slot>>

MarkProcessing(s) ==
  /\ exec[s].at = "mark"
  /\ status' = [status EXCEPT ![slot[s]] = "processing"]
  /\ Goto(s, IF HasGateway[slot[s]] THEN "call" ELSE "unrouted")
  /\ UNCHANGED <<balance, request, hasRef, refunds, transfer, outcome, notice, job, slot>>

\* getGateway("bank") throws before the try block.
ThrowUnrouted(s) ==
  /\ exec[s].at = "unrouted"
  /\ Fail(s)
  /\ Halt(s)
  /\ UNCHANGED <<balance, request, payoutVars, notice>>

\* localAmountCents is sent with currency "USD".
Asked(c) == Amount[c] * Rate[c]
Taken(c) == [transfer EXCEPT ![Key[c]] = IF @ = 0 THEN Asked(c) ELSE @]
Begun(c, state) == [outcome EXCEPT ![Key[c]] = IF @ = "none" THEN state ELSE @]

\* A fresh payout is paid at once or accepted for later; a repeated key finds
\* the payout there is, which is paid only if its money has moved.
Answers(c) == IF outcome[Key[c]] \in {"none", "moved"} THEN {"paid", "accepted"} ELSE {"accepted"}
OutcomeOf(reply) == IF reply = "paid" THEN "moved" ELSE "underway"

\* gateway.payout: answered, or thrown, before or after the gateway acted on it.
CallGateway(s) ==
  /\ exec[s].at = "call"
  /\ \/ \E reply \in Answers(slot[s]) :
          /\ transfer' = Taken(slot[s])
          /\ outcome'  = Begun(slot[s], OutcomeOf(reply))
          /\ Goto(s, reply)
     \/ /\ "refused" \in Faults /\ transfer[Key[slot[s]]] = 0
        /\ UNCHANGED <<transfer, outcome>>
        /\ Goto(s, "catch")
     \/ /\ "timeout" \in Faults
        /\ transfer' = Taken(slot[s])
        /\ \E state \in {"moved", "underway"} : outcome' = Begun(slot[s], state)
        /\ Goto(s, "catch")
  /\ UNCHANGED <<balance, request, status, hasRef, refunds, notice, job, slot>>

\* A payout the gateway had accepted arrives, or comes back.
GatewayEnds(k) ==
  /\ outcome[k] = "underway"
  /\ \E state \in {"moved", "returned"} : outcome' = [outcome EXCEPT ![k] = state]
  /\ UNCHANGED <<balance, request, status, hasRef, refunds, transfer, exec, notice, job, slot>>

RecordPaidFallsThrough(s) ==                                       \* mutant
  /\ exec[s].at = "paid"
  /\ status' = [status EXCEPT ![slot[s]] = "paid"]
  /\ hasRef' = [hasRef EXCEPT ![slot[s]] = TRUE]
  /\ Goto(s, "accepted")
  /\ UNCHANGED <<balance, request, refunds, transfer, outcome, notice, job, slot>>

RecordPaid(s) ==
  /\ exec[s].at = "paid"
  /\ status' = [status EXCEPT ![slot[s]] = "paid"]
  /\ hasRef' = [hasRef EXCEPT ![slot[s]] = TRUE]
  /\ Goto(s, "email")
  /\ UNCHANGED <<balance, request, refunds, transfer, outcome, notice, job, slot>>

\* queues.email.add, inside the same try block as the payment.
SendEmail(s) ==
  /\ exec[s].at = "email"
  /\ \/ Goto(s, "finish")
     \/ "email" \in Faults /\ Goto(s, "catch")
  /\ UNCHANGED <<balance, request, payoutVars, notice, job, slot>>

AcceptedIsFailure(s) ==                                            \* mutant
  /\ exec[s].at = "accepted"
  /\ Goto(s, "catch")
  /\ UNCHANGED <<balance, request, payoutVars, notice, job, slot>>

RecordAcceptedAsPaid(s) ==                                         \* mutant
  /\ exec[s].at = "accepted"
  /\ status' = [status EXCEPT ![slot[s]] = "paid"]
  /\ hasRef' = [hasRef EXCEPT ![slot[s]] = TRUE]
  /\ Goto(s, "finish")
  /\ UNCHANGED <<balance, request, refunds, transfer, outcome, notice, job, slot>>

\* Any other result: its status is stored as it is.
RecordAccepted(s) ==
  /\ exec[s].at = "accepted"
  /\ status' = [status EXCEPT ![slot[s]] = "processing"]
  /\ hasRef' = [hasRef EXCEPT ![slot[s]] = TRUE]
  /\ Goto(s, "finish")
  /\ UNCHANGED <<balance, request, refunds, transfer, outcome, notice, job, slot>>

NeverFinalAttempt(made) == made >= MaxAttempts                     \* mutant
IsFinalAttempt(made) == Exhausted(made)

\* The catch block: rethrow for another attempt, or go on to refund.
Catch(s) ==
  /\ exec[s].at = "catch"
  /\ \/ /\ IsFinalAttempt(exec[s].made)
        /\ Goto(s, "refund")
        /\ UNCHANGED <<job, slot>>
     \/ /\ ~IsFinalAttempt(exec[s].made)
        /\ Fail(s)
        /\ Halt(s)
  /\ UNCHANGED <<balance, request, payoutVars, notice>>

RefundOnly(s) ==                                                   \* mutant
  /\ exec[s].at = "refund"
  /\ balance' = [balance EXCEPT ![Owner[slot[s]]] = @ + Amount[slot[s]]]
  /\ refunds' = [refunds EXCEPT ![slot[s]] = @ + 1]
  /\ Goto(s, "finish")
  /\ UNCHANGED <<request, status, hasRef, transfer, outcome, notice, job, slot>>

\* One transaction, whatever the row says by now.
RefundAndFail(s) ==
  /\ exec[s].at = "refund"
  /\ LET c == slot[s] IN
     /\ balance' = [balance EXCEPT ![Owner[c]] = @ + Amount[c]]
     /\ refunds' = [refunds EXCEPT ![c] = @ + 1]
     /\ status'  = [status EXCEPT ![c] = "failed"]
  /\ Goto(s, "finish")
  /\ UNCHANGED <<request, hasRef, transfer, outcome, notice, job, slot>>

FinishPayout(s) ==
  /\ exec[s].at = "finish"
  /\ Complete(s)
  /\ Halt(s)
  /\ UNCHANGED <<balance, request, payoutVars, notice>>

\* A statement throws outside the try block or inside the catch block, and
\* the job fails; inside the try block, and the catch block runs.
DbFault(s) ==
  /\ "db" \in Faults
  /\ \/ exec[s].at \in {"read", "mark", "refund"} /\ Fail(s) /\ Halt(s)
     \/ exec[s].at \in {"paid", "accepted"} /\ Goto(s, "catch") /\ UNCHANGED <<job, slot>>
  /\ UNCHANGED <<balance, request, payoutVars, notice>>

WorkerCrash(s) ==
  /\ "crash" \in Faults
  /\ Crash(s)
  /\ Halt(s)
  /\ UNCHANGED <<balance, request, payoutVars, notice>>

StallPayout(c) ==
  /\ Stall(c)
  /\ UNCHANGED <<balance, request, payoutVars, exec, notice>>

-----------------------------------------------------------------------------
(* The cashout half of processWebhookRetryJob.                             *)

\* A webhook about a payout of the gateway, whatever it reports of it: that it
\* is under way, has moved or came back.  The row is found by its gateway_ref
\* and is not paid yet.
FindPayout(n, c) ==
  /\ notice[n] = NoJob
  /\ outcome[Key[c]] # "none"
  /\ hasRef[c] /\ status[c] # "paid"
  /\ notice' = [notice EXCEPT ![n] = c]
  /\ UNCHANGED <<balance, request, payoutVars, exec, job, slot>>

ConfirmPayout(n) ==
  /\ notice[n] # NoJob
  /\ status' = [status EXCEPT ![notice[n]] = "paid"]
  /\ notice' = [notice EXCEPT ![n] = NoJob]
  /\ UNCHANGED <<balance, request, hasRef, refunds, transfer, outcome, exec, job, slot>>

-----------------------------------------------------------------------------
RequestStep(c) == CheckProfile(c) \/ DebitAndInsert(c) \/ EnqueuePayout(c) \/ EnqueueFault(c)

PayoutStep(s) ==
  \/ \E c \in Jobs : StartPayout(s, c)
  \/ ReadCashout(s) \/ MarkProcessing(s) \/ ThrowUnrouted(s) \/ CallGateway(s)
  \/ RecordPaid(s) \/ SendEmail(s) \/ RecordAccepted(s)
  \/ Catch(s) \/ RefundAndFail(s) \/ FinishPayout(s)
  \/ DbFault(s) \/ WorkerCrash(s)

NoticeStep(n) == (\E c \in Jobs : FindPayout(n, c)) \/ ConfirmPayout(n)

Next ==
  \/ \E c \in Jobs : RequestStep(c)
  \/ \E s \in Slots : PayoutStep(s)
  \/ \E c \in Jobs : StallPayout(c)
  \/ \E n \in Notices : NoticeStep(n)
  \/ \E k \in Keys : GatewayEnds(k)

Spec == Init /\ [][Next]_vars

\* A handler that passed its checks goes on, BullMQ hands out waiting and
\* stalled jobs, and a worker executes what it took.  No request has to be
\* made, no webhook has to arrive, no accepted payout has to end and no fault
\* has to happen.
Fairness ==
  /\ \A c \in Jobs : /\ WF_vars(DebitAndInsert(c)) /\ WF_vars(EnqueuePayout(c))
                     /\ WF_vars(\E s \in Slots : StartPayout(s, c))
                     /\ WF_vars(StallPayout(c))
  /\ \A s \in Slots :
       WF_vars(\/ ReadCashout(s) \/ MarkProcessing(s) \/ ThrowUnrouted(s) \/ CallGateway(s)
               \/ RecordPaid(s) \/ SendEmail(s) \/ RecordAccepted(s)
               \/ Catch(s) \/ RefundAndFail(s) \/ FinishPayout(s))

FairSpec == Spec /\ Fairness

-----------------------------------------------------------------------------
(* What a creator and the platform rely on.                                *)

\* Every variable keeps its type.
TypeOK ==
  /\ QueueTypeOK
  /\ balance  \in [Creators -> Int]
  /\ request  \in [Jobs -> {"idle", "debit", "enqueue", "done"}]
  /\ status   \in [Jobs -> Statuses]
  /\ hasRef   \in [Jobs -> BOOLEAN]
  /\ refunds  \in [Jobs -> Nat]
  /\ transfer \in [Keys -> Nat]
  /\ outcome  \in [Keys -> Outcomes]
  /\ exec     \in [Slots -> ExecRecord]
  /\ notice   \in [Notices -> Jobs \cup {NoJob}]

\* However many requests passed the balance check on the same snapshot, no
\* payout balance is ever overdrawn (debitPayoutBalance decides again).
BalanceNonNegative == \A u \in Creators : balance[u] >= 0

\* A cashout becomes paid only when the gateway's money has moved, or when a
\* webhook about its reference was found for it: no attempt of the job, with a
\* stale row, a replayed key or a lock it lost, marks paid what the gateway
\* merely accepted.
PaidOnWord ==
  [][\A c \in Jobs : status[c] # "paid" /\ status'[c] = "paid" =>
       /\ hasRef'[c]
       /\ outcome[Key[c]] = "moved" \/ \E n \in Notices : notice[n] = c]_vars

\* A cashout marked paid is one whose money has moved, as stripe.ts says of
\* its stub.  The webhook half of the job does not look at what the event
\* reports, and marks one paid that is under way or came back.
PaidHasArrived == \A c \in Jobs : status[c] = "paid" => outcome[Key[c]] = "moved"

\* A refunded cashout is a failed one for good: no later execution of its
\* job and no webhook takes it up again.
RefundedIsFailed == \A c \in Jobs : refunds[c] > 0 => status[c] = "failed" /\ refunds[c] = 1

\* A paid cashout stays paid.
PaidIsFinal == [][\A c \in Jobs : status[c] = "paid" => status'[c] = "paid"]_vars

\* When the queue is done with a cashout, the gateway has taken the payout or
\* the money was given back.
SettledWhenJobEnds ==
  \A c \in Jobs : job[c].state \in {"completed", "failed"} => transfer[Key[c]] # 0 \/ refunds[c] > 0

\* A payout job that completes, as against one that BullMQ gives up, leaves no
\* debit without a payout or a refund.
CompletedIsSettled == \A c \in Jobs : job[c].state = "completed" => transfer[Key[c]] # 0 \/ refunds[c] > 0

\* Nor does any job the queue is done with, unless its workers died or lost
\* their lock more often than a stalled job is handed out again.
SettledUnlessStalled ==
  \A c \in Jobs : job[c].state \in {"completed", "failed"} /\ job[c].stalls <= MaxStalls =>
    transfer[Key[c]] # 0 \/ refunds[c] > 0

\* A debited cashout has a job, or its handler is about to enqueue it.
DebitedReachesQueue ==
  \A c \in Jobs : status[c] # "none" => request[c] = "enqueue" \/ job[c].state # "absent"

\* The gateway is asked for what was debited.
TransferredIsDebited ==
  \A c \in Jobs : transfer[Key[c]] # 0 => transfer[Key[c]] = Amount[c]

\* Each cashout marked paid has a payout of its own.
OneTransferEach ==
  \A c, d \in Jobs : status[c] = "paid" /\ status[d] = "paid" /\ Key[c] = Key[d] => c = d

\* Every debit is followed by a payout or a refund.
EveryCashoutSettles ==
  \A c \in Jobs : status[c] = "pending" ~>
    (status[c] = "paid" \/ status[c] = "failed" \/ (status[c] = "processing" /\ hasRef[c]))

\* A cashout as a withdrawal: sent when the gateway has taken its payout,
\* returned when it was refunded.
dueOf == [c \in Jobs |->
  IF status[c] = "none" THEN "none"
  ELSE IF refunds[c] = 0 THEN (IF transfer[Key[c]] # 0 THEN "sent" ELSE "owed")
  ELSE IF refunds[c] = 1 /\ transfer[Key[c]] = 0 THEN "returned" ELSE "paid twice"]

Contract == INSTANCE Withdrawal WITH Withdrawals <- Jobs, due <- dueOf
WithdrawalSpec == Contract!Spec
=============================================================================
