------------------------------- MODULE Promotion -------------------------------
(****************************************************************************)
(* Where a creator's money is.  A gift's share is credited as pending; when *)
(* its hold window is over the hourly promote-pending job moves it to the   *)
(* payout balance, which cashouts debit and failed cashouts refund          *)
(* (src/ledger/creator.ts, src/jobs/promote-pending.job.ts).  The nightly   *)
(* reconcile job compares the balances with the ledger                      *)
(* (src/jobs/reconcile.job.ts).                                             *)
(*                                                                          *)
(* A step is one statement or transaction.  A promotion is one transaction: *)
(* it moves the cents and inserts a marker row that refers to the ledger    *)
(* row it promoted.                                                         *)
(****************************************************************************)
EXTENDS Integers, FiniteSets

CONSTANTS
  Creators,
  Earnings, Earner, Cents,     \* creator_ledger rows of gifts: user_id, delta_cents
  Cashouts, Claimant, Claim,   \* cashouts: creator_id, amount_cents
  Runs,                        \* executions of the hourly job
  Overlap,                     \* TRUE: an execution may start while another one runs
  RefIdFits                    \* FALSE in this schema: ref_id is a uuid, the id it
                               \* shall hold a bigserial

ASSUME PromotionAssumption ==
  /\ Earner \in [Earnings -> Creators]
  /\ Cents \in [Earnings -> Nat]
  /\ Claimant \in [Cashouts -> Creators]
  /\ Claim \in [Cashouts -> Nat \ {0}]
  /\ Overlap \in BOOLEAN
  /\ RefIdFits \in BOOLEAN

VARIABLES
  pending, payout,  \* pending_balance_cents and payout_balance_cents
  ledger,           \* SUM(creator_ledger.delta_cents) of each creator
  row,              \* whether each earning is credited, and its hold is over
  markers,          \* how many promotion markers refer to each earning
  cashout,          \* what has been done about each cashout
  run,              \* the rows each execution has selected and not promoted yet
  drift             \* whether the reconcile job has ever reported one

balances == <<pending, payout, ledger>>
vars == <<pending, payout, ledger, row, markers, cashout, run, drift>>

Init ==
  /\ pending = [c \in Creators |-> 0]
  /\ payout  = [c \in Creators |-> 0]
  /\ ledger  = [c \in Creators |-> 0]
  /\ row     = [e \in Earnings |-> "none"]
  /\ markers = [e \in Earnings |-> 0]
  /\ cashout = [d \in Cashouts |-> "none"]
  /\ run     = [x \in Runs |-> [at |-> "idle", todo |-> {}]]
  /\ drift   = FALSE

-----------------------------------------------------------------------------
Move(balance, c, cents) == [balance EXCEPT ![c] = @ + cents]

\* creditCreatorPending, in the gift's transaction.
CreditPending(e) ==
  /\ row[e] = "none"
  /\ row'     = [row EXCEPT ![e] = "held"]
  /\ pending' = Move(pending, Earner[e], Cents[e])
  /\ ledger'  = Move(ledger, Earner[e], Cents[e])
  /\ UNCHANGED <<payout, markers, cashout, run, drift>>

\* available_at has passed.
HoldEnds(e) ==
  /\ row[e] = "held"
  /\ row' = [row EXCEPT ![e] = "matured"]
  /\ UNCHANGED <<balances, markers, cashout, run, drift>>

\* debitPayoutBalance: a negative balance rolls the transaction back.
CoveredUnchecked(d) == TRUE                                        \* mutant
Covered(d) == payout[Claimant[d]] - Claim[d] >= 0

Debit(d) ==
  /\ cashout[d] = "none"
  /\ Covered(d)
  /\ cashout' = [cashout EXCEPT ![d] = "debited"]
  /\ payout'  = Move(payout, Claimant[d], -Claim[d])
  /\ ledger'  = Move(ledger, Claimant[d], -Claim[d])
  /\ UNCHANGED <<pending, row, markers, run, drift>>

RefundUnrecorded(d) ==                                             \* mutant
  /\ cashout[d] = "debited"
  /\ cashout' = [cashout EXCEPT ![d] = "refunded"]
  /\ payout'  = Move(payout, Claimant[d], Claim[d])
  /\ UNCHANGED <<pending, ledger, row, markers, run, drift>>

\* refundPayoutBalance.
Refund(d) ==
  /\ cashout[d] = "debited"
  /\ cashout' = [cashout EXCEPT ![d] = "refunded"]
  /\ payout'  = Move(payout, Claimant[d], Claim[d])
  /\ ledger'  = Move(ledger, Claimant[d], Claim[d])
  /\ UNCHANGED <<pending, row, markers, run, drift>>

-----------------------------------------------------------------------------
(* processPromotePendingJob.                                               *)

SetRun(x, at, todo) == run' = [run EXCEPT ![x] = [at |-> at, todo |-> todo]]

\* The select finds matured earnings no marker refers to; the loop skips
\* those of no value.
UnmarkedIgnored(e) == TRUE                                         \* mutant
Unmarked(e) == markers[e] = 0
SkippedCent(e) == Cents[e] <= 1                                    \* mutant
Skipped(e) == Cents[e] <= 0

SelectMatured(x) ==
  /\ run[x].at = "idle"
  /\ Overlap \/ \A y \in Runs : run[y].at = "idle"
  /\ SetRun(x, "promote", {e \in Earnings : row[e] = "matured" /\ Unmarked(e) /\ ~Skipped(e)})
  /\ UNCHANGED <<balances, row, markers, cashout, drift>>

\* promoteMaturedEarnings and the marker, whatever other executions did since.
\* A ref_id that cannot hold the row's id makes the marker's insert throw: all
\* that is left then is StopRun.
PromoteRow(x, e) ==
  /\ RefIdFits
  /\ e \in run[x].todo
  /\ pending' = Move(pending, Earner[e], -Cents[e])
  /\ payout'  = Move(payout, Earner[e], Cents[e])
  /\ markers' = [markers EXCEPT ![e] = @ + 1]
  /\ SetRun(x, "promote", run[x].todo \ {e})
  /\ UNCHANGED <<ledger, row, cashout, drift>>

FinishRun(x) ==
  /\ run[x].at = "promote"
  /\ run[x].todo = {}
  /\ SetRun(x, "idle", {})
  /\ UNCHANGED <<balances, row, markers, cashout, drift>>

\* A statement throws, or the worker dies; the transaction at hand is rolled
\* back and the next hour brings the next run.
StopRun(x) ==
  /\ run[x].at = "promote"
  /\ SetRun(x, "idle", {})
  /\ UNCHANGED <<balances, row, markers, cashout, drift>>

\* processReconcileJob: one select over all creators.
Reconcile ==
  /\ drift' = (drift \/ \E c \in Creators : pending[c] + payout[c] # ledger[c])
  /\ UNCHANGED <<balances, row, markers, cashout, run>>

RunStep(x) ==
  \/ SelectMatured(x) \/ (\E e \in Earnings : PromoteRow(x, e))
  \/ FinishRun(x) \/ StopRun(x)

Next ==
  \/ \E e \in Earnings : CreditPending(e) \/ HoldEnds(e)
  \/ \E d \in Cashouts : Debit(d) \/ Refund(d)
  \/ \E x \in Runs : RunStep(x)
  \/ Reconcile

Spec == Init /\ [][Next]_vars

\* The job runs every hour and does not fail at the same row for ever; no
\* gift or cashout has to be made.
Fairness ==
  \A x \in Runs : /\ WF_vars(SelectMatured(x) \/ FinishRun(x) \/ (~RefIdFits /\ StopRun(x)))
                  /\ SF_vars(\E e \in Earnings : PromoteRow(x, e))
FairSpec == Spec /\ Fairness

-----------------------------------------------------------------------------
(* What creators and the reconcile job rely on.                            *)

\* Every variable keeps its type, and no balance is negative: nothing is
\* promoted that is not pending, nothing cashed out that was not promoted.
TypeOK ==
  /\ pending \in [Creators -> Nat]
  /\ payout  \in [Creators -> Nat]
  /\ ledger  \in [Creators -> Nat]
  /\ row     \in [Earnings -> {"none", "held", "matured"}]
  /\ markers \in [Earnings -> Nat]
  /\ cashout \in [Cashouts -> {"none", "debited", "refunded"}]
  /\ run     \in [Runs -> [at : {"idle", "promote"}, todo : SUBSET Earnings]]
  /\ drift   \in BOOLEAN

\* One element per cent of the amounts of S: there are as many as they add up to.
CentsOf(S, amount) == UNION {{e} \X (1 .. amount[e]) : e \in S}
Unpromoted(c) == {e \in Earnings : Earner[e] = c /\ row[e] # "none" /\ markers[e] = 0}

\* Every cent is in one place: the pending balance is the sum of the earnings
\* that no run has promoted, however often runs crash and are repeated.
PendingIsUnpromoted ==
  \A c \in Creators : pending[c] = Cardinality(CentsOf(Unpromoted(c), Cents))

\* "safe to run repeatedly without double-promoting" (promote-pending.job.ts:13-15).
PromotedOnce == \A e \in Earnings : markers[e] <= 1

\* The nightly job never finds a drift, at whatever moment it looks.
NeverDrifts == ~drift

\* "moves matured rows into payout_balance_cents" (README.md, Money & ledger
\* invariants): every earning whose hold is over is promoted in the end.
MaturedIsPromoted ==
  \A e \in Earnings : (row[e] = "matured" /\ Cents[e] > 0) ~> (markers[e] > 0)
=============================================================================
