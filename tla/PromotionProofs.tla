----------------------------- MODULE PromotionProofs -----------------------------
(****************************************************************************)
(* Theorems about Promotion, for any creators, earnings, cashouts and runs. *)
(****************************************************************************)
EXTENDS Promotion, FiniteSetTheorems, TLAPS

-----------------------------------------------------------------------------
(* The balances agree with the ledger.                                     *)

BalanceType ==
  /\ pending \in [Creators -> Int]
  /\ payout  \in [Creators -> Int]
  /\ ledger  \in [Creators -> Int]

Balanced == \A c \in Creators : pending[c] + payout[c] = ledger[c]
LedgerInv == BalanceType /\ Balanced /\ ~drift

\* The two movements a transaction makes keep the sum: a cent that appears in or
\* vanishes from a balance does so in the ledger as well.
LEMMA PendingWithLedger ==
  ASSUME BalanceType, Balanced, NEW c \in Creators, NEW cents \in Int,
         pending' = Move(pending, c, cents), ledger' = Move(ledger, c, cents), payout' = payout
  PROVE  BalanceType' /\ Balanced'
<1>1. /\ pending' \in [Creators -> Int]
      /\ \A d \in Creators : pending'[d] = pending[d] + (IF d = c THEN cents ELSE 0)
  BY DEF BalanceType, Move
<1>2. /\ ledger' \in [Creators -> Int]
      /\ \A d \in Creators : ledger'[d] = ledger[d] + (IF d = c THEN cents ELSE 0)
  BY DEF BalanceType, Move
<1> QED BY <1>1, <1>2 DEF BalanceType, Balanced

\* The same of a movement of the payable balance.
LEMMA PayoutWithLedger ==
  ASSUME BalanceType, Balanced, NEW c \in Creators, NEW cents \in Int,
         payout' = Move(payout, c, cents), ledger' = Move(ledger, c, cents), pending' = pending
  PROVE  BalanceType' /\ Balanced'
<1>1. /\ payout' \in [Creators -> Int]
      /\ \A d \in Creators : payout'[d] = payout[d] + (IF d = c THEN cents ELSE 0)
  BY DEF BalanceType, Move
<1>2. /\ ledger' \in [Creators -> Int]
      /\ \A d \in Creators : ledger'[d] = ledger[d] + (IF d = c THEN cents ELSE 0)
  BY DEF BalanceType, Move
<1> QED BY <1>1, <1>2 DEF BalanceType, Balanced

\* A cent that is promoted moves from one balance to the other.
LEMMA PendingToPayout ==
  ASSUME BalanceType, Balanced, NEW c \in Creators, NEW cents \in Int,
         pending' = Move(pending, c, -cents), payout' = Move(payout, c, cents), ledger' = ledger
  PROVE  BalanceType' /\ Balanced'
<1>1. /\ pending' \in [Creators -> Int]
      /\ \A d \in Creators : pending'[d] = pending[d] + (IF d = c THEN -cents ELSE 0)
  BY DEF BalanceType, Move
<1>2. /\ payout' \in [Creators -> Int]
      /\ \A d \in Creators : payout'[d] = payout[d] + (IF d = c THEN cents ELSE 0)
  BY DEF BalanceType, Move
<1>3. \A d \in Creators : pending'[d] + payout'[d] = pending[d] + payout[d]
  BY <1>1, <1>2 DEF BalanceType
<1> QED BY <1>1, <1>2, <1>3 DEF BalanceType, Balanced

\* At first balances and ledger are empty.
LEMMA LedgerInitial == Init => LedgerInv
BY DEF Init, LedgerInv, BalanceType, Balanced

\* Every transaction moves the balances and the ledger together.
LEMMA LedgerStep == LedgerInv /\ [Next]_vars => LedgerInv'
<1> SUFFICES ASSUME LedgerInv, [Next]_vars PROVE LedgerInv'
  OBVIOUS
<1>0. BalanceType /\ Balanced /\ ~drift
  BY DEF LedgerInv
<1>1. CASE UNCHANGED vars
  BY <1>0, <1>1 DEF vars, LedgerInv, BalanceType, Balanced
<1>2. ASSUME NEW e \in Earnings, CreditPending(e) PROVE LedgerInv'
  <2>1. Earner[e] \in Creators /\ Cents[e] \in Int
    BY PromotionAssumption
  <2>2. /\ pending' = Move(pending, Earner[e], Cents[e])
        /\ ledger' = Move(ledger, Earner[e], Cents[e])
        /\ payout' = payout /\ drift' = drift
    BY <1>2 DEF CreditPending
  <2>3. BalanceType' /\ Balanced'
    BY <1>0, <2>1, <2>2, PendingWithLedger
  <2> QED BY <1>0, <2>2, <2>3 DEF LedgerInv
<1>3. ASSUME NEW d \in Cashouts, Debit(d) PROVE LedgerInv'
  <2>1. Claimant[d] \in Creators /\ -Claim[d] \in Int
    BY PromotionAssumption
  <2>2. /\ payout' = Move(payout, Claimant[d], -Claim[d])
        /\ ledger' = Move(ledger, Claimant[d], -Claim[d])
        /\ pending' = pending /\ drift' = drift
    BY <1>3 DEF Debit
  <2>3. BalanceType' /\ Balanced'
    BY <1>0, <2>1, <2>2, PayoutWithLedger
  <2> QED BY <1>0, <2>2, <2>3 DEF LedgerInv
<1>4. ASSUME NEW d \in Cashouts, Refund(d) PROVE LedgerInv'
  <2>1. Claimant[d] \in Creators /\ Claim[d] \in Int
    BY PromotionAssumption
  <2>2. /\ payout' = Move(payout, Claimant[d], Claim[d])
        /\ ledger' = Move(ledger, Claimant[d], Claim[d])
        /\ pending' = pending /\ drift' = drift
    BY <1>4 DEF Refund
  <2>3. BalanceType' /\ Balanced'
    BY <1>0, <2>1, <2>2, PayoutWithLedger
  <2> QED BY <1>0, <2>2, <2>3 DEF LedgerInv
<1>5. ASSUME NEW x \in Runs, NEW e \in Earnings, PromoteRow(x, e) PROVE LedgerInv'
  <2>1. Earner[e] \in Creators /\ Cents[e] \in Int
    BY PromotionAssumption
  <2>2. /\ pending' = Move(pending, Earner[e], -Cents[e])
        /\ payout' = Move(payout, Earner[e], Cents[e])
        /\ ledger' = ledger /\ drift' = drift
    BY <1>5 DEF PromoteRow
  <2>3. BalanceType' /\ Balanced'
    BY <1>0, <2>1, <2>2, PendingToPayout
  <2> QED BY <1>0, <2>2, <2>3 DEF LedgerInv
<1>6. CASE Reconcile
  <2>1. drift' = (drift \/ \E c \in Creators : pending[c] + payout[c] # ledger[c])
        /\ UNCHANGED balances
    BY <1>6 DEF Reconcile
  <2>2. BalanceType' /\ Balanced'
    BY <1>0, <2>1 DEF balances, BalanceType, Balanced
  <2>3. ~drift'
    BY <1>0, <2>1 DEF Balanced
  <2> QED BY <2>2, <2>3 DEF LedgerInv
<1>7. ASSUME NEW e \in Earnings, HoldEnds(e) PROVE LedgerInv'
  BY <1>0, <1>7 DEF HoldEnds, balances, LedgerInv, BalanceType, Balanced
<1>8. ASSUME NEW x \in Runs, SelectMatured(x) \/ FinishRun(x) \/ StopRun(x) PROVE LedgerInv'
  BY <1>0, <1>8 DEF SelectMatured, FinishRun, StopRun, balances, LedgerInv, BalanceType, Balanced
<1> QED BY <1>1, <1>2, <1>3, <1>4, <1>5, <1>6, <1>7, <1>8 DEF Next, RunStep

\* "Every balance mutation happens in the same DB transaction as its ledger row
\* insert" (README.md, Money & ledger invariants): whenever the reconcile job
\* looks, and whatever runs overlap or fail, the balances are what the ledger says.
THEOREM BalancesNeverDrift == Spec => []NeverDrifts
<1>1. LedgerInv => NeverDrifts
  BY DEF LedgerInv, NeverDrifts
<1> QED BY <1>1, LedgerInitial, LedgerStep, PTL DEF Spec

-----------------------------------------------------------------------------
(* Nothing is promoted twice.                                              *)

RunType ==
  /\ run \in [Runs -> [at : {"idle", "promote"}, todo : SUBSET Earnings]]
  /\ markers \in [Earnings -> Nat]

\* Runs take turns, and what a run still has to promote is unmarked: no other
\* run can have marked it since the select.
TakeTurns ==
  /\ \A x \in Runs : run[x].at = "idle" => run[x].todo = {}
  /\ \A x, y \in Runs : run[x].at = "promote" /\ run[y].at = "promote" => x = y
TodoIsUnmarked == \A x \in Runs : \A e \in run[x].todo : markers[e] = 0
OnceInv == RunType /\ TakeTurns /\ TodoIsUnmarked /\ PromotedOnce

\* A run that is set has the given state, and the others keep theirs.
LEMMA SetRunSets ==
  ASSUME RunType, NEW x \in Runs, NEW at \in {"idle", "promote"}, NEW todo \in SUBSET Earnings,
         SetRun(x, at, todo)
  PROVE  /\ run' \in [Runs -> [at : {"idle", "promote"}, todo : SUBSET Earnings]]
         /\ run'[x].at = at /\ run'[x].todo = todo
         /\ \A y \in Runs \ {x} : run'[y] = run[y]
BY DEF RunType, SetRun

\* At first nothing is promoted.
LEMMA OnceInitial == Init => OnceInv
BY DEF Init, OnceInv, RunType, TakeTurns, TodoIsUnmarked, PromotedOnce

\* An earning is marked by the only run that has it to do, and not selected again.
LEMMA OnceStep ==
  ASSUME ~Overlap, OnceInv, [Next]_vars
  PROVE  OnceInv'
<1>0. RunType /\ TakeTurns /\ TodoIsUnmarked /\ PromotedOnce
  BY DEF OnceInv
<1>1. ASSUME UNCHANGED <<run, markers>> PROVE OnceInv'
  BY <1>0, <1>1 DEF OnceInv, RunType, TakeTurns, TodoIsUnmarked, PromotedOnce
<1>2. ASSUME NEW x \in Runs, SelectMatured(x) PROVE OnceInv'
  <2> DEFINE sel == {e \in Earnings : row[e] = "matured" /\ Unmarked(e) /\ ~Skipped(e)}
  <2>1. \A y \in Runs : run[y].at = "idle"
    BY <1>2 DEF SelectMatured
  <2>2. SetRun(x, "promote", sel) /\ UNCHANGED markers /\ sel \in SUBSET Earnings
    BY <1>2 DEF SelectMatured
  <2>3. \A e \in sel : markers[e] = 0
    BY DEF Unmarked
  <2> HIDE DEF sel
  <2>4. /\ run' \in [Runs -> [at : {"idle", "promote"}, todo : SUBSET Earnings]]
        /\ run'[x].at = "promote" /\ run'[x].todo = sel
        /\ \A y \in Runs \ {x} : run'[y] = run[y]
    BY <1>0, <2>2, SetRunSets
  <2> QED
    BY <1>0, <2>1, <2>2, <2>3, <2>4 DEF OnceInv, RunType, TakeTurns, TodoIsUnmarked, PromotedOnce
<1>3. ASSUME NEW x \in Runs, NEW e \in Earnings, PromoteRow(x, e) PROVE OnceInv'
  <2>1. e \in run[x].todo /\ run[x].at = "promote" /\ run[x].todo \ {e} \in SUBSET Earnings
    BY <1>0, <1>3 DEF PromoteRow, RunType, TakeTurns
  <2>2. SetRun(x, "promote", run[x].todo \ {e}) /\ markers' = [markers EXCEPT ![e] = @ + 1]
    BY <1>3 DEF PromoteRow
  <2>3. /\ run' \in [Runs -> [at : {"idle", "promote"}, todo : SUBSET Earnings]]
        /\ run'[x].at = "promote" /\ run'[x].todo = run[x].todo \ {e}
        /\ \A y \in Runs \ {x} : run'[y] = run[y]
    BY <1>0, <2>1, <2>2, SetRunSets
  <2>4. markers[e] = 0
    BY <1>0, <2>1 DEF TodoIsUnmarked
  <2>5. markers' \in [Earnings -> Nat] /\ markers'[e] = 1 /\ \A d \in Earnings \ {e} : markers'[d] = markers[d]
    BY <1>0, <2>2, <2>4 DEF RunType
  <2>6. \A y \in Runs \ {x} : run[y].todo = {}
    BY <1>0, <2>1 DEF RunType, TakeTurns
  <2>7. TakeTurns'
    BY <1>0, <2>1, <2>3 DEF TakeTurns
  <2>8. TodoIsUnmarked'
    BY <1>0, <2>1, <2>3, <2>5, <2>6 DEF TodoIsUnmarked
  <2>9. PromotedOnce'
    BY <1>0, <2>5 DEF PromotedOnce
  <2> QED BY <2>3, <2>5, <2>7, <2>8, <2>9 DEF OnceInv, RunType
<1>4. ASSUME NEW x \in Runs, FinishRun(x) \/ StopRun(x) PROVE OnceInv'
  <2>1. SetRun(x, "idle", {}) /\ UNCHANGED markers
    BY <1>4 DEF FinishRun, StopRun
  <2>2. /\ run' \in [Runs -> [at : {"idle", "promote"}, todo : SUBSET Earnings]]
        /\ run'[x].at = "idle" /\ run'[x].todo = {}
        /\ \A y \in Runs \ {x} : run'[y] = run[y]
    BY <1>0, <2>1, SetRunSets
  <2> QED BY <1>0, <2>1, <2>2 DEF OnceInv, RunType, TakeTurns, TodoIsUnmarked, PromotedOnce
<1>5. ASSUME NEW e \in Earnings, CreditPending(e) \/ HoldEnds(e) PROVE OnceInv'
  BY <1>1, <1>5 DEF CreditPending, HoldEnds
<1>6. ASSUME NEW d \in Cashouts, Debit(d) \/ Refund(d) PROVE OnceInv'
  BY <1>1, <1>6 DEF Debit, Refund
<1>7. ASSUME Reconcile \/ UNCHANGED vars PROVE OnceInv'
  BY <1>1, <1>7 DEF Reconcile, vars
<1> QED BY <1>2, <1>3, <1>4, <1>5, <1>6, <1>7 DEF Next, RunStep

\* "safe to run repeatedly without double-promoting" (promote-pending.job.ts:14-15),
\* however often runs stop and are repeated, as long as they do not overlap.
THEOREM PromotedAtMostOnce ==
  ASSUME ~Overlap
  PROVE  Spec => []PromotedOnce
<1>1. OnceInv /\ [Next]_vars => OnceInv'
  BY OnceStep
<1>2. OnceInv => PromotedOnce
  BY DEF OnceInv
<1> QED BY <1>1, <1>2, OnceInitial, PTL DEF Spec

-----------------------------------------------------------------------------
(* Every cent is in one place.                                             *)

\* An amount more, of an element that was not there, is that much more.
LEMMA CentsAdded ==
  ASSUME NEW S, NEW amount, NEW x, x \notin S, amount[x] \in Nat,
         IsFiniteSet(CentsOf(S, amount))
  PROVE  /\ IsFiniteSet(CentsOf(S \cup {x}, amount))
         /\ Cardinality(CentsOf(S \cup {x}, amount)) = Cardinality(CentsOf(S, amount)) + amount[x]
<1> DEFINE more == {x} \X (1 .. amount[x])
<1>1. CentsOf(S \cup {x}, amount) = CentsOf(S, amount) \cup more
  BY DEF CentsOf
<1>2. IsFiniteSet(more) /\ Cardinality(more) = amount[x]
  <2> DEFINE cents == 1 .. amount[x]
  <2>1. IsFiniteSet(cents) /\ Cardinality(cents) = amount[x]
    <3>1. /\ IsFiniteSet(cents)
          /\ Cardinality(cents) = IF 1 > amount[x] THEN 0 ELSE amount[x] - 1 + 1
      BY FS_Interval
    <3> QED
      BY <3>1
  <2>2. IsFiniteSet({x}) /\ Cardinality({x}) = 1
    BY FS_Singleton
  <2> HIDE DEF cents
  <2>3. /\ IsFiniteSet({x} \X cents)
        /\ Cardinality({x} \X cents) = Cardinality({x}) * Cardinality(cents)
    BY <2>1, <2>2, FS_Product
  <2>4. Cardinality({x} \X cents) = amount[x]
    BY <2>1, <2>2, <2>3
  <2> QED
    BY <2>3, <2>4 DEF cents
<1>3. CentsOf(S, amount) \cap more = {}
  BY DEF CentsOf
<1>4. Cardinality(CentsOf(S, amount)) \in Nat /\ Cardinality({}) = 0
  BY FS_CardinalityType, FS_EmptySet
<1> HIDE DEF more
<1>5. /\ IsFiniteSet(CentsOf(S, amount) \cup more)
      /\ Cardinality(CentsOf(S, amount) \cup more) =
           Cardinality(CentsOf(S, amount)) + Cardinality(more) - Cardinality(CentsOf(S, amount) \cap more)
  BY <1>2, FS_Union, Zenon
<1>6. Cardinality(CentsOf(S, amount) \cap more) = 0
  BY <1>3, <1>4
<1>7. Cardinality(CentsOf(S, amount) \cup more) = Cardinality(CentsOf(S, amount)) + amount[x]
  BY <1>2, <1>4, <1>5, <1>6
<1> QED
  BY <1>1, <1>5, <1>7

\* And an amount less is that much less.
LEMMA CentsRemoved ==
  ASSUME NEW S, NEW amount, NEW x \in S, amount[x] \in Nat,
         IsFiniteSet(CentsOf(S, amount))
  PROVE  /\ IsFiniteSet(CentsOf(S \ {x}, amount))
         /\ Cardinality(CentsOf(S \ {x}, amount)) = Cardinality(CentsOf(S, amount)) - amount[x]
<1> DEFINE rest == S \ {x}
<1>1. rest \cup {x} = S /\ x \notin rest
  OBVIOUS
<1>2. CentsOf(rest, amount) \in SUBSET CentsOf(S, amount)
  BY DEF CentsOf
<1>3. IsFiniteSet(CentsOf(rest, amount))
  BY <1>2, FS_Subset
<1>4. Cardinality(CentsOf(rest, amount)) \in Nat
  BY <1>3, FS_CardinalityType
<1>5. Cardinality(CentsOf(rest \cup {x}, amount)) = Cardinality(CentsOf(rest, amount)) + amount[x]
  BY <1>1, <1>3, CentsAdded
<1>6. CentsOf(rest \cup {x}, amount) = CentsOf(S, amount)
  BY <1>1
<1> QED
  BY <1>3, <1>4, <1>5, <1>6

\* What a run has selected has been credited and its hold is over; an earning
\* that was not credited has no marker.
RowInv ==
  /\ row \in [Earnings -> {"none", "held", "matured"}]
  /\ \A e \in Earnings : row[e] = "none" => markers[e] = 0
  /\ \A x \in Runs : \A e \in run[x].todo : row[e] = "matured"

\* The cents of the unpromoted earnings are finitely many, and pending.
PlaceInv ==
  /\ \A c \in Creators : IsFiniteSet(CentsOf(Unpromoted(c), Cents))
  /\ PendingIsUnpromoted

\* Nothing is cashed out that is not there.
PayoutInv ==
  /\ \A c \in Creators : payout[c] >= 0
  /\ cashout \in [Cashouts -> {"none", "debited", "refunded"}]
  /\ drift \in BOOLEAN

MoneyInv == LedgerInv /\ OnceInv /\ RowInv /\ PlaceInv /\ PayoutInv

\* At first nothing is earned, pending or payable.
LEMMA MoneyInitial == Init => MoneyInv
<1> SUFFICES ASSUME Init PROVE MoneyInv
  OBVIOUS
<1>1. \A c \in Creators : CentsOf(Unpromoted(c), Cents) = {}
  BY DEF Init, CentsOf, Unpromoted
<1>2. PlaceInv
  BY <1>1, FS_EmptySet DEF Init, PlaceInv, PendingIsUnpromoted
<1>3. RowInv
  BY DEF Init, RowInv
<1>4. PayoutInv
  <2>1. drift \in BOOLEAN
    BY DEF Init
  <2> QED
    BY <2>1 DEF Init, PayoutInv
<1> QED
  BY <1>2, <1>3, <1>4, LedgerInitial, OnceInitial DEF MoneyInv

\* A row is marked by a run that selected it as matured.
LEMMA RowStep ==
  ASSUME OnceInv, RowInv, [Next]_vars
  PROVE  RowInv'
<1> USE DEF RowInv
<1>0. RunType
  BY DEF OnceInv
<1>1. ASSUME UNCHANGED <<row, markers, run>> PROVE RowInv'
  BY <1>1
<1>2. ASSUME NEW e \in Earnings, CreditPending(e) \/ HoldEnds(e) PROVE RowInv'
  <2>1. /\ row' = [row EXCEPT ![e] = IF row[e] = "none" THEN "held" ELSE "matured"]
        /\ row[e] # "matured" /\ UNCHANGED <<markers, run>>
    BY <1>2 DEF CreditPending, HoldEnds
  <2>2. \A x \in Runs : run[x].todo \subseteq Earnings
    BY <1>0 DEF RunType
  <2> QED
    BY <2>1, <2>2
<1>3. ASSUME NEW x \in Runs, SelectMatured(x) PROVE RowInv'
  <2> DEFINE sel == {e \in Earnings : row[e] = "matured" /\ Unmarked(e) /\ ~Skipped(e)}
  <2>1. SetRun(x, "promote", sel) /\ UNCHANGED <<row, markers>> /\ sel \in SUBSET Earnings
    BY <1>3 DEF SelectMatured
  <2>2. run'[x].todo = sel /\ \A y \in Runs \ {x} : run'[y] = run[y]
    BY <1>0, <2>1, SetRunSets
  <2> QED
    BY <2>1, <2>2
<1>4. ASSUME NEW x \in Runs, NEW e \in Earnings, PromoteRow(x, e) PROVE RowInv'
  <2>1. /\ e \in run[x].todo /\ row[e] = "matured" /\ UNCHANGED row
        /\ markers' = [markers EXCEPT ![e] = @ + 1]
        /\ SetRun(x, "promote", run[x].todo \ {e})
    BY <1>4 DEF PromoteRow
  <2>2. run[x].todo \ {e} \in SUBSET Earnings
    BY <1>0 DEF RunType
  <2>3. run'[x].todo = run[x].todo \ {e} /\ \A y \in Runs \ {x} : run'[y] = run[y]
    BY <1>0, <2>1, <2>2, SetRunSets
  <2>4. \A d \in Earnings \ {e} : markers'[d] = markers[d]
    BY <1>0, <2>1 DEF RunType
  <2> QED
    BY <2>1, <2>3, <2>4
<1>5. ASSUME NEW x \in Runs, FinishRun(x) \/ StopRun(x) PROVE RowInv'
  <2>1. SetRun(x, "idle", {}) /\ UNCHANGED <<row, markers>>
    BY <1>5 DEF FinishRun, StopRun
  <2>2. run'[x].todo = {} /\ \A y \in Runs \ {x} : run'[y] = run[y]
    BY <1>0, <2>1, SetRunSets
  <2> QED
    BY <2>1, <2>2
<1>6. ASSUME NEW d \in Cashouts, Debit(d) \/ Refund(d) PROVE RowInv'
  BY <1>1, <1>6 DEF Debit, Refund
<1>7. CASE Reconcile \/ UNCHANGED vars
  BY <1>1, <1>7 DEF Reconcile, vars
<1> QED
  BY <1>2, <1>3, <1>4, <1>5, <1>6, <1>7 DEF Next, RunStep

\* A credit adds its earning to the unpromoted ones; a promotion, which marks an
\* unmarked earning, takes it away; nothing else moves a pending cent.
LEMMA PlaceStep ==
  ASSUME BalanceType, OnceInv, RowInv, PlaceInv, [Next]_vars
  PROVE  PlaceInv'
<1>0. /\ RunType /\ TodoIsUnmarked
      /\ pending \in [Creators -> Int]
      /\ Cents \in [Earnings -> Nat] /\ Earner \in [Earnings -> Creators]
  BY PromotionAssumption DEF OnceInv, BalanceType
<1> DEFINE Sum(c) == Cardinality(CentsOf(Unpromoted(c), Cents))
<1> SUFFICES ASSUME NEW c \in Creators
             PROVE  IsFiniteSet(CentsOf(Unpromoted(c), Cents)') /\ pending'[c] = Sum(c)'
  BY DEF PlaceInv, PendingIsUnpromoted
<1> DEFINE Goal == IsFiniteSet(CentsOf(Unpromoted(c), Cents)') /\ pending'[c] = Sum(c)'
<1>1. IsFiniteSet(CentsOf(Unpromoted(c), Cents)) /\ pending[c] = Sum(c)
  BY DEF PlaceInv, PendingIsUnpromoted
<1>2. ASSUME Unpromoted(c)' = Unpromoted(c), pending'[c] = pending[c] PROVE Goal
  BY <1>1, <1>2 DEF CentsOf
<1>3. ASSUME NEW e \in Earnings, CreditPending(e) PROVE Goal
  <2>1. /\ row[e] = "none" /\ row' = [row EXCEPT ![e] = "held"] /\ markers[e] = 0
        /\ pending' = Move(pending, Earner[e], Cents[e]) /\ UNCHANGED markers
    BY <1>3 DEF CreditPending, RowInv
  <2>2. row'[e] = "held" /\ \A d \in Earnings \ {e} : row'[d] = row[d]
    BY <2>1 DEF RowInv
  <2>3. CASE c # Earner[e]
    <3>1. Unpromoted(c)' = Unpromoted(c)
      BY <2>1, <2>2, <2>3 DEF Unpromoted
    <3>2. pending'[c] = pending[c]
      BY <1>0, <2>1, <2>3 DEF Move
    <3> QED
      BY <1>2, <3>1, <3>2
  <2>4. CASE c = Earner[e]
    <3>1. Unpromoted(c)' = Unpromoted(c) \cup {e} /\ e \notin Unpromoted(c)
      BY <2>1, <2>2, <2>4 DEF Unpromoted
    <3>2. pending'[c] = pending[c] + Cents[e] /\ Cents[e] \in Nat
      BY <1>0, <2>1, <2>4 DEF Move
    <3>3. /\ IsFiniteSet(CentsOf(Unpromoted(c) \cup {e}, Cents))
          /\ Cardinality(CentsOf(Unpromoted(c) \cup {e}, Cents)) = Sum(c) + Cents[e]
      BY <1>1, <3>1, <3>2, CentsAdded
    <3>4. CentsOf(Unpromoted(c), Cents)' = CentsOf(Unpromoted(c) \cup {e}, Cents)
      BY <3>1 DEF CentsOf
    <3> QED
      BY <1>1, <3>2, <3>3, <3>4
  <2> QED
    BY <2>3, <2>4
<1>4. ASSUME NEW x \in Runs, NEW e \in Earnings, PromoteRow(x, e) PROVE Goal
  <2>1. /\ row[e] = "matured" /\ markers[e] = 0 /\ UNCHANGED row
        /\ markers' = [markers EXCEPT ![e] = @ + 1]
        /\ pending' = Move(pending, Earner[e], -Cents[e])
    BY <1>0, <1>4 DEF PromoteRow, RowInv, TodoIsUnmarked
  <2>2. markers'[e] = 1 /\ \A d \in Earnings \ {e} : markers'[d] = markers[d]
    BY <1>0, <2>1 DEF RunType
  <2>3. CASE c # Earner[e]
    <3>1. Unpromoted(c)' = Unpromoted(c)
      BY <2>1, <2>2, <2>3 DEF Unpromoted
    <3>2. pending'[c] = pending[c]
      BY <1>0, <2>1, <2>3 DEF Move
    <3> QED
      BY <1>2, <3>1, <3>2
  <2>4. CASE c = Earner[e]
    <3>1. Unpromoted(c)' = Unpromoted(c) \ {e} /\ e \in Unpromoted(c)
      BY <2>1, <2>2, <2>4 DEF Unpromoted
    <3>2. pending'[c] = pending[c] + -Cents[e] /\ Cents[e] \in Nat
      BY <1>0, <2>1, <2>4 DEF Move
    <3>3. /\ IsFiniteSet(CentsOf(Unpromoted(c) \ {e}, Cents))
          /\ Cardinality(CentsOf(Unpromoted(c) \ {e}, Cents)) = Sum(c) - Cents[e]
      BY <1>1, <3>1, <3>2, CentsRemoved
    <3>4. CentsOf(Unpromoted(c), Cents)' = CentsOf(Unpromoted(c) \ {e}, Cents)
      BY <3>1 DEF CentsOf
    <3>5. Sum(c) \in Nat
      BY <1>1, FS_CardinalityType
    <3> QED
      BY <1>1, <3>2, <3>3, <3>4, <3>5
  <2> QED
    BY <2>3, <2>4
<1>5. ASSUME NEW e \in Earnings, HoldEnds(e) PROVE Goal
  <2>1. Unpromoted(c)' = Unpromoted(c) /\ UNCHANGED pending
    BY <1>5 DEF HoldEnds, balances, Unpromoted, RowInv
  <2> QED
    BY <1>2, <2>1
<1>6. ASSUME UNCHANGED <<pending, row, markers>> PROVE Goal
  <2>1. Unpromoted(c)' = Unpromoted(c)
    BY <1>6 DEF Unpromoted
  <2> QED
    BY <1>2, <1>6, <2>1
<1>7. ASSUME NEW x \in Runs, SelectMatured(x) \/ FinishRun(x) \/ StopRun(x) PROVE Goal
  BY <1>6, <1>7 DEF SelectMatured, FinishRun, StopRun, balances
<1>8. ASSUME NEW d \in Cashouts, Debit(d) \/ Refund(d) PROVE Goal
  BY <1>6, <1>8 DEF Debit, Refund
<1>9. CASE Reconcile \/ UNCHANGED vars
  BY <1>6, <1>9 DEF Reconcile, vars, balances
<1> QED
  BY <1>3, <1>4, <1>5, <1>7, <1>8, <1>9 DEF Next, RunStep

\* A cashout takes from a payable balance only what is there.
LEMMA PayoutStep ==
  ASSUME BalanceType, PayoutInv, [Next]_vars
  PROVE  PayoutInv'
<1>0. /\ payout \in [Creators -> Int] /\ Cents \in [Earnings -> Nat]
      /\ Earner \in [Earnings -> Creators] /\ Claimant \in [Cashouts -> Creators]
      /\ Claim \in [Cashouts -> Nat \ {0}]
  BY PromotionAssumption DEF BalanceType
<1> USE DEF PayoutInv, Move
<1>1. ASSUME UNCHANGED <<payout, cashout, drift>> PROVE PayoutInv'
  BY <1>1
<1>2. ASSUME NEW x \in Runs, NEW e \in Earnings, PromoteRow(x, e) PROVE PayoutInv'
  BY <1>0, <1>2 DEF PromoteRow
<1>3. ASSUME NEW d \in Cashouts, Debit(d) PROVE PayoutInv'
  BY <1>0, <1>3 DEF Debit, Covered
<1>4. ASSUME NEW d \in Cashouts, Refund(d) PROVE PayoutInv'
  BY <1>0, <1>4 DEF Refund
<1>5. CASE Reconcile
  BY <1>5 DEF Reconcile, balances
<1>6. ASSUME NEW x \in Runs, SelectMatured(x) \/ FinishRun(x) \/ StopRun(x) PROVE PayoutInv'
  BY <1>1, <1>6 DEF SelectMatured, FinishRun, StopRun, balances
<1>7. ASSUME NEW e \in Earnings, CreditPending(e) \/ HoldEnds(e) PROVE PayoutInv'
  BY <1>1, <1>7 DEF CreditPending, HoldEnds, balances
<1>8. CASE UNCHANGED vars
  BY <1>1, <1>8 DEF vars
<1> QED
  BY <1>2, <1>3, <1>4, <1>5, <1>6, <1>7, <1>8 DEF Next, RunStep

\* Every step keeps the rows, the pending and the payable cents together.
LEMMA MoneyStep ==
  ASSUME ~Overlap, MoneyInv, [Next]_vars
  PROVE  MoneyInv'
BY LedgerStep, OnceStep, RowStep, PlaceStep, PayoutStep DEF MoneyInv, LedgerInv

\* As long as runs do not overlap, the pending balance of every creator is
\* the sum of the earnings that are credited and not promoted.
THEOREM EveryCentIsInOnePlace ==
  ASSUME ~Overlap
  PROVE  Spec => []PendingIsUnpromoted
<1>1. MoneyInv /\ [Next]_vars => MoneyInv'
  BY MoneyStep
<1>2. MoneyInv => PendingIsUnpromoted
  BY DEF MoneyInv, PlaceInv
<1> QED BY <1>1, <1>2, MoneyInitial, PTL DEF Spec

\* So no balance is ever negative: a promotion moves cents that are pending,
\* a cashout cents that were promoted.
THEOREM TypeCorrect ==
  ASSUME ~Overlap
  PROVE  Spec => []TypeOK
<1>1. MoneyInv /\ [Next]_vars => MoneyInv'
  BY MoneyStep
<1>2. MoneyInv => TypeOK
  <2> SUFFICES ASSUME MoneyInv PROVE TypeOK
    OBVIOUS
  <2>1. BalanceType /\ Balanced /\ OnceInv /\ RowInv /\ PlaceInv /\ PayoutInv
    BY DEF MoneyInv, LedgerInv
  <2>2. \A c \in Creators : pending[c] \in Nat
    BY <2>1, FS_CardinalityType DEF PlaceInv, PendingIsUnpromoted
  <2>3. \A c \in Creators : payout[c] \in Nat
    BY <2>1 DEF BalanceType, PayoutInv
  <2>4. \A c \in Creators : ledger[c] \in Nat
    BY <2>1, <2>2, <2>3 DEF Balanced
  <2>5. /\ pending \in [Creators -> Nat] /\ payout \in [Creators -> Nat]
        /\ ledger \in [Creators -> Nat]
    BY <2>1, <2>2, <2>3, <2>4 DEF BalanceType
  <2> QED
    BY <2>1, <2>5 DEF TypeOK, OnceInv, RunType, RowInv, PayoutInv
<1> QED BY <1>1, <1>2, MoneyInitial, PTL DEF Spec
=============================================================================
