------------------------------ MODULE GiftsProofs ------------------------------
(***************************************************************************)
(* Theorems of Tiers and Gifts, for any number of wallets, creators and    *)
(* requests: the fee arithmetic loses no cent, no wallet is overdrawn, and *)
(* racing gifts never give a creator more than was given.                  *)
(***************************************************************************)
EXTENDS Gifts, FiniteSetTheorems, TLAPS

\* The two parts of a gift add up to it, and neither is negative.
THEOREM FeeSplitConserves ==
  ASSUME NEW gross \in Nat, NEW level \in Levels
  PROVE  /\ platformFeeCents(gross, level) \in Nat
         /\ creatorShareCents(gross, level) \in Nat
         /\ platformFeeCents(gross, level) + creatorShareCents(gross, level) = gross
<1>1. cut[level] \in {22, 18, 15, 12}
  BY DEF cut, Levels
<1>2. \A p \in {22, 18, 15, 12} : /\ (gross * p + 50) \div 100 \in Nat
                                  /\ (gross * p + 50) \div 100 <= gross
  OBVIOUS
<1> QED
  BY <1>1, <1>2 DEF platformFeeCents, creatorShareCents

\* At a higher level the creator's share of the same gift is never smaller.
THEOREM HigherLevelKeepsMore ==
  ASSUME NEW gross \in Nat, NEW l \in Levels, NEW m \in Levels, l <= m
  PROVE  creatorShareCents(gross, l) <= creatorShareCents(gross, m)
<1>1. cut[l] \in Nat /\ cut[m] \in Nat /\ cut[m] <= cut[l]
  BY DEF cut, Levels
<1>2. \A p, q \in {22, 18, 15, 12} : q <= p => (gross * q + 50) \div 100 <= (gross * p + 50) \div 100
  OBVIOUS
<1>3. cut[l] \in {22, 18, 15, 12} /\ cut[m] \in {22, 18, 15, 12}
  BY DEF cut, Levels
<1>4. \A p \in {22, 18, 15, 12} : (gross * p + 50) \div 100 \in Int
  OBVIOUS
<1> QED
  BY <1>1, <1>2, <1>3, <1>4 DEF platformFeeCents, creatorShareCents

\* More coins never earn a lower level.
LEMMA LevelIsMonotonic ==
  ASSUME NEW a \in Nat, NEW b \in Nat, a <= b
  PROVE  /\ calculateLevelFromCoins(a) \in Levels
         /\ calculateLevelFromCoins(a) <= calculateLevelFromCoins(b)
BY DEF calculateLevelFromCoins, Levels

\* A handler moves on and nothing else happens.
Quiet == UNCHANGED <<coinBalance, lifetimeCoins, currentLevel, earnings, given, sent>>

\* Each milestone a total reaches earns it one level more.
LEMMA LevelsOfTotals ==
  ASSUME NEW total \in Nat, NEW l \in 1 .. 3
  PROVE  total >= nextMilestone[l] <=> calculateLevelFromCoins(total) > l
<1>1. l = 1 \/ l = 2 \/ l = 3
  OBVIOUS
<1> QED
  BY <1>1 DEF nextMilestone, calculateLevelFromCoins

\* Types, no overdrawn wallet, and no coins in a profile or in a handler's
\* copy of it that were not given.
GiftInv ==
  /\ TypeOK
  /\ WalletNonNegative
  /\ LifetimeNeverOverstates
  /\ \A g \in Gifts : handler[g].lifetime <= given[Recipient[g]]

\* At first no wallet is overdrawn and no coins are counted that were not given.
LEMMA GiftInitial == Init => GiftInv
<1> SUFFICES ASSUME Init PROVE GiftInv
  OBVIOUS
<1>1. \A c \in Creators : StartLevel(c) \in Levels
  BY GiftAssumption, LevelIsMonotonic DEF StartLevel
<1> QED
  BY <1>1, GiftAssumption DEF Init, GiftInv, TypeOK, WalletNonNegative, LifetimeNeverOverstates,
     HandlerRecord, Levels

\* The debit is guarded, and a handler's copy of the coins is never above what was given.
LEMMA GiftStepKeepsInv ==
  ASSUME GiftInv, [Next]_vars
  PROVE  GiftInv'
<1> USE GiftAssumption DEF GiftInv, TypeOK, WalletNonNegative, LifetimeNeverOverstates, HandlerRecord
<1>1. CASE UNCHANGED vars
  BY <1>1 DEF vars
<1>2. ASSUME NEW g \in Gifts, Quiet, score' \in [Creators -> [Boards -> Nat]],
             NEW at \in {"idle", "profile", "send", "rank", "done", "failed"},
             NEW life \in Nat, life <= given[Recipient[g]],
             NEW tries \in Nat, Goto(g, at, life, tries)
      PROVE  GiftInv'
  <2>1. handler' = [handler EXCEPT ![g] = [at |-> at, lifetime |-> life, tries |-> tries]]
    BY <1>2 DEF Goto
  <2>2. handler' \in [Gifts -> HandlerRecord]
    BY <1>2, <2>1
  <2>3. \A h \in Gifts : handler'[h].lifetime <= given[Recipient[h]]
    BY <1>2, <2>1
  <2> QED
    BY <1>2, <2>2, <2>3 DEF Quiet
<1>3. ASSUME NEW g \in Gifts, ReadWallet(g) \/ RefuseGift(g) \/ CrashHandler(g) \/ Retry(g)
      PROVE  GiftInv'
  <2>1. 0 <= given[Recipient[g]] /\ handler[g].tries \in Nat /\ handler[g].tries + 1 \in Nat
    OBVIOUS
  <2>2. Quiet /\ score' \in [Creators -> [Boards -> Nat]]
    BY <1>3 DEF ReadWallet, RefuseGift, CrashHandler, Retry, Quiet
  <2>3. PICK at \in {"idle", "profile", "failed"}, tries \in Nat : Goto(g, at, 0, tries)
    BY <1>3, <2>1 DEF ReadWallet, RefuseGift, CrashHandler, Retry
  <2>4. at \in {"idle", "profile", "send", "rank", "done", "failed"} /\ 0 \in Nat
    OBVIOUS
  <2> HIDE DEF GiftInv, TypeOK, WalletNonNegative, LifetimeNeverOverstates
  <2> QED
    BY <1>2, <2>1, <2>2, <2>3, <2>4
<1>4. ASSUME NEW g \in Gifts, ReadProfile(g) PROVE GiftInv'
  BY <1>2, <1>4 DEF ReadProfile, Quiet
<1>5. ASSUME NEW g \in Gifts PROVE tier(g) \in Levels /\ totalAfter(g) \in Nat /\ share(g) \in Nat
  <2>1. totalAfter(g) \in Nat
    BY DEF totalAfter
  <2>2. tier(g) \in Levels
    BY <2>1, LevelIsMonotonic, totalAfter(g) <= totalAfter(g) DEF tier
  <2>3. UsdCents[g] \in Nat
    OBVIOUS
  <2> QED
    BY <2>1, <2>2, <2>3, FeeSplitConserves DEF share
<1>6. ASSUME NEW g \in Gifts, RankGift(g) PROVE GiftInv'
  <2>1. ASSUME NEW times \in [Boards -> Nat], Ranked(g, times)
        PROVE  score' \in [Creators -> [Boards -> Nat]]
    <3> DEFINE row == [b \in Boards |-> score[Recipient[g]][b] + times[b] * share(g)]
    <3>1. Recipient[g] \in Creators /\ score[Recipient[g]] \in [Boards -> Nat]
      OBVIOUS
    <3>2. row \in [Boards -> Nat]
      <4>1. ASSUME NEW b \in Boards PROVE row[b] \in Nat
        <5>1. score[Recipient[g]][b] \in Nat /\ share(g) \in Nat /\ times[b] \in Nat
          BY <1>5, <3>1
        <5>2. times[b] * share(g) \in Nat
          BY <5>1
        <5> QED
          BY <5>1, <5>2
      <4> HIDE DEF TypeOK
      <4> QED
        BY <4>1
    <3>3. score' = [score EXCEPT ![Recipient[g]] = row]
      BY <2>1 DEF Ranked
    <3> HIDE DEF row
    <3> QED
      BY <3>1, <3>2, <3>3
  <2>2. Quiet /\ \E times \in [Boards -> Nat] : Ranked(g, times)
    <3>1. [Boards -> Answered] \subseteq [Boards -> Nat] /\ [Boards -> Thrown] \subseteq [Boards -> Nat]
      BY DEF Answered, Thrown
    <3> QED
      BY <1>6, <3>1 DEF RankGift, Quiet
  <2>3. PICK at \in {"done", "failed"} : Goto(g, at, 0, handler[g].tries)
    BY <1>6 DEF RankGift
  <2>4. 0 <= given[Recipient[g]] /\ handler[g].tries \in Nat
    OBVIOUS
  <2>5. score' \in [Creators -> [Boards -> Nat]]
    <3>1. PICK times \in [Boards -> Nat] : Ranked(g, times)
      BY <2>2
    <3> QED
      BY <2>1, <3>1
  <2>6. at \in {"idle", "profile", "send", "rank", "done", "failed"} /\ 0 \in Nat
    OBVIOUS
  <2> HIDE DEF GiftInv, TypeOK, WalletNonNegative, LifetimeNeverOverstates
  <2> QED
    BY <1>2, <2>2, <2>3, <2>4, <2>5, <2>6
<1>7. ASSUME NEW g \in Gifts, SendGift(g) PROVE GiftInv'
  <2> DEFINE c == Recipient[g]
  <2>1. /\ c \in Creators /\ Sender[g] \in Wallets /\ Coins[g] \in Nat
        /\ coinBalance[Sender[g]] - Coins[g] >= 0
        /\ totalAfter(g) = handler[g].lifetime + Coins[g]
        /\ coinBalance' = [coinBalance EXCEPT ![Sender[g]] = @ - Coins[g]]
        /\ given' = [given EXCEPT ![c] = @ + Coins[g]]
        /\ lifetimeCoins' = [lifetimeCoins EXCEPT ![c] = totalAfter(g)]
        /\ UNCHANGED score
    BY <1>7 DEF SendGift, Affords, totalAfter
  <2>2. WalletNonNegative' /\ coinBalance' \in [Wallets -> Int]
    BY <2>1
  <2>3. given' \in [Creators -> Nat] /\ \A d \in Creators : given[d] <= given'[d]
    BY <2>1
  <2>4. totalAfter(g) <= given'[c]
    BY <2>1
  <2>5. lifetimeCoins' \in [Creators -> Nat] /\ LifetimeNeverOverstates'
    BY <1>5, <2>1, <2>3, <2>4
  <2>6. /\ handler' \in [Gifts -> HandlerRecord]
        /\ \A h \in Gifts : handler'[h].lifetime = handler[h].lifetime
    BY <1>7 DEF SendGift, Goto
  <2>7. \A h \in Gifts : handler'[h].lifetime <= given'[Recipient[h]]
    <3>1. ASSUME NEW h \in Gifts PROVE handler'[h].lifetime <= given'[Recipient[h]]
      <4>1. /\ Recipient[h] \in Creators /\ handler[h].lifetime \in Nat
            /\ handler[h].lifetime <= given[Recipient[h]]
            /\ given[Recipient[h]] \in Nat /\ given'[Recipient[h]] \in Nat
            /\ given[Recipient[h]] <= given'[Recipient[h]]
        BY <2>3
      <4> QED
        BY <2>6, <4>1
    <3> QED
      BY <3>1
  <2>8. /\ sent' \in [Gifts -> Nat] /\ earnings' \in [Creators -> Nat]
        /\ currentLevel' \in [Creators -> Levels]
    BY <1>5, <1>7 DEF SendGift
  <2> QED
    BY <2>1, <2>2, <2>3, <2>5, <2>6, <2>7, <2>8
<1> QED
  BY <1>1, <1>3, <1>4, <1>6, <1>7 DEF Next, GiftStep

\* So no wallet is overdrawn, and no coins are counted that were not given, throughout.
LEMMA GiftInvariant == Spec => []GiftInv
BY GiftInitial, GiftStepKeepsInv, PTL DEF Spec

\* Balances, profiles, leaderboards and handlers keep their types.
THEOREM TypeCorrect == Spec => []TypeOK
<1>1. GiftInv => TypeOK
  BY DEF GiftInv
<1> QED
  BY <1>1, GiftInvariant, PTL

\* No wallet is overdrawn, however gifts race and requests are repeated.
THEOREM WalletsNeverOverdrawn == Spec => []WalletNonNegative
<1>1. GiftInv => WalletNonNegative
  BY DEF GiftInv
<1> QED
  BY <1>1, GiftInvariant, PTL

\* A profile's level is the one its coins earn.
LevelInv == TypeOK /\ \A c \in Creators : currentLevel[c] = calculateLevelFromCoins(lifetimeCoins[c])

\* At first every profile has the level of no coins.
LEMMA LevelInitial == Init => LevelInv
BY GiftInitial DEF Init, LevelInv, GiftInv, StartLevel

\* The coins and the level they earn are written by one update.
LEMMA LevelStep ==
  ASSUME LevelInv, GiftInv, [Next]_vars
  PROVE  LevelInv'
<1>1. TypeOK'
  BY GiftStepKeepsInv DEF GiftInv
<1>2. CASE UNCHANGED <<lifetimeCoins, currentLevel>>
  BY <1>1, <1>2 DEF LevelInv
<1>3. ASSUME NEW g \in Gifts, SendGift(g) PROVE LevelInv'
  <2>1. /\ lifetimeCoins' = [lifetimeCoins EXCEPT ![Recipient[g]] = totalAfter(g)]
        /\ currentLevel' = [currentLevel EXCEPT ![Recipient[g]] = calculateLevelFromCoins(totalAfter(g))]
    BY <1>3 DEF SendGift, tier
  <2> HIDE DEF totalAfter
  <2> QED
    BY <1>1, <2>1 DEF LevelInv, TypeOK
<1> QED
  BY <1>2, <1>3 DEF Next, GiftStep, ReadWallet, ReadProfile, RefuseGift, RankGift, CrashHandler,
     Retry, vars

\* A gift that reaches a milestone raises the level with it, and only then.
THEOREM LevelsAgreeWithCoins == Spec => []LevelsFollowMilestones
<1>1. LevelInv => LevelsFollowMilestones
  BY LevelsOfTotals DEF LevelInv, TypeOK, LevelsFollowMilestones
<1> QED
  BY <1>1, LevelInitial, LevelStep, GiftInvariant, PTL DEF Spec

\* Racing gifts lose coins of a creator's total but never invent any.
THEOREM LifetimeIsGiven == Spec => []LifetimeNeverOverstates
<1>1. GiftInv => LifetimeNeverOverstates
  BY DEF GiftInv
<1> QED
  BY <1>1, GiftInvariant, PTL

\* So no gift is split at a level its creator has not reached.
THEOREM CutsAreEarned == Spec => NoUnearnedCut
<1>1. ASSUME GiftInv, Next, NEW g \in Gifts, sent'[g] # sent[g]
      PROVE  tier(g) <= calculateLevelFromCoins(given'[Recipient[g]])
  <2> USE GiftAssumption DEF GiftInv, TypeOK, HandlerRecord
  <2>1. PICK h \in Gifts : GiftStep(h)
    BY <1>1 DEF Next
  <2>2. SendGift(h) \/ UNCHANGED sent
    BY <2>1 DEF GiftStep, ReadWallet, ReadProfile, RefuseGift, RankGift, CrashHandler, Retry
  <2>3. SendGift(g)
    BY <1>1, <2>2 DEF SendGift
  <2>4. given' = [given EXCEPT ![Recipient[g]] = @ + Coins[g]]
    BY <2>3 DEF SendGift
  <2>5. /\ totalAfter(g) \in Nat /\ given'[Recipient[g]] \in Nat
        /\ totalAfter(g) <= given'[Recipient[g]]
    BY <1>1, <2>4 DEF totalAfter
  <2> QED
    BY <2>5, LevelIsMonotonic DEF tier
<1>2. GiftInv /\ [Next]_vars =>
        [\A g \in Gifts : sent'[g] # sent[g] =>
           tier(g) <= calculateLevelFromCoins(given'[Recipient[g]])]_vars
  BY <1>1
<1> QED
  BY <1>2, GiftInvariant, PTL DEF Spec, NoUnearnedCut
-----------------------------------------------------------------------------
(* The leaderboards.                                                       *)

\* One element per cent of the amounts of S: their sum is the cardinality.
CentsOf(S, amount) == UNION {{x} \X (1 .. amount[x]) : x \in S}

\* An amount more, of an element that was not there, is that much more.
LEMMA CentsAdded ==
  ASSUME NEW S, NEW amount, NEW x, x \notin S, amount[x] \in Nat,
         IsFiniteSet(CentsOf(S, amount))
  PROVE  /\ IsFiniteSet(CentsOf(S \cup {x}, amount))
         /\ Cardinality(CentsOf(S \cup {x}, amount)) = Cardinality(CentsOf(S, amount)) + amount[x]
<1> DEFINE more == {x} \X (1 .. amount[x])
<1>1. CentsOf(S \cup {x}, amount) = CentsOf(S, amount) \cup more
  BY DEF CentsOf
<1>2. IsFiniteSet(more) /\ Cardinality(more) = amount[x]
  <2> DEFINE cents == 1 .. amount[x]
  <2>1. IsFiniteSet(cents) /\ Cardinality(cents) = amount[x]
    BY FS_Interval
  <2>2. IsFiniteSet({x}) /\ Cardinality({x}) = 1
    BY FS_Singleton
  <2> HIDE DEF cents
  <2>3. /\ IsFiniteSet({x} \X cents)
        /\ Cardinality({x} \X cents) = Cardinality({x}) * Cardinality(cents)
    BY <2>1, <2>2, FS_Product
  <2>4. Cardinality({x} \X cents) = amount[x]
    BY <2>1, <2>2, <2>3
  <2> QED
    BY <2>3, <2>4 DEF cents
<1>3. CentsOf(S, amount) \cap more = {}
  BY DEF CentsOf
<1>4. Cardinality(CentsOf(S, amount)) \in Nat /\ Cardinality({}) = 0
  BY FS_CardinalityType, FS_EmptySet
<1> HIDE DEF more
<1>5. /\ IsFiniteSet(CentsOf(S, amount) \cup more)
      /\ Cardinality(CentsOf(S, amount) \cup more) =
           Cardinality(CentsOf(S, amount)) + Cardinality(more) - Cardinality(CentsOf(S, amount) \cap more)
  BY <1>2, FS_Union, Zenon
<1>6. Cardinality(CentsOf(S, amount) \cap more) = 0
  BY <1>3, <1>4
<1>7. Cardinality(CentsOf(S, amount) \cup more) = Cardinality(CentsOf(S, amount)) + amount[x]
  BY <1>2, <1>4, <1>5, <1>6
<1> QED
  BY <1>1, <1>5, <1>7

\* And an amount less is that much less.
LEMMA CentsRemoved ==
  ASSUME NEW S, NEW amount, NEW x \in S, amount[x] \in Nat,
         IsFiniteSet(CentsOf(S, amount))
  PROVE  /\ IsFiniteSet(CentsOf(S \ {x}, amount))
         /\ Cardinality(CentsOf(S \ {x}, amount)) = Cardinality(CentsOf(S, amount)) - amount[x]
<1> DEFINE rest == S \ {x}
<1>1. rest \cup {x} = S /\ x \notin rest
  OBVIOUS
<1>2. CentsOf(rest, amount) \in SUBSET CentsOf(S, amount)
  BY DEF CentsOf
<1>3. IsFiniteSet(CentsOf(rest, amount))
  BY <1>2, FS_Subset
<1>4. Cardinality(CentsOf(rest, amount)) \in Nat
  BY <1>3, FS_CardinalityType
<1>5. Cardinality(CentsOf(rest \cup {x}, amount)) = Cardinality(CentsOf(rest, amount)) + amount[x]
  BY <1>1, <1>3, CentsAdded
<1>6. CentsOf(rest \cup {x}, amount) = CentsOf(S, amount)
  BY <1>1
<1> QED
  BY <1>3, <1>4, <1>5, <1>6

\* The shares of a creator that are committed and not on the boards yet: what
\* the handlers at "rank" are about to add, unless they fail.
UnrankedGifts(c) == {g \in Gifts : handler[g].at = "rank" /\ Recipient[g] = c}
Unranked(c) == CentsOf(UnrankedGifts(c), [g \in Gifts |-> share(g)])

\* An amount that is added by a command and by each time it is sent again.
Resent(n) == (1 + Resends) * n

\* Such an amount is a number.
LEMMA ResentType == \A n \in Nat : Resent(n) \in Nat
<1>1. \A k, n \in Nat : (1 + k) * n \in Nat
  OBVIOUS
<1> QED
  BY <1>1, GiftAssumption DEF Resent

\* Sums and their commands can be counted apart.
LEMMA ResentAdds == \A m, n \in Nat : Resent(m + n) = Resent(m) + Resent(n)
<1>1. \A k, m, n \in Nat : (1 + k) * (m + n) = (1 + k) * m + (1 + k) * n
  OBVIOUS
<1> QED
  BY <1>1, GiftAssumption DEF Resent

\* A larger amount is larger with its repeats too.
LEMMA ResentIsMonotonic == \A m, n \in Nat : m <= n => Resent(m) <= Resent(n)
<1> SUFFICES ASSUME NEW m \in Nat, NEW n \in Nat, m <= n PROVE Resent(m) <= Resent(n)
  OBVIOUS
<1>1. PICK d \in Nat : n = m + d
  <2>1. n - m \in Nat /\ n = m + (n - m)
    OBVIOUS
  <2> QED
    BY <2>1
<1>2. Resent(n) = Resent(m) + Resent(d) /\ Resent(m) \in Nat /\ Resent(d) \in Nat
  BY <1>1, ResentAdds, ResentType
<1> QED
  BY <1>2

\* One command adds an amount as often as it took effect.
LEMMA EffectsAreBounded ==
  ASSUME NEW t \in 0 .. 1 + Resends, NEW n \in Nat
  PROVE  t * n \in Nat /\ t * n <= Resent(n)
<1>1. \A m, k, l \in Nat : (m + l) * k = m * k + l * k
  OBVIOUS
<1>2. \A m, k \in Nat : m * k \in Nat
  OBVIOUS
<1>3. PICK rest \in Nat : 1 + Resends = t + rest
  <2>1. 1 + Resends - t \in Nat /\ 1 + Resends = t + (1 + Resends - t)
    BY GiftAssumption
  <2> QED
    BY <2>1
<1>4. t \in Nat
  BY GiftAssumption
<1>5. Resent(n) = t * n + rest * n
  BY <1>1, <1>3, <1>4 DEF Resent
<1>6. t * n \in Nat /\ rest * n \in Nat
  BY <1>2, <1>4
<1> QED
  BY <1>5, <1>6

\* A board, and what the shares still to be added to it may add, make up at
\* most what the earnings may.
BoardInv ==
  \A c \in Creators :
    /\ IsFiniteSet(Unranked(c))
    /\ \A b \in Boards : score[c][b] + Resent(Cardinality(Unranked(c))) <= Resent(earnings[c])

\* At first nothing is earned and nothing is ranked.
LEMMA BoardInitial == Init => BoardInv
<1> SUFFICES ASSUME Init, NEW c \in Creators
             PROVE  /\ IsFiniteSet(Unranked(c))
                    /\ \A b \in Boards :
                         score[c][b] + Resent(Cardinality(Unranked(c))) <= Resent(earnings[c])
  BY DEF BoardInv
<1>1. Unranked(c) = {}
  BY DEF Init, Unranked, UnrankedGifts, CentsOf
<1>2. earnings[c] = 0 /\ \A b \in Boards : score[c][b] = 0
  BY DEF Init
<1> QED
  BY <1>1, <1>2, FS_EmptySet, ResentType

\* A share depends on its own handler only.
LEMMA ShareOfHandler ==
  ASSUME NEW g \in Gifts, handler'[g].lifetime = handler[g].lifetime
  PROVE  share(g)' = share(g)
BY DEF share, tier, totalAfter

\* The creator's share of a gift is a number of cents.
LEMMA ShareType == ASSUME GiftInv, NEW g \in Gifts PROVE share(g) \in Nat
<1>1. totalAfter(g) \in Nat /\ UsdCents[g] \in Nat
  BY GiftAssumption DEF GiftInv, TypeOK, HandlerRecord, totalAfter
<1>2. tier(g) \in Levels
  BY <1>1, LevelIsMonotonic, totalAfter(g) <= totalAfter(g) DEF tier
<1> QED
  BY <1>1, <1>2, FeeSplitConserves DEF share

\* If no handler of c gets to "rank", no more is to be added to its boards.
LEMMA NoneMoreUnranked ==
  ASSUME BoardInv, NEW c \in Creators,
         \A g \in UnrankedGifts(c)' : g \in UnrankedGifts(c) /\ handler'[g] = handler[g]
  PROVE  /\ IsFiniteSet(Unranked(c)')
         /\ Cardinality(Unranked(c)') \in Nat
         /\ Cardinality(Unranked(c)) \in Nat
         /\ Cardinality(Unranked(c)') <= Cardinality(Unranked(c))
<1>1. \A g \in UnrankedGifts(c)' : g \in Gifts /\ share(g)' = share(g)
  BY ShareOfHandler DEF UnrankedGifts
<1>2. Unranked(c)' \subseteq Unranked(c)
  BY <1>1 DEF Unranked, CentsOf, UnrankedGifts
<1>3. IsFiniteSet(Unranked(c))
  BY DEF BoardInv
<1> QED
  BY <1>2, <1>3, FS_Subset, FS_CardinalityType

\* A score grows by a share that was earned and not yet ranked.
LEMMA BoardStep ==
  ASSUME GiftInv, BoardInv, [Next]_vars
  PROVE  BoardInv'
<1> DEFINE Holds(c) == /\ IsFiniteSet(Unranked(c))
                       /\ \A b \in Boards :
                            score[c][b] + Resent(Cardinality(Unranked(c))) <= Resent(earnings[c])
<1>0. /\ score \in [Creators -> [Boards -> Nat]] /\ earnings \in [Creators -> Nat]
      /\ handler \in [Gifts -> HandlerRecord] /\ Recipient \in [Gifts -> Creators]
      /\ \A c \in Creators : Holds(c) /\ Cardinality(Unranked(c)) \in Nat
  BY GiftAssumption, FS_CardinalityType DEF GiftInv, TypeOK, BoardInv
<1> SUFFICES ASSUME NEW c \in Creators PROVE Holds(c)'
  BY DEF BoardInv
<1>k. ASSUME UNCHANGED <<score, earnings>>,
             \A g \in UnrankedGifts(c)' : g \in UnrankedGifts(c) /\ handler'[g] = handler[g]
      PROVE  Holds(c)'
  <2>1. /\ IsFiniteSet(Unranked(c)') /\ Cardinality(Unranked(c)') \in Nat
        /\ Cardinality(Unranked(c)') <= Cardinality(Unranked(c))
    BY <1>k, NoneMoreUnranked
  <2>2. /\ Resent(Cardinality(Unranked(c)')) <= Resent(Cardinality(Unranked(c)))
        /\ Resent(Cardinality(Unranked(c)')) \in Nat /\ Resent(Cardinality(Unranked(c))) \in Nat
    BY <1>0, <2>1, ResentIsMonotonic, ResentType
  <2>3. Resent(earnings[c]) \in Nat
    BY <1>0, ResentType
  <2>4. ASSUME NEW b \in Boards
        PROVE  score'[c][b] + Resent(Cardinality(Unranked(c)')) <= Resent(earnings'[c])
    <3>1. score[c][b] \in Nat /\ UNCHANGED <<score, earnings>>
      BY <1>0, <1>k
    <3> QED
      BY <1>0, <2>2, <2>3, <3>1
  <2> QED
    BY <2>1, <2>4 DEF Resent
<1>1. CASE UNCHANGED vars
  BY <1>1, <1>k DEF vars, UnrankedGifts
<1>2. ASSUME NEW g \in Gifts,
             ReadWallet(g) \/ ReadProfile(g) \/ RefuseGift(g) \/ CrashHandler(g) \/ Retry(g)
      PROVE  Holds(c)'
  <2>1. UNCHANGED <<score, earnings>>
    BY <1>2 DEF ReadWallet, ReadProfile, RefuseGift, CrashHandler, Retry
  <2>2. handler'[g].at # "rank" /\ \A h \in Gifts \ {g} : handler'[h] = handler[h]
    BY <1>0, <1>2 DEF ReadWallet, ReadProfile, RefuseGift, CrashHandler, Retry, Goto
  <2> QED
    BY <1>k, <2>1, <2>2 DEF UnrankedGifts
<1>3. ASSUME NEW g \in Gifts, SendGift(g) PROVE Holds(c)'
  <2> DEFINE u == Recipient[g]
  <2>1. /\ handler[g].at = "send" /\ handler'[g].at = "rank"
        /\ \A h \in Gifts : handler'[h].lifetime = handler[h].lifetime
        /\ \A h \in Gifts \ {g} : handler'[h] = handler[h]
        /\ earnings' = [earnings EXCEPT ![u] = @ + share(g)]
        /\ UNCHANGED score
    BY <1>0, <1>3 DEF SendGift, Goto
  <2>2. CASE c # u
    <3>1. UNCHANGED Unranked(c)
      <4>1. UnrankedGifts(c)' = UnrankedGifts(c)
        BY <2>1, <2>2 DEF UnrankedGifts
      <4>2. \A h \in Gifts : share(h)' = share(h)
        BY <2>1, ShareOfHandler
      <4> QED
        BY <4>1, <4>2 DEF Unranked
    <3>2. earnings'[c] = earnings[c]
      BY <1>0, <2>1, <2>2
    <3> QED
      BY <1>0, <2>1, <3>1, <3>2 DEF Resent
  <2>3. CASE c = u
    <3> DEFINE shares == [h \in Gifts |-> share(h)]
    <3>1. UnrankedGifts(c)' = UnrankedGifts(c) \cup {g} /\ g \notin UnrankedGifts(c)
      BY <2>1, <2>3 DEF UnrankedGifts
    <3>2. shares' = shares /\ shares[g] = share(g) /\ share(g) \in Nat
      BY <2>1, ShareOfHandler, ShareType
    <3> HIDE DEF shares
    <3>3. Unranked(c)' = CentsOf(UnrankedGifts(c) \cup {g}, shares)
      BY <3>1, <3>2 DEF Unranked, shares
    <3>4. IsFiniteSet(CentsOf(UnrankedGifts(c), shares)) /\ Unranked(c) = CentsOf(UnrankedGifts(c), shares)
      BY <1>0 DEF Unranked, shares
    <3>5. /\ IsFiniteSet(Unranked(c)')
          /\ Cardinality(Unranked(c)') = Cardinality(Unranked(c)) + share(g)
      BY <3>1, <3>2, <3>3, <3>4, CentsAdded
    <3>6. earnings'[c] = earnings[c] + share(g)
      BY <1>0, <2>1, <2>3
    <3>7. ASSUME NEW b \in Boards
          PROVE  score'[c][b] + Resent(Cardinality(Unranked(c)')) <= Resent(earnings'[c])
      <4>1. score[c][b] \in Nat /\ score'[c][b] = score[c][b] /\ earnings[c] \in Nat
        BY <1>0, <2>1
      <4>2. /\ Resent(Cardinality(Unranked(c)')) = Resent(Cardinality(Unranked(c))) + Resent(share(g))
            /\ Resent(earnings'[c]) = Resent(earnings[c]) + Resent(share(g))
        BY <1>0, <3>2, <3>5, <3>6, <4>1, ResentAdds
      <4>3. /\ Resent(Cardinality(Unranked(c))) \in Nat /\ Resent(share(g)) \in Nat
            /\ Resent(earnings[c]) \in Nat
        BY <1>0, <3>2, <4>1, ResentType
      <4> QED
        BY <1>0, <4>1, <4>2, <4>3
    <3> QED
      BY <3>5, <3>7 DEF Resent
  <2> QED
    BY <2>2, <2>3
<1>4. ASSUME NEW g \in Gifts, RankGift(g) PROVE Holds(c)'
  <2> DEFINE u == Recipient[g]
  <2>1. /\ handler[g].at = "rank" /\ handler'[g].at # "rank"
        /\ \A h \in Gifts \ {g} : handler'[h] = handler[h]
        /\ UNCHANGED earnings
    BY <1>0, <1>4 DEF RankGift, Goto
  <2>2. PICK times \in [Boards -> 0 .. 1 + Resends] : Ranked(g, times)
    <3>1. [Boards -> Answered] \subseteq [Boards -> 0 .. 1 + Resends] /\ Thrown = 0 .. 1 + Resends
      BY GiftAssumption DEF Answered, Thrown
    <3> QED
      BY <1>4, <3>1 DEF RankGift
  <2>3. CASE c # u
    <3>1. score'[c] = score[c]
      BY <1>0, <2>2, <2>3 DEF Ranked
    <3>2. \A h \in UnrankedGifts(c)' : h \in UnrankedGifts(c) /\ handler'[h] = handler[h]
      BY <2>1 DEF UnrankedGifts
    <3>3. /\ IsFiniteSet(Unranked(c)') /\ Cardinality(Unranked(c)') \in Nat
          /\ Cardinality(Unranked(c)') <= Cardinality(Unranked(c))
      BY <3>2, NoneMoreUnranked
    <3>4. /\ Resent(Cardinality(Unranked(c)')) <= Resent(Cardinality(Unranked(c)))
          /\ Resent(Cardinality(Unranked(c)')) \in Nat /\ Resent(Cardinality(Unranked(c))) \in Nat
      BY <1>0, <3>3, ResentIsMonotonic, ResentType
    <3>5. ASSUME NEW b \in Boards
          PROVE  score'[c][b] + Resent(Cardinality(Unranked(c)')) <= Resent(earnings'[c])
      <4>1. /\ score'[c][b] = score[c][b] /\ score[c][b] \in Nat
            /\ earnings'[c] = earnings[c] /\ Resent(earnings[c]) \in Nat
        BY <1>0, <2>1, <3>1, ResentType
      <4> QED
        BY <1>0, <3>4, <4>1
    <3> QED
      BY <3>3, <3>5 DEF Resent
  <2>4. CASE c = u
    <3> DEFINE shares == [h \in Gifts |-> share(h)]
               rest == UnrankedGifts(c) \ {g}
    <3>1. UnrankedGifts(c)' = rest /\ g \in UnrankedGifts(c)
      BY <2>1, <2>4 DEF UnrankedGifts
    <3>2. shares[g] = share(g) /\ share(g) \in Nat
      BY ShareType
    <3>3. \A h \in rest : share(h)' = share(h) /\ h \in Gifts
      BY <2>1, ShareOfHandler DEF UnrankedGifts
    <3>4. Unranked(c)' = CentsOf(rest, shares)
      BY <3>1, <3>3 DEF Unranked, CentsOf
    <3>5. Unranked(c) = CentsOf(UnrankedGifts(c), shares)
      BY DEF Unranked
    <3> HIDE DEF shares
    <3>a. IsFiniteSet(CentsOf(UnrankedGifts(c), shares))
      BY <1>0, <3>5
    <3>b. /\ IsFiniteSet(CentsOf(rest, shares))
          /\ Cardinality(CentsOf(rest, shares)) = Cardinality(CentsOf(UnrankedGifts(c), shares)) - shares[g]
      BY <3>1, <3>2, <3>a, CentsRemoved
    <3> HIDE DEF rest
    <3>6. /\ IsFiniteSet(Unranked(c)')
          /\ Cardinality(Unranked(c)') = Cardinality(Unranked(c)) - share(g)
      BY <3>2, <3>4, <3>5, <3>b
    <3>7. ASSUME NEW b \in Boards
          PROVE  score'[c][b] + Resent(Cardinality(Unranked(c)')) <= Resent(earnings'[c])
      <4>1. score[c][b] \in Nat /\ earnings'[c] = earnings[c] /\ earnings[c] \in Nat
        BY <1>0, <2>1
      <4>2. score'[c] = [d \in Boards |-> score[c][d] + times[d] * share(g)]
        BY <1>0, <2>2, <2>4 DEF Ranked
      <4>3. score'[c][b] = score[c][b] + times[b] * share(g) /\ times[b] \in 0 .. 1 + Resends
        BY <2>2, <4>2
      <4>4. times[b] * share(g) \in Nat /\ times[b] * share(g) <= Resent(share(g))
        BY <3>2, <4>3, EffectsAreBounded
      <4>5. /\ Cardinality(Unranked(c)') \in Nat
            /\ Cardinality(Unranked(c)) = Cardinality(Unranked(c)') + share(g)
        BY <1>0, <3>2, <3>6, FS_CardinalityType
      <4>6. Resent(Cardinality(Unranked(c))) = Resent(Cardinality(Unranked(c)')) + Resent(share(g))
        BY <3>2, <4>5, ResentAdds
      <4>7. /\ Resent(Cardinality(Unranked(c)')) \in Nat /\ Resent(share(g)) \in Nat
            /\ Resent(earnings[c]) \in Nat
        BY <3>2, <4>1, <4>5, ResentType
      <4> QED
        BY <1>0, <4>1, <4>3, <4>4, <4>6, <4>7
    <3> QED
      BY <3>6, <3>7 DEF Resent
  <2> QED
    BY <2>3, <2>4
<1> QED
  BY <1>1, <1>2, <1>3, <1>4 DEF Next, GiftStep

\* Whatever races, fails half-way or is repeated, a leaderboard shows a share
\* only after the transaction that earned it, and at most as often as ioredis
\* sent the one command that adds it.
THEOREM BoardsShowEarnings == Spec => []BoardsNeverOverstate
<1>1. GiftInv /\ BoardInv => BoardsNeverOverstate
  <2> SUFFICES ASSUME GiftInv, BoardInv, NEW c \in Creators, NEW b \in Boards
               PROVE  score[c][b] <= Resent(earnings[c])
    BY DEF BoardsNeverOverstate, Resent
  <2>1. /\ score[c][b] \in Nat /\ earnings[c] \in Nat /\ Cardinality(Unranked(c)) \in Nat
        /\ score[c][b] + Resent(Cardinality(Unranked(c))) <= Resent(earnings[c])
    BY FS_CardinalityType DEF GiftInv, TypeOK, BoardInv
  <2>2. Resent(Cardinality(Unranked(c))) \in Nat /\ Resent(earnings[c]) \in Nat
    BY <2>1, ResentType
  <2> QED
    BY <2>1, <2>2
<1>2. Init => BoardInv
  BY BoardInitial
<1>3. GiftInv /\ BoardInv /\ [Next]_vars => BoardInv'
  BY BoardStep
<1> QED
  BY <1>1, <1>2, <1>3, GiftInvariant, PTL DEF Spec

\* So they show what was earned, as long as no command is sent again.
THEOREM BoardsShowEarningsOnce ==
  ASSUME Resends = 0
  PROVE  Spec => []BoardsAreEarned
<1>1. GiftInv /\ BoardsNeverOverstate => BoardsAreEarned
  BY DEF GiftInv, TypeOK, BoardsNeverOverstate, BoardsAreEarned
<1> QED
  BY <1>1, GiftInvariant, BoardsShowEarnings, PTL
=============================================================================
