--------------------------------- MODULE Gifts ---------------------------------
(****************************************************************************)
(* Sending a gift: POST /api/gifts/send (src/routes/gifts.ts).  The handler *)
(* reads the sender's wallet and the creator's profile, then in one         *)
(* transaction debits the wallet, inserts the gift event, credits the       *)
(* creator and writes the creator's level; then it updates the leaderboards *)
(* in Redis.  Any number of handlers run at once.                           *)
(*                                                                          *)
(* A step is one statement or transaction.  A handler that fails answers    *)
(* 500, which src/idempotency.ts does not cache, so the client may send the *)
(* request again under the same key.                                        *)
(****************************************************************************)
EXTENDS Tiers

CONSTANTS
  Gifts,              \* requests, each under an Idempotency-Key of its own
  Wallets, Creators,
  Sender, Recipient,  \* senderWalletToken and creatorId of each request
  Coins, UsdCents,    \* the price of each request's gift
  Balance,            \* coin_balance of each wallet at the start
  Lifetime,           \* lifetime_coins of each creator at the start
  MaxTries,           \* bound: how often a client sends one request
  Resends,            \* how often ioredis sends a command again whose reply was lost
  Faults

FaultKinds == {"redis", "crash"}
Boards == 1 .. 3   \* lb:creators:day, week and month, in the order they are updated

ASSUME GiftAssumption ==
  /\ Sender \in [Gifts -> Wallets]
  /\ Recipient \in [Gifts -> Creators]
  /\ Coins \in [Gifts -> Nat]
  /\ UsdCents \in [Gifts -> Nat]
  /\ Balance \in [Wallets -> Nat]
  /\ Lifetime \in [Creators -> Nat]
  /\ MaxTries \in Nat
  /\ Resends \in Nat
  /\ Faults \subseteq FaultKinds

VARIABLES
  coinBalance,    \* wallets.coin_balance
  lifetimeCoins,  \* creator_profiles.lifetime_coins
  currentLevel,   \* creator_profiles.current_level
  earnings,       \* lifetime_earnings_cents: what pending_balance_cents was credited
  given,          \* Lifetime + SUM(gift_events.coins) of each creator
  sent,           \* how many gift_events rows each request inserted
  score,          \* the Redis leaderboards, in cents
  handler         \* where each request is, and the lifetimeCoins it read

vars == <<coinBalance, lifetimeCoins, currentLevel, earnings, given, sent, score, handler>>

HandlerRecord == [at : {"idle", "profile", "send", "rank", "done", "failed"},
                  lifetime : Nat, tries : Nat]

\* A profile's level agrees with its coins: a new one has none and level 1.
StartLevel(c) == calculateLevelFromCoins(Lifetime[c])

Init ==
  /\ coinBalance   = Balance
  /\ lifetimeCoins = Lifetime
  /\ currentLevel  = [c \in Creators |-> StartLevel(c)]
  /\ earnings      = [c \in Creators |-> 0]
  /\ given         = Lifetime
  /\ sent          = [g \in Gifts |-> 0]
  /\ score         = [c \in Creators |-> [b \in Boards |-> 0]]
  /\ handler       = [g \in Gifts |-> [at |-> "idle", lifetime |-> 0, tries |-> 1]]

-----------------------------------------------------------------------------
Goto(g, at, lifetime, tries) ==
  handler' = [handler EXCEPT ![g] = [at |-> at, lifetime |-> lifetime, tries |-> tries]]

\* A request whose wallet cannot pay gets 402 and changes nothing.
ReadWallet(g) ==
  /\ handler[g].at = "idle"
  /\ coinBalance[Sender[g]] >= Coins[g]
  /\ Goto(g, "profile", 0, handler[g].tries)
  /\ UNCHANGED <<coinBalance, lifetimeCoins, currentLevel, earnings, given, sent, score>>

ReadProfile(g) ==
  /\ handler[g].at = "profile"
  /\ Goto(g, "send", lifetimeCoins[Recipient[g]], handler[g].tries)
  /\ UNCHANGED <<coinBalance, lifetimeCoins, currentLevel, earnings, given, sent, score>>

\* creditWallet with a negative delta: the update returns the new balance,
\* and a negative one rolls the transaction back.
AffordsUnchecked(g) == TRUE                                        \* mutant
Affords(g) == coinBalance[Sender[g]] - Coins[g] >= 0

\* resolveTierForGift is given the lifetimeCoins read before the transaction.
totalAfterTwice(g) == handler[g].lifetime + 2 * Coins[g]           \* mutant
totalAfter(g) == handler[g].lifetime + Coins[g]
tier(g) == calculateLevelFromCoins(totalAfter(g))
share(g) == creatorShareCents(UsdCents[g], tier(g))

\* lifetimeCoins and currentLevel are written absolutely, the other columns
\* relative to what they are.
SendGift(g) ==
  /\ handler[g].at = "send"
  /\ Affords(g)
  /\ LET c == Recipient[g] IN
     /\ coinBalance'   = [coinBalance EXCEPT ![Sender[g]] = @ - Coins[g]]
     /\ given'         = [given EXCEPT ![c] = @ + Coins[g]]
     /\ sent'          = [sent EXCEPT ![g] = @ + 1]
     /\ earnings'      = [earnings EXCEPT ![c] = @ + share(g)]
     /\ lifetimeCoins' = [lifetimeCoins EXCEPT ![c] = totalAfter(g)]
     /\ currentLevel'  = [currentLevel EXCEPT ![c] = tier(g)]
  /\ Goto(g, "rank", handler[g].lifetime, handler[g].tries)
  /\ UNCHANGED score

RefuseGift(g) ==
  /\ handler[g].at = "send"
  /\ ~Affords(g)
  /\ Goto(g, "failed", 0, handler[g].tries)
  /\ UNCHANGED <<coinBalance, lifetimeCoins, currentLevel, earnings, given, sent, score>>

\* zincrby per board, each awaited.  One that is answered took effect once, or
\* once more each time it was sent again; one that throws may have, too.
Ranked(g, times) ==
  score' = [score EXCEPT ![Recipient[g]] =
              [b \in Boards |-> score[Recipient[g]][b] + times[b] * share(g)]]

Answered == 1 .. 1 + Resends
Thrown   == 0 .. 1 + Resends

RankGiftTwice(g) ==                                                \* mutant
  /\ handler[g].at = "rank"
  /\ Ranked(g, [b \in Boards |-> 1])
  /\ UNCHANGED <<handler, coinBalance, lifetimeCoins, currentLevel, earnings, given, sent>>

\* The handler comes to a command when those before it were answered.
RankGift(g) ==
  /\ handler[g].at = "rank"
  /\ \/ /\ \E times \in [Boards -> Answered] : Ranked(g, times)
        /\ Goto(g, "done", 0, handler[g].tries)
     \/ /\ "redis" \in Faults
        /\ \E n \in Boards, times \in [Boards -> Thrown] :
             /\ \A b \in Boards : b < n => times[b] # 0
             /\ \A b \in Boards : b > n => times[b] = 0
             /\ Ranked(g, times)
        /\ Goto(g, "failed", 0, handler[g].tries)
  /\ UNCHANGED <<coinBalance, lifetimeCoins, currentLevel, earnings, given, sent>>

\* The API process dies; the client sees no answer.
CrashHandler(g) ==
  /\ "crash" \in Faults
  /\ handler[g].at \in {"profile", "send", "rank"}
  /\ Goto(g, "failed", 0, handler[g].tries)
  /\ UNCHANGED <<coinBalance, lifetimeCoins, currentLevel, earnings, given, sent, score>>

Retry(g) ==
  /\ handler[g].at = "failed"
  /\ handler[g].tries < MaxTries
  /\ Goto(g, "idle", 0, handler[g].tries + 1)
  /\ UNCHANGED <<coinBalance, lifetimeCoins, currentLevel, earnings, given, sent, score>>

GiftStep(g) ==
  \/ ReadWallet(g) \/ ReadProfile(g) \/ SendGift(g) \/ RefuseGift(g) \/ RankGift(g)
  \/ CrashHandler(g) \/ Retry(g)

Next == \E g \in Gifts : GiftStep(g)
Spec == Init /\ [][Next]_vars

-----------------------------------------------------------------------------
(* What senders, creators and the platform rely on.                        *)

\* Every variable keeps its type, and a level is one of the four.
TypeOK ==
  /\ coinBalance   \in [Wallets -> Int]
  /\ lifetimeCoins \in [Creators -> Nat]
  /\ currentLevel  \in [Creators -> Levels]
  /\ earnings      \in [Creators -> Nat]
  /\ given         \in [Creators -> Nat]
  /\ sent          \in [Gifts -> Nat]
  /\ score         \in [Creators -> [Boards -> Nat]]
  /\ handler       \in [Gifts -> HandlerRecord]

\* However many gifts of one wallet passed the balance check on the same
\* snapshot, no wallet is ever overdrawn (creditWallet decides again).
WalletNonNegative == \A w \in Wallets : coinBalance[w] >= 0

\* Gifts that write a lifetime_coins read before another gift's commit may
\* lose coins, but never invent them: a creator is never credited with more
\* than was given, whatever the interleaving and however often requests are
\* repeated.
LifetimeNeverOverstates == \A c \in Creators : lifetimeCoins[c] <= given[c]

\* No gift is split at a level its creator has not reached with it.
NoUnearnedCut ==
  [][\A g \in Gifts : sent'[g] # sent[g] =>
        tier(g) <= calculateLevelFromCoins(given'[Recipient[g]])]_vars

\* A profile's level and coins never disagree, on any side of a milestone:
\* a gift that reaches one raises the level with it.
LevelsFollowMilestones ==
  \A c \in Creators, l \in 1 .. 3 : lifetimeCoins[c] >= nextMilestone[l] <=> currentLevel[c] > l

\* The leaderboards, best effort as they are, show no earnings that were not
\* committed, and none more often than ioredis sent its command.
BoardsNeverOverstate ==
  \A c \in Creators, b \in Boards : score[c][b] <= (1 + Resends) * earnings[c]

\* They show none that were not earned.
BoardsAreEarned == \A c \in Creators, b \in Boards : score[c][b] <= earnings[c]

\* A creator has the level that all gifts so far have earned: each one is
\* counted in lifetime_coins by the transaction that inserts it.
LevelIsEarned == \A c \in Creators : currentLevel[c] = calculateLevelFromCoins(given[c])
=============================================================================
