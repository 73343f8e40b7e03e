--------------------------------- MODULE Cards ----------------------------------
(****************************************************************************)
(* Saved cards: POST /setup-intent and POST /confirm of src/routes/cards.ts *)
(* with src/gateways/stripe-cards.ts.  A wallet gets one Stripe customer    *)
(* and at most one default card, however many tabs its viewer has open.     *)
(*                                                                          *)
(* A step is one statement or call of Stripe.  The transaction that saves a *)
(* card has two statements at read committed: what the first one clears is  *)
(* what it sees when it starts, and a row it has cleared stays locked until *)
(* the end.  The purchase that /confirm goes on to make is in Topups.       *)
(****************************************************************************)
EXTENDS Integers, FiniteSets

CONSTANTS
  Wallets,
  Setups, SetupWallet,    \* calls of /setup-intent and their wallet
  SetupKey,               \* their Idempotency-Key, which names the customer Stripe creates for it
  Saves, SaveSetup,       \* calls of /confirm with saveCard, and the set-up intent they present
  SaveWallet,             \* the wallet they name
  NoCustomer              \* stripe_customer_id IS NULL

ASSUME CardAssumption ==
  /\ SetupWallet \in [Setups -> Wallets]
  /\ SaveSetup \in [Saves -> Setups]
  /\ SaveWallet \in [Saves -> Wallets]
  /\ DOMAIN SetupKey = Setups
  /\ \A q, r \in Setups : SetupKey[q] = SetupKey[r] => SetupWallet[q] = SetupWallet[r]
  /\ NoCustomer \notin {SetupKey[q] : q \in Setups}

Customers == {SetupKey[q] : q \in Setups}

VARIABLES
  customer,  \* wallets.stripe_customer_id
  setup,     \* what each /setup-intent is about to do, and its customerId
  intent,    \* at Stripe: the customer of each call's set-up intent
  saved,     \* the rows of saved_payment_methods of each wallet
  default,   \* those with is_default
  save,      \* what each /confirm is about to do; the default rows its update found, cleared
  raced      \* whether another save of the wallet committed while a save was under way

vars == <<customer, setup, intent, saved, default, save, raced>>

SetupStates == {"idle", "create", "store", "reread", "intent", "done", "failed"}
SaveStates == {"idle", "verify", "clear", "upsert", "charge", "conflict", "refused"}

Init ==
  /\ customer = [w \in Wallets |-> NoCustomer]
  /\ setup    = [q \in Setups |-> [at |-> "idle", mine |-> NoCustomer]]
  /\ intent   = [q \in Setups |-> NoCustomer]
  /\ saved    = [w \in Wallets |-> {}]
  /\ default  = [w \in Wallets |-> {}]
  /\ save     = [s \in Saves |-> [at |-> "idle", mine |-> NoCustomer, seen |-> {}, cleared |-> {}]]
  /\ raced    = [s \in Saves |-> FALSE]

-----------------------------------------------------------------------------
(* POST /setup-intent.                                                     *)

SetSetup(q, at, mine) == setup' = [setup EXCEPT ![q] = [at |-> at, mine |-> mine]]

\* getOrCreateWallet returns the row getOrCreateStripeCustomer looks at.
ReadWallet(q) ==
  LET c == customer[SetupWallet[q]] IN
  /\ setup[q].at = "idle"
  /\ SetSetup(q, IF c = NoCustomer THEN "create" ELSE "intent", c)
  /\ UNCHANGED <<customer, intent, saved, default, save, raced>>

\* stripe.customers.create: the same key gets the same customer.
CreateCustomer(q) ==
  /\ setup[q].at = "create"
  /\ SetSetup(q, "store", SetupKey[q])
  /\ UNCHANGED <<customer, intent, saved, default, save, raced>>

\* The guarded update; the loser goes on to read the winner's customer.
UnsetIgnored(w) == TRUE                                            \* mutant
Unset(w) == customer[w] = NoCustomer

StoreCustomer(q) ==
  LET w == SetupWallet[q] IN
  /\ setup[q].at = "store"
  /\ IF Unset(w)
     THEN /\ customer' = [customer EXCEPT ![w] = setup[q].mine]
          /\ SetSetup(q, "intent", setup[q].mine)
     ELSE /\ SetSetup(q, "reread", NoCustomer)
          /\ UNCHANGED customer
  /\ UNCHANGED <<intent, saved, default, save, raced>>

RereadCustomer(q) ==
  /\ setup[q].at = "reread"
  /\ SetSetup(q, "intent", customer[SetupWallet[q]])
  /\ UNCHANGED <<customer, intent, saved, default, save, raced>>

\* createSetupIntentForCustomer; the viewer confirms it with a card.
CreateIntent(q) ==
  /\ setup[q].at = "intent"
  /\ intent' = [intent EXCEPT ![q] = setup[q].mine]
  /\ SetSetup(q, "done", setup[q].mine)
  /\ UNCHANGED <<customer, saved, default, save, raced>>

\* Stripe or Postgres refuses, or the process dies.
SetupFails(q) ==
  /\ setup[q].at \notin {"idle", "done", "failed"}
  /\ SetSetup(q, "failed", NoCustomer)
  /\ UNCHANGED <<customer, intent, saved, default, save, raced>>

-----------------------------------------------------------------------------
(* POST /confirm with saveCard.                                            *)

\* The payment method is the one the viewer entered for the set-up intent.
CardOf(s) == SaveSetup[s]
InTransaction(s) == save[s].at \in {"clear", "upsert"}
SetSave(s, at, mine, seen, cleared) ==
  save' = [save EXCEPT ![s] = [at |-> at, mine |-> mine, seen |-> seen, cleared |-> cleared]]

\* The wallet is read; without a customer the answer is 404.
ReadCustomer(s) ==
  LET c == customer[SaveWallet[s]] IN
  /\ save[s].at = "idle"
  /\ intent[SaveSetup[s]] # NoCustomer
  /\ SetSave(s, IF c = NoCustomer THEN "refused" ELSE "verify", c, {}, {})
  /\ UNCHANGED <<customer, setup, intent, saved, default, raced>>

\* verifySetupIntent, and the start of the transaction: the update finds the
\* default rows that are committed.
SameCustomer(s) == intent[SaveSetup[s]] = save[s].mine

VerifyIntent(s) ==
  /\ save[s].at = "verify"
  /\ IF SameCustomer(s)
     THEN SetSave(s, "clear", save[s].mine, default[SaveWallet[s]], {})
     ELSE SetSave(s, "refused", NoCustomer, {}, {})
  /\ UNCHANGED <<customer, setup, intent, saved, default, raced>>

\* The update waits for rows other transactions have cleared and skips those
\* that are no default any more; it does not see rows inserted since.
LocksOfOthers(s) == UNION {save[o].cleared : o \in Saves \ {s}}
FoundNone(s) == {}                                                 \* mutant
Found(s) == save[s].seen \cap default[SaveWallet[s]]

ClearDefault(s) ==
  /\ save[s].at = "clear"
  /\ save[s].seen \cap LocksOfOthers(s) = {}
  /\ SetSave(s, "upsert", save[s].mine, save[s].seen, Found(s))
  /\ UNCHANGED <<customer, setup, intent, saved, default, raced>>

\* The insert, or the update of the card's row, and the commit.  The partial
\* unique index refuses a second default row: the transaction is rolled back
\* and the request fails before it charges.
OthersDefault(s) == (default[SaveWallet[s]] \ save[s].cleared) \ {CardOf(s)}
IndexAllows(s) == OthersDefault(s) = {}

CommitCard(s) ==
  LET w == SaveWallet[s] IN
  /\ save[s].at = "upsert"
  /\ IndexAllows(s)
  /\ saved'   = [saved EXCEPT ![w] = @ \cup {CardOf(s)}]
  /\ default' = [default EXCEPT ![w] = (@ \ save[s].cleared) \cup {CardOf(s)}]
  /\ raced'   = [o \in Saves |-> raced[o] \/ (o # s /\ InTransaction(o) /\ SaveWallet[o] = w)]
  /\ SetSave(s, "charge", save[s].mine, {}, {})
  /\ UNCHANGED <<customer, setup, intent>>

RefusedByIndex(s) ==
  /\ save[s].at = "upsert"
  /\ ~IndexAllows(s)
  /\ SetSave(s, "conflict", NoCustomer, {}, {})
  /\ UNCHANGED <<customer, setup, intent, saved, default, raced>>

SaveFailsHalfDone(s) ==                                            \* mutant
  /\ InTransaction(s)
  /\ default' = [default EXCEPT ![SaveWallet[s]] = @ \ save[s].cleared]
  /\ SetSave(s, "refused", NoCustomer, {}, {})
  /\ UNCHANGED <<customer, setup, intent, saved, raced>>

\* A statement of the transaction throws, or the process dies in it.
SaveFails(s) ==
  /\ InTransaction(s)
  /\ SetSave(s, "refused", NoCustomer, {}, {})
  /\ UNCHANGED <<customer, setup, intent, saved, default, raced>>

Next ==
  \/ \E q \in Setups :
       \/ ReadWallet(q) \/ CreateCustomer(q) \/ StoreCustomer(q) \/ RereadCustomer(q)
       \/ CreateIntent(q) \/ SetupFails(q)
  \/ \E s \in Saves :
       \/ ReadCustomer(s) \/ VerifyIntent(s) \/ ClearDefault(s) \/ CommitCard(s)
       \/ RefusedByIndex(s) \/ SaveFails(s)

Spec == Init /\ [][Next]_vars

-----------------------------------------------------------------------------
(* What viewers rely on.                                                   *)

\* Every variable keeps its type, and a request that goes on to create its
\* intent has a customer: the assertions of stripe-cards.ts:49 are justified.
TypeOK ==
  /\ customer \in [Wallets -> Customers \cup {NoCustomer}]
  /\ setup    \in [Setups -> [at : SetupStates, mine : Customers \cup {NoCustomer}]]
  /\ \A q \in Setups : setup[q].at \in {"store", "intent", "done"} => setup[q].mine \in Customers
  /\ intent   \in [Setups -> Customers \cup {NoCustomer}]
  /\ saved    \in [Wallets -> SUBSET Setups]
  /\ default  \in [Wallets -> SUBSET Setups]
  /\ save     \in [Saves -> [at : SaveStates, mine : Customers \cup {NoCustomer},
                            seen : SUBSET Setups, cleared : SUBSET Setups]]
  /\ raced    \in [Saves -> BOOLEAN]

\* "so every SetupIntent for this wallet ends up on one customer"
\* (stripe-cards.ts:39): the one that is stored, whichever tabs race.
IntentsOnOneCustomer ==
  \A q \in Setups : intent[q] # NoCustomer => intent[q] = customer[SetupWallet[q]]

\* A saved card is chargeable with the customer of the wallet it is saved for.
CardsOfCustomer ==
  \A w \in Wallets : \A c \in saved[w] : intent[c] = customer[w]

\* The select of the default card (routes/cards.ts:154, routes/payments.ts:41)
\* finds one row at most, although two saves may both see no default to clear.
OneDefault == \A w \in Wallets : \A c, d \in default[w] : c = d

\* A save is refused by the index only if another one of the wallet committed
\* while it was under way: a viewer with one tab can always replace the card.
ConflictWasRaced == \A s \in Saves : save[s].at = "conflict" => raced[s]

\* A wallet that has a default card keeps having one, whatever fails.
DefaultStays == [][\A w \in Wallets : default[w] # {} => default'[w] # {}]_vars
=============================================================================
