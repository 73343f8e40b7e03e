------------------------------ MODULE CardsProofs -------------------------------
(****************************************************************************)
(* Theorems about Cards, for any number of wallets, requests and cards, and *)
(* whatever fails.                                                          *)
(****************************************************************************)
EXTENDS Cards, TLAPS

SetupRecord == [at : SetupStates, mine : Customers \cup {NoCustomer}]
SaveRecord == [at : SaveStates, mine : Customers \cup {NoCustomer},
               seen : SUBSET Setups, cleared : SUBSET Setups]

\* What setting a request does to it and to the others.
LEMMA SetSetupSets ==
  ASSUME setup \in [Setups -> SetupRecord], NEW q \in Setups, NEW at \in SetupStates,
         NEW mine \in Customers \cup {NoCustomer}, SetSetup(q, at, mine)
  PROVE  /\ setup' \in [Setups -> SetupRecord]
         /\ setup'[q].at = at /\ setup'[q].mine = mine
         /\ \A r \in Setups \ {q} : setup'[r] = setup[r]
BY DEF SetSetup, SetupRecord

\* The same of a confirmation.
LEMMA SetSaveSets ==
  ASSUME save \in [Saves -> SaveRecord], NEW s \in Saves, NEW at \in SaveStates,
         NEW mine \in Customers \cup {NoCustomer}, NEW seen \in SUBSET Setups, NEW cleared \in SUBSET Setups,
         SetSave(s, at, mine, seen, cleared)
  PROVE  /\ save' \in [Saves -> SaveRecord]
         /\ save'[s].at = at /\ save'[s].mine = mine /\ save'[s].seen = seen /\ save'[s].cleared = cleared
         /\ \A r \in Saves \ {s} : save'[r] = save[r]
BY DEF SetSave, SaveRecord

-----------------------------------------------------------------------------
(* Types and customers.                                                    *)

\* A request that goes on has the customer that is stored, or its own to be stored.
SetupKnowsCustomer ==
  \A q \in Setups :
    /\ setup[q].at = "store" => setup[q].mine = SetupKey[q]
    /\ setup[q].at = "reread" => customer[SetupWallet[q]] # NoCustomer
    /\ setup[q].at = "intent" => setup[q].mine = customer[SetupWallet[q]] /\ setup[q].mine # NoCustomer
    /\ setup[q].at = "done" => setup[q].mine # NoCustomer

\* So has a confirmation, and from its transaction on the intent is of that customer.
SaveKnowsCustomer ==
  \A s \in Saves :
    /\ save[s].at \in {"verify", "clear", "upsert"} =>
         save[s].mine = customer[SaveWallet[s]] /\ save[s].mine # NoCustomer
    /\ InTransaction(s) => intent[SaveSetup[s]] = save[s].mine
SavedHasCustomer == \A w \in Wallets : saved[w] # {} => customer[w] # NoCustomer

CustomerInv ==
  /\ TypeOK
  /\ SetupKnowsCustomer /\ SaveKnowsCustomer /\ SavedHasCustomer
  /\ IntentsOnOneCustomer /\ CardsOfCustomer

\* A step of one set-up that leaves what is stored alone keeps the invariant if
\* the set-up still knows its customer.
LEMMA SetupMoves ==
  ASSUME CustomerInv, NEW q \in Setups, NEW at \in SetupStates, NEW mine \in Customers \cup {NoCustomer},
         SetSetup(q, at, mine),
         UNCHANGED <<customer, intent, saved, default, save, raced>>,
         at \in {"create", "store", "reread", "intent", "failed"},
         at = "store" => mine = SetupKey[q] /\ mine # NoCustomer,
         at = "reread" => customer[SetupWallet[q]] # NoCustomer,
         at = "intent" => mine = customer[SetupWallet[q]] /\ mine # NoCustomer
  PROVE  CustomerInv'
<1>1. setup \in [Setups -> SetupRecord]
  BY DEF CustomerInv, TypeOK, SetupRecord
<1>2. /\ setup' \in [Setups -> SetupRecord]
      /\ setup'[q].at = at /\ setup'[q].mine = mine
      /\ \A r \in Setups \ {q} : setup'[r] = setup[r]
  BY <1>1, SetSetupSets
<1>3. SetupKnowsCustomer'
  BY <1>2 DEF CustomerInv, SetupKnowsCustomer
<1>4. TypeOK'
  BY <1>2 DEF CustomerInv, TypeOK, SetupRecord
<1>5. SaveKnowsCustomer' /\ SavedHasCustomer' /\ IntentsOnOneCustomer' /\ CardsOfCustomer'
  BY DEF CustomerInv, SaveKnowsCustomer, SavedHasCustomer, IntentsOnOneCustomer, CardsOfCustomer, InTransaction
<1> QED BY <1>3, <1>4, <1>5 DEF CustomerInv

\* The same of a confirmation.
LEMMA SaveMoves ==
  ASSUME CustomerInv, NEW s \in Saves, NEW at \in SaveStates, NEW mine \in Customers \cup {NoCustomer},
         NEW seen \in SUBSET Setups, NEW cleared \in SUBSET Setups,
         SetSave(s, at, mine, seen, cleared),
         UNCHANGED <<customer, setup, intent, saved, default, raced>>,
         at \in {"verify", "clear", "upsert"} => mine = customer[SaveWallet[s]] /\ mine # NoCustomer,
         at \in {"clear", "upsert"} => intent[SaveSetup[s]] = mine
  PROVE  CustomerInv'
<1>1. save \in [Saves -> SaveRecord]
  BY DEF CustomerInv, TypeOK, SaveRecord
<1>2. /\ save' \in [Saves -> SaveRecord]
      /\ save'[s].at = at /\ save'[s].mine = mine
      /\ \A r \in Saves \ {s} : save'[r] = save[r]
  BY <1>1, SetSaveSets
<1>3. SaveKnowsCustomer'
  BY <1>2 DEF CustomerInv, SaveKnowsCustomer, InTransaction
<1>4. TypeOK'
  BY <1>2 DEF CustomerInv, TypeOK, SaveRecord
<1>5. SetupKnowsCustomer' /\ SavedHasCustomer' /\ IntentsOnOneCustomer' /\ CardsOfCustomer'
  BY DEF CustomerInv, SetupKnowsCustomer, SavedHasCustomer, IntentsOnOneCustomer, CardsOfCustomer
<1> QED BY <1>3, <1>4, <1>5 DEF CustomerInv

\* Types, and what requests know of their wallet's customer, are kept by every step.
LEMMA CustomerInvariant == Spec => []CustomerInv
<1>1. Init => CustomerInv
  BY DEF Init, CustomerInv, TypeOK, SetupKnowsCustomer, SaveKnowsCustomer, SavedHasCustomer, InTransaction,
         IntentsOnOneCustomer, CardsOfCustomer, SetupStates, SaveStates
<1>2. CustomerInv /\ [Next]_vars => CustomerInv'
  <2> SUFFICES ASSUME CustomerInv, [Next]_vars PROVE CustomerInv'
    OBVIOUS
  <2>0. /\ TypeOK /\ SetupKnowsCustomer /\ SaveKnowsCustomer /\ SavedHasCustomer
        /\ IntentsOnOneCustomer /\ CardsOfCustomer
    BY DEF CustomerInv
  <2>t. /\ customer \in [Wallets -> Customers \cup {NoCustomer}]
        /\ setup \in [Setups -> SetupRecord] /\ intent \in [Setups -> Customers \cup {NoCustomer}]
        /\ saved \in [Wallets -> SUBSET Setups] /\ default \in [Wallets -> SUBSET Setups]
        /\ save \in [Saves -> SaveRecord] /\ raced \in [Saves -> BOOLEAN]
    BY <2>0 DEF TypeOK, SetupRecord, SaveRecord
  <2>k. /\ SetupWallet \in [Setups -> Wallets] /\ SaveSetup \in [Saves -> Setups] /\ SaveWallet \in [Saves -> Wallets]
        /\ NoCustomer \notin Customers /\ \A q \in Setups : SetupKey[q] \in Customers
    BY CardAssumption DEF Customers
  <2>s. /\ {"create", "store", "reread", "intent", "done", "failed"} \subseteq SetupStates
        /\ {"verify", "clear", "upsert", "charge", "conflict", "refused"} \subseteq SaveStates
    BY DEF SetupStates, SaveStates
  <2>1. CASE UNCHANGED vars
    BY <2>0, <2>1 DEF vars, CustomerInv, TypeOK, SetupKnowsCustomer, SaveKnowsCustomer, SavedHasCustomer,
                      InTransaction, IntentsOnOneCustomer, CardsOfCustomer
  <2>2. ASSUME NEW q \in Setups, ReadWallet(q) PROVE CustomerInv'
    <3> DEFINE c == customer[SetupWallet[q]]
               at == IF c = NoCustomer THEN "create" ELSE "intent"
    <3>1. c \in Customers \cup {NoCustomer} /\ at \in SetupStates /\ at \in {"create", "intent"}
      BY <2>t, <2>k, <2>s
    <3>2. SetSetup(q, at, c) /\ UNCHANGED <<customer, intent, saved, default, save, raced>>
      BY <2>2 DEF ReadWallet
    <3>3. at = "intent" => c # NoCustomer
      OBVIOUS
    <3> QED BY <3>1, <3>2, <3>3, SetupMoves
  <2>3. ASSUME NEW q \in Setups, CreateCustomer(q) PROVE CustomerInv'
    <3>1. SetSetup(q, "store", SetupKey[q]) /\ UNCHANGED <<customer, intent, saved, default, save, raced>>
      BY <2>3 DEF CreateCustomer
    <3>2. SetupKey[q] \in Customers \cup {NoCustomer} /\ SetupKey[q] # NoCustomer /\ "store" \in SetupStates
      BY <2>k, <2>s
    <3> QED BY <3>1, <3>2, SetupMoves
  <2>4. ASSUME NEW q \in Setups, StoreCustomer(q) PROVE CustomerInv'
    <3> DEFINE w == SetupWallet[q]
    <3>0. w \in Wallets /\ setup[q].at = "store" /\ setup[q].mine = SetupKey[q] /\ setup[q].mine \in Customers
      BY <2>0, <2>k, <2>4 DEF StoreCustomer, SetupKnowsCustomer
    <3>1. CASE ~Unset(w)
      <4>1. SetSetup(q, "reread", NoCustomer) /\ UNCHANGED <<customer, intent, saved, default, save, raced>>
        BY <2>4, <3>1 DEF StoreCustomer
      <4> QED BY <2>s, <3>1, <4>1, SetupMoves DEF Unset
    <3>2. CASE Unset(w)
      <4>1. /\ customer' = [customer EXCEPT ![w] = setup[q].mine] /\ SetSetup(q, "intent", setup[q].mine)
            /\ UNCHANGED <<intent, saved, default, save, raced>>
        BY <2>4, <3>2 DEF StoreCustomer
      <4>2. /\ customer' \in [Wallets -> Customers \cup {NoCustomer}] /\ customer'[w] = setup[q].mine
            /\ \A v \in Wallets : customer[v] # NoCustomer => customer'[v] = customer[v]
        BY <2>t, <3>0, <3>2, <4>1 DEF Unset
      <4>3. /\ setup' \in [Setups -> SetupRecord] /\ setup'[q].at = "intent" /\ setup'[q].mine = setup[q].mine
            /\ \A r \in Setups \ {q} : setup'[r] = setup[r]
        BY <2>t, <2>s, <3>0, <4>1, SetSetupSets
      <4>4. TypeOK'
        BY <2>0, <2>k, <3>0, <4>1, <4>2, <4>3 DEF TypeOK, SetupRecord
      <4>5. SetupKnowsCustomer'
        <5> SUFFICES ASSUME NEW r \in Setups
                     PROVE  /\ setup'[r].at = "store" => setup'[r].mine = SetupKey[r]
                            /\ setup'[r].at = "reread" => customer'[SetupWallet[r]] # NoCustomer
                            /\ setup'[r].at = "intent" =>
                                 setup'[r].mine = customer'[SetupWallet[r]] /\ setup'[r].mine # NoCustomer
                            /\ setup'[r].at = "done" => setup'[r].mine # NoCustomer
          BY DEF SetupKnowsCustomer
        <5>1. CASE r = q
          BY <2>k, <3>0, <4>2, <4>3, <5>1
        <5>2. CASE r # q
          BY <2>0, <2>k, <4>2, <4>3, <5>2 DEF SetupKnowsCustomer
        <5> QED BY <5>1, <5>2
      <4>6. SaveKnowsCustomer'
        BY <2>0, <2>k, <4>1, <4>2 DEF SaveKnowsCustomer, InTransaction
      <4>7. SavedHasCustomer' /\ CardsOfCustomer'
        BY <2>0, <2>t, <4>1, <4>2 DEF SavedHasCustomer, CardsOfCustomer
      <4>8. IntentsOnOneCustomer'
        BY <2>0, <2>k, <4>1, <4>2 DEF IntentsOnOneCustomer
      <4> QED BY <4>4, <4>5, <4>6, <4>7, <4>8 DEF CustomerInv
    <3> QED BY <3>1, <3>2
  <2>5. ASSUME NEW q \in Setups, RereadCustomer(q) PROVE CustomerInv'
    <3>1. /\ SetSetup(q, "intent", customer[SetupWallet[q]])
          /\ UNCHANGED <<customer, intent, saved, default, save, raced>>
      BY <2>5 DEF RereadCustomer
    <3>2. customer[SetupWallet[q]] # NoCustomer /\ customer[SetupWallet[q]] \in Customers \cup {NoCustomer}
      BY <2>0, <2>t, <2>k, <2>5 DEF RereadCustomer, SetupKnowsCustomer
    <3> QED BY <2>s, <3>1, <3>2, SetupMoves
  <2>6. ASSUME NEW q \in Setups, CreateIntent(q) PROVE CustomerInv'
    <3> DEFINE mine == setup[q].mine
    <3>0. /\ setup[q].at = "intent" /\ mine = customer[SetupWallet[q]] /\ mine # NoCustomer
          /\ mine \in Customers \cup {NoCustomer}
      BY <2>0, <2>t, <2>6 DEF CreateIntent, SetupKnowsCustomer, SetupRecord
    <3>1. /\ intent' = [intent EXCEPT ![q] = mine] /\ SetSetup(q, "done", mine)
          /\ UNCHANGED <<customer, saved, default, save, raced>>
      BY <2>6 DEF CreateIntent
    <3>2. /\ setup' \in [Setups -> SetupRecord] /\ setup'[q].at = "done" /\ setup'[q].mine = mine
          /\ \A r \in Setups \ {q} : setup'[r] = setup[r]
      BY <2>t, <2>s, <3>0, <3>1, SetSetupSets
    <3>3. /\ intent' \in [Setups -> Customers \cup {NoCustomer}] /\ intent'[q] = mine
          /\ \A r \in Setups : intent[r] # NoCustomer => intent'[r] = intent[r]
          /\ \A r \in Setups \ {q} : intent'[r] = intent[r]
      BY <2>0, <2>t, <3>0, <3>1 DEF IntentsOnOneCustomer
    <3>4. TypeOK'
      BY <2>0, <3>0, <3>1, <3>2, <3>3 DEF TypeOK, SetupRecord
    <3>5. SetupKnowsCustomer'
      BY <2>0, <3>0, <3>1, <3>2 DEF SetupKnowsCustomer
    <3>6. SaveKnowsCustomer'
      BY <2>0, <2>k, <3>1, <3>3 DEF SaveKnowsCustomer, InTransaction
    <3>7. SavedHasCustomer'
      BY <2>0, <3>1 DEF SavedHasCustomer
    <3>8. IntentsOnOneCustomer'
      BY <2>0, <3>0, <3>1, <3>3 DEF IntentsOnOneCustomer
    <3>9. CardsOfCustomer'
      <4> SUFFICES ASSUME NEW w \in Wallets, NEW c \in saved[w] PROVE intent'[c] = customer[w]
        BY <3>1 DEF CardsOfCustomer
      <4>1. c \in Setups /\ intent[c] = customer[w] /\ customer[w] # NoCustomer
        BY <2>0, <2>t DEF CardsOfCustomer, SavedHasCustomer
      <4> QED BY <3>3, <4>1
    <3> QED BY <3>4, <3>5, <3>6, <3>7, <3>8, <3>9 DEF CustomerInv
  <2>7. ASSUME NEW q \in Setups, SetupFails(q) PROVE CustomerInv'
    <3>1. SetSetup(q, "failed", NoCustomer) /\ UNCHANGED <<customer, intent, saved, default, save, raced>>
      BY <2>7 DEF SetupFails
    <3> QED BY <2>s, <3>1, SetupMoves
  <2>8. ASSUME NEW s \in Saves, ReadCustomer(s) PROVE CustomerInv'
    <3> DEFINE c == customer[SaveWallet[s]]
               at == IF c = NoCustomer THEN "refused" ELSE "verify"
    <3>1. c \in Customers \cup {NoCustomer} /\ at \in SaveStates /\ at \in {"refused", "verify"}
      BY <2>t, <2>k, <2>s
    <3>2. SetSave(s, at, c, {}, {}) /\ UNCHANGED <<customer, setup, intent, saved, default, raced>>
      BY <2>8 DEF ReadCustomer
    <3>3. at = "verify" => c # NoCustomer
      OBVIOUS
    <3>4. {} \in SUBSET Setups
      OBVIOUS
    <3> HIDE DEF at
    <3> QED BY <3>1, <3>2, <3>3, <3>4, SaveMoves
  <2>9. ASSUME NEW s \in Saves, VerifyIntent(s) PROVE CustomerInv'
    <3>0. /\ save[s].mine = customer[SaveWallet[s]] /\ save[s].mine # NoCustomer
          /\ save[s].mine \in Customers \cup {NoCustomer} /\ default[SaveWallet[s]] \in SUBSET Setups
          /\ {} \in SUBSET Setups
      BY <2>0, <2>t, <2>k, <2>9 DEF VerifyIntent, SaveKnowsCustomer, SaveRecord
    <3>1. UNCHANGED <<customer, setup, intent, saved, default, raced>>
      BY <2>9 DEF VerifyIntent
    <3>2. CASE SameCustomer(s)
      <4>1. SetSave(s, "clear", save[s].mine, default[SaveWallet[s]], {})
        BY <2>9, <3>2 DEF VerifyIntent
      <4> QED BY <2>s, <3>0, <3>1, <3>2, <4>1, SaveMoves DEF SameCustomer
    <3>3. CASE ~SameCustomer(s)
      <4>1. SetSave(s, "refused", NoCustomer, {}, {})
        BY <2>9, <3>3 DEF VerifyIntent
      <4> QED BY <2>s, <3>0, <3>1, <4>1, SaveMoves
    <3> QED BY <3>2, <3>3
  <2>10. ASSUME NEW s \in Saves, ClearDefault(s) PROVE CustomerInv'
    <3>0. /\ save[s].mine = customer[SaveWallet[s]] /\ save[s].mine # NoCustomer
          /\ save[s].mine \in Customers \cup {NoCustomer} /\ intent[SaveSetup[s]] = save[s].mine
          /\ save[s].seen \in SUBSET Setups /\ Found(s) \in SUBSET Setups
      BY <2>0, <2>t, <2>k, <2>10 DEF ClearDefault, SaveKnowsCustomer, InTransaction, SaveRecord, Found
    <3>1. /\ SetSave(s, "upsert", save[s].mine, save[s].seen, Found(s))
          /\ UNCHANGED <<customer, setup, intent, saved, default, raced>>
      BY <2>10 DEF ClearDefault
    <3> QED BY <2>s, <3>0, <3>1, SaveMoves
  <2>11. ASSUME NEW s \in Saves, CommitCard(s) PROVE CustomerInv'
    <3> DEFINE w == SaveWallet[s]
    <3>0. /\ w \in Wallets /\ CardOf(s) \in Setups /\ save[s].at = "upsert"
          /\ save[s].mine = customer[w] /\ save[s].mine # NoCustomer
          /\ save[s].mine \in Customers \cup {NoCustomer} /\ intent[CardOf(s)] = save[s].mine
          /\ {} \in SUBSET Setups /\ "charge" \in SaveStates
      BY <2>0, <2>t, <2>k, <2>11 DEF SaveStates, CommitCard, SaveKnowsCustomer, InTransaction, SaveRecord, CardOf
    <3>1. /\ saved' = [saved EXCEPT ![w] = @ \cup {CardOf(s)}]
          /\ default' = [default EXCEPT ![w] = (@ \ save[s].cleared) \cup {CardOf(s)}]
          /\ raced' = [o \in Saves |-> raced[o] \/ (o # s /\ InTransaction(o) /\ SaveWallet[o] = w)]
          /\ SetSave(s, "charge", save[s].mine, {}, {})
          /\ UNCHANGED <<customer, setup, intent>>
      BY <2>11 DEF CommitCard
    <3>2. /\ save' \in [Saves -> SaveRecord] /\ save'[s].at = "charge"
          /\ \A r \in Saves \ {s} : save'[r] = save[r]
      <4>1. SetSave(s, "charge", save[s].mine, {}, {}) /\ save \in [Saves -> SaveRecord]
        BY <2>t, <3>1
      <4>2. "charge" \in SaveStates /\ save[s].mine \in Customers \cup {NoCustomer} /\ {} \in SUBSET Setups
        BY <3>0
      <4> QED BY <4>1, <4>2, SetSaveSets
    <3>3. saved' \in [Wallets -> SUBSET Setups] /\ default' \in [Wallets -> SUBSET Setups]
      BY <2>t, <3>0, <3>1
    <3>4. raced' \in [Saves -> BOOLEAN]
      BY <2>t, <3>1
    <3>5. TypeOK'
      BY <2>0, <3>1, <3>2, <3>3, <3>4 DEF TypeOK, SaveRecord
    <3>6. SaveKnowsCustomer'
      BY <2>0, <3>1, <3>2 DEF SaveKnowsCustomer, InTransaction
    <3>7. SavedHasCustomer' /\ CardsOfCustomer'
      BY <2>0, <2>t, <3>0, <3>1 DEF SavedHasCustomer, CardsOfCustomer
    <3>8. SetupKnowsCustomer' /\ IntentsOnOneCustomer'
      BY <2>0, <3>1 DEF SetupKnowsCustomer, IntentsOnOneCustomer
    <3> QED BY <3>5, <3>6, <3>7, <3>8 DEF CustomerInv
  <2>12. ASSUME NEW s \in Saves, RefusedByIndex(s) \/ SaveFails(s) PROVE CustomerInv'
    <3>1. /\ \E at \in {"conflict", "refused"} : SetSave(s, at, NoCustomer, {}, {})
          /\ UNCHANGED <<customer, setup, intent, saved, default, raced>>
      BY <2>12 DEF RefusedByIndex, SaveFails
    <3>2. PICK at \in {"conflict", "refused"} : SetSave(s, at, NoCustomer, {}, {})
      BY <3>1
    <3>3. {} \in SUBSET Setups /\ at \in SaveStates
      BY <2>s
    <3> QED BY <3>1, <3>2, <3>3, SaveMoves
  <2> QED BY <2>1, <2>2, <2>3, <2>4, <2>5, <2>6, <2>7, <2>8, <2>9, <2>10, <2>11, <2>12 DEF Next
<1> QED BY <1>1, <1>2, PTL DEF Spec

\* Every variable keeps its type, and no request goes on without a customer.
THEOREM TypeCorrect == Spec => []TypeOK
<1>1. CustomerInv => TypeOK
  BY DEF CustomerInv
<1> QED BY <1>1, CustomerInvariant, PTL

\* "every SetupIntent for this wallet ends up on one customer" (stripe-cards.ts:39),
\* however many requests race and whatever fails.
THEOREM OneCustomerEach == Spec => []IntentsOnOneCustomer
<1>1. CustomerInv => IntentsOnOneCustomer
  BY DEF CustomerInv
<1> QED BY <1>1, CustomerInvariant, PTL

\* A saved card can be charged with the customer of the wallet it is saved for.
THEOREM SavedCardsAreChargeable == Spec => []CardsOfCustomer
<1>1. CustomerInv => CardsOfCustomer
  BY DEF CustomerInv
<1> QED BY <1>1, CustomerInvariant, PTL

-----------------------------------------------------------------------------
(* Default cards.                                                          *)

\* As long as no other save of its wallet has committed, a transaction's view of
\* the wallet's default rows is what is committed.
UnracedSeesDefault ==
  \A s \in Saves : ~raced[s] =>
    /\ save[s].at = "clear" => save[s].seen = default[SaveWallet[s]]
    /\ save[s].at = "upsert" => save[s].cleared = default[SaveWallet[s]]
DefaultInv == UnracedSeesDefault /\ ConflictWasRaced /\ OneDefault

\* A save that moves while no default changes keeps the invariant if its own view is right.
LEMMA ViewMoves ==
  ASSUME TypeOK, DefaultInv, NEW s \in Saves, NEW at \in SaveStates, NEW mine \in Customers \cup {NoCustomer},
         NEW seen \in SUBSET Setups, NEW cleared \in SUBSET Setups,
         SetSave(s, at, mine, seen, cleared), default' = default, raced' = raced,
         at = "clear" /\ ~raced[s] => seen = default[SaveWallet[s]],
         at = "upsert" /\ ~raced[s] => cleared = default[SaveWallet[s]],
         at = "conflict" => raced[s]
  PROVE  DefaultInv'
<1>1. save \in [Saves -> SaveRecord]
  BY DEF TypeOK, SaveRecord
<1>2. /\ save'[s].at = at /\ save'[s].seen = seen /\ save'[s].cleared = cleared
      /\ \A r \in Saves \ {s} : save'[r] = save[r]
  BY <1>1, SetSaveSets
<1> QED BY <1>2 DEF DefaultInv, UnracedSeesDefault, ConflictWasRaced, OneDefault

\* What the partial unique index leaves to the code is kept by every step.
LEMMA DefaultInvariant == Spec => []DefaultInv
<1>1. Init => DefaultInv
  BY DEF Init, DefaultInv, UnracedSeesDefault, ConflictWasRaced, OneDefault
<1>2. CustomerInv /\ DefaultInv /\ [Next]_vars => DefaultInv'
  <2> SUFFICES ASSUME CustomerInv, DefaultInv, [Next]_vars PROVE DefaultInv'
    OBVIOUS
  <2>0. TypeOK /\ UnracedSeesDefault /\ ConflictWasRaced /\ OneDefault
    BY DEF CustomerInv, DefaultInv
  <2>t. /\ customer \in [Wallets -> Customers \cup {NoCustomer}]
        /\ default \in [Wallets -> SUBSET Setups] /\ save \in [Saves -> SaveRecord]
        /\ raced \in [Saves -> BOOLEAN]
        /\ SaveSetup \in [Saves -> Setups] /\ SaveWallet \in [Saves -> Wallets]
    BY <2>0, CardAssumption DEF TypeOK, SaveRecord
  <2>s. /\ {"verify", "clear", "upsert", "charge", "conflict", "refused"} \subseteq SaveStates
        /\ {} \in SUBSET Setups
    BY DEF SaveStates
  <2>1. ASSUME UNCHANGED <<default, save, raced>> PROVE DefaultInv'
    BY <2>0, <2>1 DEF DefaultInv, UnracedSeesDefault, ConflictWasRaced, OneDefault
  <2>2. ASSUME NEW s \in Saves, ReadCustomer(s) PROVE DefaultInv'
    <3> DEFINE c == customer[SaveWallet[s]]
               at == IF c = NoCustomer THEN "refused" ELSE "verify"
    <3>1. c \in Customers \cup {NoCustomer} /\ at \in SaveStates /\ at \in {"refused", "verify"}
      BY <2>t, <2>s
    <3>2. SetSave(s, at, c, {}, {}) /\ default' = default /\ raced' = raced
      BY <2>2 DEF ReadCustomer
    <3> HIDE DEF at
    <3> QED BY <2>0, <2>s, <3>1, <3>2, ViewMoves
  <2>3. ASSUME NEW s \in Saves, VerifyIntent(s) PROVE DefaultInv'
    <3>0. /\ save[s].mine \in Customers \cup {NoCustomer} /\ default[SaveWallet[s]] \in SUBSET Setups
          /\ default' = default /\ raced' = raced
      BY <2>t, <2>3 DEF VerifyIntent, SaveRecord
    <3>1. CASE SetSave(s, "clear", save[s].mine, default[SaveWallet[s]], {})
      BY <2>0, <2>s, <3>0, <3>1, ViewMoves
    <3>2. CASE SetSave(s, "refused", NoCustomer, {}, {})
      BY <2>0, <2>s, <3>0, <3>2, ViewMoves
    <3> QED BY <2>3, <3>1, <3>2 DEF VerifyIntent
  <2>4. ASSUME NEW s \in Saves, ClearDefault(s) PROVE DefaultInv'
    <3>0. /\ save[s].mine \in Customers \cup {NoCustomer} /\ save[s].seen \in SUBSET Setups
          /\ Found(s) \in SUBSET Setups
          /\ SetSave(s, "upsert", save[s].mine, save[s].seen, Found(s)) /\ default' = default /\ raced' = raced
      BY <2>t, <2>4 DEF ClearDefault, SaveRecord, Found
    <3>1. ~raced[s] => Found(s) = default[SaveWallet[s]]
      BY <2>0, <2>4 DEF ClearDefault, UnracedSeesDefault, Found
    <3> QED BY <2>0, <2>s, <3>0, <3>1, ViewMoves
  <2>5. ASSUME NEW s \in Saves, CommitCard(s) PROVE DefaultInv'
    <3> DEFINE w == SaveWallet[s]
    <3>1. /\ default' = [default EXCEPT ![w] = (@ \ save[s].cleared) \cup {CardOf(s)}]
          /\ raced' = [o \in Saves |-> raced[o] \/ (o # s /\ InTransaction(o) /\ SaveWallet[o] = w)]
          /\ SetSave(s, "charge", save[s].mine, {}, {})
          /\ IndexAllows(s) /\ w \in Wallets
          /\ save[s].mine \in Customers \cup {NoCustomer}
      BY <2>t, <2>5 DEF CommitCard, SaveRecord
    <3>2. /\ save'[s].at = "charge"
          /\ \A r \in Saves \ {s} : save'[r] = save[r]
      BY <2>t, <2>s, <3>1, SetSaveSets
    <3>3. /\ default'[w] = (default[w] \ save[s].cleared) \cup {CardOf(s)}
          /\ \A v \in Wallets \ {w} : default'[v] = default[v]
      BY <2>t, <3>1
    <3>4. OneDefault'
      BY <2>0, <3>1, <3>3 DEF OneDefault, IndexAllows, OthersDefault
    <3>5. \A o \in Saves : raced[o] => raced'[o]
      BY <3>1
    <3>6. ConflictWasRaced'
      BY <2>0, <3>2, <3>5 DEF ConflictWasRaced
    <3>7. UnracedSeesDefault'
      <4> SUFFICES ASSUME NEW o \in Saves, ~raced'[o]
                   PROVE  /\ save'[o].at = "clear" => save'[o].seen = default'[SaveWallet[o]]
                          /\ save'[o].at = "upsert" => save'[o].cleared = default'[SaveWallet[o]]
        BY DEF UnracedSeesDefault
      <4>1. CASE o = s
        BY <3>2, <4>1
      <4>2. CASE o # s /\ SaveWallet[o] = w
        <5>1. ~InTransaction(o)
          BY <3>1, <4>2
        <5> QED BY <3>2, <4>2, <5>1 DEF InTransaction
      <4>3. CASE o # s /\ SaveWallet[o] # w
        <5>1. ~raced[o] /\ SaveWallet[o] \in Wallets \ {w}
          BY <2>t, <3>5, <4>3
        <5> QED BY <2>0, <3>2, <3>3, <4>3, <5>1 DEF UnracedSeesDefault
      <4> QED BY <4>1, <4>2, <4>3
    <3> QED BY <3>4, <3>6, <3>7 DEF DefaultInv
  <2>6. ASSUME NEW s \in Saves, RefusedByIndex(s) PROVE DefaultInv'
    <3>1. SetSave(s, "conflict", NoCustomer, {}, {}) /\ default' = default /\ raced' = raced
      BY <2>6 DEF RefusedByIndex
    <3>2. raced[s]
      <4>1. save[s].at = "upsert" /\ default[SaveWallet[s]] \ save[s].cleared # {}
        BY <2>6 DEF RefusedByIndex, IndexAllows, OthersDefault
      <4>2. ~raced[s] => save[s].cleared = default[SaveWallet[s]]
        BY <2>0, <4>1 DEF UnracedSeesDefault
      <4> QED BY <4>1, <4>2
    <3> QED BY <2>0, <2>s, <3>1, <3>2, ViewMoves
  <2>7. ASSUME NEW s \in Saves, SaveFails(s) PROVE DefaultInv'
    <3>1. SetSave(s, "refused", NoCustomer, {}, {}) /\ default' = default /\ raced' = raced
      BY <2>7 DEF SaveFails
    <3> QED BY <2>0, <2>s, <3>1, ViewMoves
  <2>8. ASSUME NEW q \in Setups,
               \/ ReadWallet(q) \/ CreateCustomer(q) \/ StoreCustomer(q)
               \/ RereadCustomer(q) \/ CreateIntent(q) \/ SetupFails(q)
        PROVE  DefaultInv'
    BY <2>1, <2>8 DEF ReadWallet, CreateCustomer, StoreCustomer, RereadCustomer, CreateIntent, SetupFails
  <2>9. CASE UNCHANGED vars
    BY <2>1, <2>9 DEF vars
  <2> QED BY <2>2, <2>3, <2>4, <2>5, <2>6, <2>7, <2>8, <2>9 DEF Next
<1> QED BY <1>1, <1>2, CustomerInvariant, PTL DEF Spec

\* The transaction of routes/cards.ts:79 fails on the index only if another save of the
\* wallet committed while it was under way.
THEOREM OnlyRacesConflict == Spec => []ConflictWasRaced
<1>1. DefaultInv => ConflictWasRaced
  BY DEF DefaultInv
<1> QED BY <1>1, DefaultInvariant, PTL

\* The selects of the default card find one row at most.
THEOREM AtMostOneDefault == Spec => []OneDefault
<1>1. DefaultInv => OneDefault
  BY DEF DefaultInv
<1> QED BY <1>1, DefaultInvariant, PTL

\* A wallet that has a default card keeps having one.
THEOREM DefaultNeverLost == Spec => DefaultStays
<1>1. TypeOK /\ [Next]_vars => [\A w \in Wallets : default[w] # {} => default'[w] # {}]_vars
  <2> SUFFICES ASSUME TypeOK, [Next]_vars, NEW w \in Wallets, default[w] # {} PROVE default'[w] # {}
    OBVIOUS
  <2>1. CASE UNCHANGED default
    BY <2>1
  <2>2. ASSUME NEW s \in Saves, CommitCard(s) PROVE default'[w] # {}
    <3>1. /\ default' = [default EXCEPT ![SaveWallet[s]] = (@ \ save[s].cleared) \cup {CardOf(s)}]
          /\ default \in [Wallets -> SUBSET Setups]
      BY <2>2 DEF CommitCard, TypeOK
    <3> QED BY <3>1
  <2>3. ASSUME NEW s \in Saves, ReadCustomer(s) \/ VerifyIntent(s) \/ ClearDefault(s)
                                \/ RefusedByIndex(s) \/ SaveFails(s)
        PROVE  default'[w] # {}
    BY <2>1, <2>3 DEF ReadCustomer, VerifyIntent, ClearDefault, RefusedByIndex, SaveFails
  <2>4. ASSUME NEW q \in Setups,
               \/ ReadWallet(q) \/ CreateCustomer(q) \/ StoreCustomer(q)
               \/ RereadCustomer(q) \/ CreateIntent(q) \/ SetupFails(q)
        PROVE  default'[w] # {}
    BY <2>1, <2>4 DEF ReadWallet, CreateCustomer, StoreCustomer, RereadCustomer, CreateIntent, SetupFails
  <2>5. CASE UNCHANGED vars
    BY <2>1, <2>5 DEF vars
  <2> QED BY <2>2, <2>3, <2>4, <2>5 DEF Next
<1> QED BY <1>1, TypeCorrect, PTL DEF Spec, DefaultStays
=============================================================================
