------------------------------ MODULE Withdrawal ------------------------------
(***************************************************************************)
(* What a cashout promises, with no gateway and no queue: once requested,  *)
(* the money is owed until it is sent, that is handed to the gateway, or   *)
(* returned to the payout balance, and never both ("Debits                 *)
(* payout_balance_cents when a cashout is requested.  Reverses on          *)
(* failure.", src/ledger/creator.ts).                                      *)
(* Cashouts implements it.                                                 *)
(***************************************************************************)
CONSTANT Withdrawals
VARIABLE due

Init == due = [w \in Withdrawals |-> "none"]

Request(w) == due[w] = "none" /\ due' = [due EXCEPT ![w] = "owed"]
Send(w)    == due[w] = "owed" /\ due' = [due EXCEPT ![w] = "sent"]
Return(w)  == due[w] = "owed" /\ due' = [due EXCEPT ![w] = "returned"]

Next == \E w \in Withdrawals : Request(w) \/ Send(w) \/ Return(w)
Spec == Init /\ [][Next]_due
=============================================================================
