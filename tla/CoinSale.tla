------------------------------- MODULE CoinSale -------------------------------
(***************************************************************************)
(* What buying coins promises, with no handler, no webhook and no queue: a *)
(* sale is confirmed, by the gateway's answer or by a webhook about its    *)
(* charge, and then its coins are delivered, once.  README.md of the       *)
(* repository, "Money & ledger invariants"; Topups implements it.          *)
(***************************************************************************)
CONSTANT Sales
VARIABLE sale

Init == sale = [s \in Sales |-> "open"]

Confirm(s) == sale[s] = "open" /\ sale' = [sale EXCEPT ![s] = "confirmed"]
Deliver(s) == sale[s] = "confirmed" /\ sale' = [sale EXCEPT ![s] = "delivered"]

Next == \E s \in Sales : Confirm(s) \/ Deliver(s)
Spec == Init /\ [][Next]_sale

=============================================================================
