------------------------------ MODULE MCCashouts ------------------------------
(* Small instances of Cashouts: up to three cashouts of one creator, whose   *)
(* payout balance covers two of them, and two workers.                       *)
EXTENDS Cashouts, TLC
CONSTANTS u1, c1, c2, c3, k1, k2

OneOwner    == [c \in Jobs |-> u1]
Amounts     == [c \in Jobs |-> IF c = c2 THEN 3 ELSE 2]
Dollars     == [c \in Jobs |-> 1]                          \* all paid out in USD
LocalRates  == [c \in Jobs |-> IF c = c1 THEN 2 ELSE 1]    \* c1 to a mobile-money account
AllRouted   == [c \in Jobs |-> TRUE]
BankFirst   == [c \in Jobs |-> c # c1]
DistinctKey == [c \in Jobs |-> IF c = c1 THEN k1 ELSE k2]
SharedKey   == [c \in Jobs |-> k1]                         \* retries after a 5xx
EnoughForTwo == u1 :> 5

Interchangeable == Permutations(Slots) \cup Permutations(Notices)
=============================================================================
