------------------------------- MODULE MCSessions -------------------------------
(* A client that awaits its answers, and one that does not. *)
EXTENDS Sessions, TLC
CONSTANTS f1, f2, q1, q2, q3, q4, q5

ThreeAndTwo == q1 :> f1 @@ q2 :> f1 @@ q3 :> f1 @@ q4 :> f2 @@ q5 :> f2
RequestSymmetry == Permutations({q1, q2, q3}) \cup Permutations({q4, q5})
=============================================================================
