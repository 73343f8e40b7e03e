------------------------------ MODULE MCAccounts ------------------------------
(* Small instances of Accounts: an account and an address without one.       *)
EXTENDS Accounts, TLC

Interchangeable == Permutations(Calls)

\* Calls about the profile and the wallet share no column or table with those
\* about passwords and 2FA: a behaviour has the ones or the others, after any
\* sign-ups.
ProfileOps == {"overlay", "regenerate", "kyc", "link"}
OneConcern ==
  LET asked == {call[c].op : c \in Calls} \ {None, "signup"}
  IN  asked \subseteq ProfileOps \/ asked \cap ProfileOps = {}
=============================================================================
