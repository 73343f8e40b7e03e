--------------------------------- MODULE Tiers ---------------------------------
(****************************************************************************)
(* The economics of a creator's level: which level a number of lifetime     *)
(* coins earns and how a gift is split between the platform and the creator *)
(* (src/tiers.ts, src/money.ts).  Cuts are in percent; for amounts a gift   *)
(* can have, Math.round(gross * 0.22) and the like round exactly as the     *)
(* integer division below does, halves up.                                  *)
(****************************************************************************)
EXTENDS Integers

Levels == 1 .. 4

\* CREATOR_TIERS
cut == <<22, 18, 15, 12>>
nextMilestone == <<350000, 500000, 850000>>

calculateLevelFromCoinsStrict(total) ==                            \* mutant
  IF total > 850000 THEN 4 ELSE IF total > 500000 THEN 3 ELSE IF total > 350000 THEN 2 ELSE 1
calculateLevelFromCoins(total) ==
  IF total >= 850000 THEN 4 ELSE IF total >= 500000 THEN 3 ELSE IF total >= 350000 THEN 2 ELSE 1

platformFeeCents(gross, level) == (gross * cut[level] + 50) \div 100
creatorShareCents(gross, level) == gross - platformFeeCents(gross, level)
=============================================================================
