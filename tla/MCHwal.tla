------------------------------- MODULE MCHwal -------------------------------
(* Values for checking Hwal: small amounts for the run about time; for those *)
(* about money one full deposit per trader and a little over, to give away.  *)
EXTENDS HwalLedger, TLC

MCTimeLevels == 0..1
MCFunds == [w \in Wallets |-> IF w \in Traders THEN 3 ELSE 0]
MCMoneyFunds == [w \in Wallets |-> IF w \in Traders THEN 100055 ELSE 0]

\* The traders differ in nothing, and neither do the officials.
MCMoneySymmetry == Permutations(Traders) \cup Permutations(Officials)
=============================================================================
