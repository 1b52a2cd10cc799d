-------------------------- MODULE MCTrailingHistory -------------------------
(* Values for checking TrailingHistory: one position, prices and levels up  *)
(* to the u64 limit.                                                        *)
EXTENDS TrailingHistory

MCPrices == 0..4
MCLevels == 0..5
MCFunds == [w \in Wallets |-> IF w \in Traders THEN 2 ELSE 0]
=============================================================================
