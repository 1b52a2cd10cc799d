----------------------------- MODULE MCKeeperBot ----------------------------
(* Values for checking KeeperBot: one bot and one trader with one position  *)
(* or two, and an admin who may rotate the fee receiver.                    *)
EXTENDS KeeperBot

MCFunds == [w \in Wallets |-> IF w \in Traders THEN (3 * Cardinality(Nonces)) ELSE 0]
=============================================================================
