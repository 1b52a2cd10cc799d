--------------------------- MODULE MCTickHandler ----------------------------
(* Values for checking TickHandler: a trader who can just pay for a position *)
(* and a gift, an official with some lamports and one with none.             *)
EXTENDS TickHandler, HwalLedger

CONSTANT Funded

MCFunds == [w \in Wallets |->
    IF w \in Traders THEN 428003 ELSE IF w \in Funded THEN 100000 ELSE 0]
=============================================================================
