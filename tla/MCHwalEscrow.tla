---------------------------- MODULE MCHwalEscrow ----------------------------
(* Values for checking HwalEscrow: limits scaled down so that the abstract   *)
(* steps, which range over all amounts, can be enumerated.                   *)
EXTENDS HwalEscrow

MCFunds == [w \in Wallets |-> IF w \in Traders THEN U64_MAX ELSE 0]
=============================================================================
