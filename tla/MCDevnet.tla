------------------------------ MODULE MCDevnet ------------------------------
(* Values for checking Devnet: two hosts that sign with one wallet, and      *)
(* somebody else who may be the admin.                                       *)
EXTENDS Devnet

CONSTANTS op, visitor

MCOneAdmin == [h \in Hosts |-> op]
=============================================================================
