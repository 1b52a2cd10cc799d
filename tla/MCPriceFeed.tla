---------------------------- MODULE MCPriceFeed -----------------------------
(* Values for checking PriceFeed: one or two officials, one feed. *)
EXTENDS PriceFeed

MCPrices == 0..U64_MAX
=============================================================================
