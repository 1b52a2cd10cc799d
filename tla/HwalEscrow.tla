----------------------------- MODULE HwalEscrow -----------------------------
(***************************************************************************)
(* The program implements Escrow.  The refinement mapping reads the stage  *)
(* of a position from its status and the stake from its collateral; what   *)
(* the account holds besides (rent, gifts) is not at stake.                *)
(***************************************************************************)
EXTENDS Hwal

StageOf(p) ==
    IF p = None THEN "absent"
    ELSE IF p.status = STATUS_OPEN THEN "held"
    ELSE IF p.status = STATUS_TRIGGERED THEN "fired" ELSE "returned"

StakeOf(p) == IF p = None THEN 0 ELSE p.collateral

Stage == [k \in PositionKey |-> StageOf(position[k])]
Stake == [k \in PositionKey |-> StakeOf(position[k])]

Promise == INSTANCE Escrow WITH
    stage <- Stage, stake <- Stake, balance <- lamports

\* Whatever keepers, owners, the admin, the feeds and givers do, in any order,
\* each position is an escrow: its collateral goes in once and comes out
\* once, whole, as a refund or split within the caps, and no wallet gains or
\* loses anything otherwise than by that or by giving.
EscrowIsKept == Promise!EscrowSpec
=============================================================================
