------------------------------ MODULE Triggers ------------------------------
(***************************************************************************)
(* The trigger rules of tick_position.rs, open_position.rs and             *)
(* update_triggers.rs as pure operators.  The code writes every rule twice,*)
(* once per side, with the comparison turned round; NoBetter carries that  *)
(* symmetry, so each rule is written once.                                 *)
(***************************************************************************)
EXTENDS HwalBase

SIDE_LONG  == 0
SIDE_SHORT == 1

STATUS_OPEN      == 0
STATUS_TRIGGERED == 1
STATUS_CANCELLED == 2

TRIGGER_NONE        == 0
TRIGGER_STOP_LOSS   == 1
TRIGGER_TAKE_PROFIT == 2
TRIGGER_TRAILING    == 3

-----------------------------------------------------------------------------
\* Price a is no better than price b for a position on this side.
NoBetter(side, a, b) == IF side = SIDE_LONG THEN a <= b ELSE a >= b

Worse(side, a, b) == NoBetter(side, a, b) /\ a # b

\* Mutants of ValidTriggers: the offset is not bounded; the stop of a short is
\* validated like that of a long.
MutAnyOffset(side, entry, stop, takeProfit, offset) ==
    /\ stop > 0       => Worse(side, stop, entry)
    /\ takeProfit > 0 => Worse(side, entry, takeProfit)

MutStopAlwaysBelow(side, entry, stop, takeProfit, offset) ==
    /\ stop > 0       => stop < entry
    /\ takeProfit > 0 => Worse(side, entry, takeProfit)
    /\ offset > 0     => offset < entry

\* A zero level is a disabled trigger.
ValidTriggers(side, entry, stop, takeProfit, offset) ==
    /\ stop > 0       => Worse(side, stop, entry)
    /\ takeProfit > 0 => Worse(side, entry, takeProfit)
    /\ offset > 0     => offset < entry

-----------------------------------------------------------------------------
\* Mutant of AdvancedExtreme: it follows the worst price, not the best.
MutFollowWorst(p, price) ==
    IF p.trailing_offset > 0 /\ Worse(p.side, price, p.trailing_extreme)
    THEN price
    ELSE p.trailing_extreme

\* The trailing extreme after a tick at price: only an armed trailing stop
\* follows the price.
AdvancedExtreme(p, price) ==
    IF /\ p.trailing_offset > 0
       /\ \/ Worse(p.side, p.trailing_extreme, price)
          \/ p.side # SIDE_LONG /\ p.trailing_extreme = 0
    THEN price
    ELSE p.trailing_extreme

\* Mutant of StopHit: the stop of a short is compared like that of a long.
MutStopAsLong(p, price) == p.stop_price > 0 /\ price <= p.stop_price

\* The rules below read a position whose extreme the tick has advanced.
StopHit(p, price) ==
    p.stop_price > 0 /\ NoBetter(p.side, price, p.stop_price)

TakeProfitHit(p, price) ==
    p.take_profit_price > 0 /\ NoBetter(p.side, p.take_profit_price, price)

TrailingThreshold(p) ==
    IF p.side = SIDE_LONG
    THEN p.trailing_extreme - p.trailing_offset
    ELSE p.trailing_extreme + p.trailing_offset

\* Mutant of TrailingHit: a price on the threshold does not fire.
MutStrictTrailing(p, price) ==
    p.trailing_offset > 0 /\ Worse(p.side, price, TrailingThreshold(p))

TrailingHit(p, price) ==
    p.trailing_offset > 0 /\ NoBetter(p.side, price, TrailingThreshold(p))

\* The threshold is computed only when neither fixed level was hit, and the
\* tick fails (TrailingUnderflow, MathOverflow) when it is not a u64.
ThresholdFails(p, price) ==
    /\ p.trailing_offset > 0
    /\ ~StopHit(p, price) /\ ~TakeProfitHit(p, price)
    /\ TrailingThreshold(p) \notin U64

\* Stop-loss, then take-profit, then trailing: the first hit wins.
FirstTrigger(p, price) ==
    IF StopHit(p, price) THEN TRIGGER_STOP_LOSS
    ELSE IF TakeProfitHit(p, price) THEN TRIGGER_TAKE_PROFIT
    ELSE IF TrailingHit(p, price) THEN TRIGGER_TRAILING
    ELSE TRIGGER_NONE
=============================================================================
