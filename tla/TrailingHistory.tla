--------------------------- MODULE TrailingHistory --------------------------
(***************************************************************************)
(* A trailing stop is a promise about the past: it fires when the price    *)
(* has gone back far enough from the best price reached since the stop was *)
(* armed.  The program keeps one number, trailing_extreme, updated by      *)
(* tick_position and reset by update_triggers.  This module runs the       *)
(* program next to a history variable,                                     *)
(*                                                                         *)
(*   seen[k]: the entry price and every price position k was ticked at     *)
(*            since it was opened or last given another offset,            *)
(*                                                                         *)
(* and states that the number stands for that history.                     *)
(***************************************************************************)
EXTENDS Hwal

VARIABLE seen

historyVars == <<vars, seen>>

HistoryInit == Init /\ seen = [k \in PositionKey |-> {}]

HistoryNext ==
    \/ AdminOps /\ UNCHANGED seen
    \/ \E k \in PositionKey :
         \/ Opens(k) /\ seen' = [seen EXCEPT ![k] = {position'[k].entry_price}]
         \/ /\ Retriggers(k)
            /\ seen' = IF position'[k].trailing_offset = position[k].trailing_offset
                       THEN seen
                       ELSE [seen EXCEPT ![k] = {position[k].entry_price}]
         \/ Ticks(k) /\ seen' = [seen EXCEPT ![k] = @ \cup {PriceOf(k)}]
         \/ OtherOps(k) /\ UNCHANGED seen

HistorySpec == HistoryInit /\ [][HistoryNext]_historyVars

-----------------------------------------------------------------------------
Armed(k) == IsOpen(k) /\ position[k].trailing_offset > 0

\* The price best for the position: no price of S is better.
IsBest(side, price, S) == price \in S /\ \A q \in S : NoBetter(side, q, price)

\* How far a price has gone back from another, to the position's loss.
Retreat(side, from, to) == IF side = SIDE_LONG THEN from - to ELSE to - from

\* An armed stop's extreme is the best of the entry price and of all prices
\* ticked since it was armed, through any mix of ticks, feed updates,
\* re-armings and changes of the other levels: no tick is forgotten and no
\* price of before the arming counts.
ExtremeIsBestSeen ==
    \A k \in PositionKey : Armed(k) =>
        IsBest(position[k].side, position[k].trailing_extreme, seen[k])

\* A disarmed stop's extreme is the entry price, so that the next arming,
\* which only resets it when the offset changes, starts from there.
DisarmedExtremeIsEntry ==
    \A k \in PositionKey : (IsOpen(k) /\ ~Armed(k)) =>
        position[k].trailing_extreme = position[k].entry_price

\* A tick fires an armed stop exactly when the price has gone back by the
\* offset from some price of the history, unless a fixed level comes first;
\* it never fires early, late, or on a price that moved the owner's way.
TrailingFiresOnRetreat ==
    [][\A k \in PositionKey : (Armed(k) /\ Ticks(k)) =>
          LET p == position[k]
              fixed == StopHit(p, PriceOf(k)) \/ TakeProfitHit(p, PriceOf(k))
          IN  position'[k].trigger_reason = TRIGGER_TRAILING
                <=> /\ ~fixed
                    /\ \E q \in seen'[k] :
                          Retreat(p.side, q, PriceOf(k)) >= p.trailing_offset]_historyVars
=============================================================================
