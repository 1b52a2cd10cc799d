----------------------- MODULE TrailingHistory_proofs -----------------------
(***************************************************************************)
(* The one number a trailing stop keeps stands for the history of prices,  *)
(* for all values of the constants.                                        *)
(*                                                                         *)
(* The inductive invariant adds to Inv of Hwal_proofs, for each open       *)
(* position, that an armed extreme is the best price of the history, that  *)
(* a disarmed one is the entry price, and that no trigger is recorded      *)
(* while the position is open.                                             *)
(***************************************************************************)
EXTENDS TrailingHistory, Hwal_proofs

\* What the record of an open position says of its history.
Follows(p, S) ==
    /\ p.trigger_reason = TRIGGER_NONE
    /\ IF p.trailing_offset > 0 THEN IsBest(p.side, p.trailing_extreme, S)
                                ELSE p.trailing_extreme = p.entry_price

HistoryInv ==
    /\ Inv
    /\ seen \in [PositionKey -> SUBSET U64]
    /\ \A k \in PositionKey : IsOpen(k) => Follows(position[k], seen[k])

-----------------------------------------------------------------------------
(* Prices *)

\* One more price: the advanced extreme is the best of all.
LEMMA AdvancedIsBest ==
    ASSUME NEW p \in PositionRecord, NEW price \in U64 \ {0}, Anchored(p),
           p.trailing_offset > 0,
           NEW S \in SUBSET U64, IsBest(p.side, p.trailing_extreme, S)
    PROVE  IsBest(p.side, AdvancedExtreme(p, price), S \cup {price})
<1>1. p.trailing_extreme \in U64 /\ p.trailing_extreme > 0
  BY DEF PositionRecord, Anchored
<1> QED
  BY <1>1 DEF AdvancedExtreme, IsBest, NoBetter, Worse, U64

\* The threshold is reached exactly when some price of the history is the
\* offset away; the present price never is, from itself.
LEMMA HitIsRetreat ==
    ASSUME NEW p \in PositionRecord, NEW price \in U64 \ {0}, Anchored(p),
           p.trailing_offset > 0,
           NEW S \in SUBSET U64, IsBest(p.side, p.trailing_extreme, S),
           NEW T, S \subseteq T, T \subseteq S \cup {price},
           NEW q, q.side = p.side, q.trailing_offset = p.trailing_offset,
           q.trailing_extreme = AdvancedExtreme(p, price)
    PROVE  TrailingHit(q, price)
             <=> \E x \in T : Retreat(p.side, x, price) >= p.trailing_offset
<1> DEFINE e == AdvancedExtreme(p, price)
<1>1. /\ p.trailing_extreme \in U64 /\ p.trailing_extreme > 0
      /\ p.trailing_offset \in U64
  BY DEF PositionRecord, Anchored
<1>2. /\ e \in U64 /\ NoBetter(p.side, p.trailing_extreme, e)
      /\ e = price \/ e = p.trailing_extreme
  BY <1>1 DEF AdvancedExtreme, NoBetter, Worse, U64
<1>3. /\ p.trailing_extreme \in S
      /\ \A x \in S : NoBetter(p.side, x, p.trailing_extreme)
  BY DEF IsBest
<1> HIDE DEF e
<1>4. TrailingHit(q, price) <=> Retreat(p.side, e, price) >= p.trailing_offset
  BY <1>1, <1>2 DEF TrailingHit, TrailingThreshold, NoBetter, Retreat, U64, e
<1>5. ASSUME Retreat(p.side, e, price) >= p.trailing_offset
      PROVE  \E x \in T : Retreat(p.side, x, price) >= p.trailing_offset
  <2>1. e = p.trailing_extreme
    BY <1>1, <1>2, <1>5 DEF Retreat, U64
  <2> QED
    BY <1>3, <1>5, <2>1
<1>6. ASSUME NEW x \in T, Retreat(p.side, x, price) >= p.trailing_offset
      PROVE  Retreat(p.side, e, price) >= p.trailing_offset
  <2>1. x # price
    BY <1>1, <1>6 DEF Retreat, U64
  <2>2. x \in S /\ x \in U64 /\ NoBetter(p.side, x, p.trailing_extreme)
    BY <1>3, <2>1
  <2> QED
    BY <1>1, <1>2, <1>6, <2>2 DEF Retreat, NoBetter, U64
<1> QED
  BY <1>4, <1>5, <1>6

-----------------------------------------------------------------------------
(* Records *)

LEMMA NewFollows ==
    ASSUME NEW r \in PositionRecord, r.trigger_reason = TRIGGER_NONE,
           r.trailing_extreme = r.entry_price
    PROVE  Follows(r, {r.entry_price})
BY DEF Follows, IsBest, NoBetter, PositionRecord, U64

LEMMA RetriggeredFollows ==
    ASSUME NEW p \in PositionRecord, NEW S, Follows(p, S),
           NEW stop \in U64, NEW takeProfit \in U64, NEW offset \in U64
    PROVE  Follows(Retriggered(p, stop, takeProfit, offset),
                   IF offset = p.trailing_offset THEN S ELSE {p.entry_price})
<1> DEFINE r == Retriggered(p, stop, takeProfit, offset)
<1>1. /\ r.trigger_reason = p.trigger_reason /\ r.trailing_offset = offset
      /\ r.side = p.side /\ r.entry_price = p.entry_price
      /\ r.trailing_extreme = IF offset = p.trailing_offset
                              THEN p.trailing_extreme ELSE p.entry_price
  BY DEF Retriggered, PositionRecord
<1>2. p.entry_price \in U64 /\ p.trailing_offset \in U64
  BY DEF PositionRecord
<1> HIDE DEF r
<1>3. CASE offset = p.trailing_offset
  BY <1>1, <1>3 DEF Follows, r
<1>4. CASE offset # p.trailing_offset
  BY <1>1, <1>2, <1>4 DEF Follows, IsBest, NoBetter, U64, r
<1> QED
  BY <1>3, <1>4

\* What a tick that is possible finds and leaves.
LEMMA TickedFacts ==
    ASSUME HistoryInv, NEW k \in PositionKey, TickReady(k)
    PROVE  LET p == position[k]
               q == Ticked(k)
           IN  /\ p \in PositionRecord /\ Anchored(p) /\ Follows(p, seen[k])
               /\ PriceOf(k) \in U64 \ {0}
               /\ q.side = p.side /\ q.entry_price = p.entry_price
               /\ q.stop_price = p.stop_price
               /\ q.take_profit_price = p.take_profit_price
               /\ q.trailing_offset = p.trailing_offset
               /\ q.trigger_reason = p.trigger_reason
               /\ q.trailing_extreme = AdvancedExtreme(p, PriceOf(k))
<1> DEFINE p == position[k]
<1>1. IsOpen(k) /\ feed[p.feed] # None
  BY DEF TickReady
<1>2. p \in PositionRecord /\ Anchored(p) /\ Follows(p, seen[k])
  BY <1>1 DEF HistoryInv, Inv, PositionInv, IsOpen, TriggersAnchored
<1>3. PriceOf(k) \in U64 \ {0}
  <2>1. p.feed \in Symbols
    BY <1>2 DEF PositionRecord
  <2>2. feed[p.feed] \in PriceFeedRecord
    BY <1>1, <2>1 DEF HistoryInv, Inv, FeedInv, FeedTypeOK
  <2> QED
    BY <2>2 DEF PriceOf, PriceFeedRecord
<1>4. /\ Ticked(k).side = p.side /\ Ticked(k).entry_price = p.entry_price
      /\ Ticked(k).stop_price = p.stop_price
      /\ Ticked(k).take_profit_price = p.take_profit_price
      /\ Ticked(k).trailing_offset = p.trailing_offset
      /\ Ticked(k).trigger_reason = p.trigger_reason
      /\ Ticked(k).trailing_extreme = AdvancedExtreme(p, PriceOf(k))
  BY <1>2 DEF Ticked, PositionRecord
<1> QED
  BY <1>2, <1>3, <1>4

LEMMA TickedFollows ==
    ASSUME HistoryInv, NEW k \in PositionKey, TickReady(k)
    PROVE  Follows(Ticked(k), seen[k] \cup {PriceOf(k)})
<1> DEFINE p == position[k]
           q == Ticked(k)
<1>1. /\ p \in PositionRecord /\ Anchored(p) /\ Follows(p, seen[k])
      /\ PriceOf(k) \in U64 \ {0}
      /\ q.side = p.side /\ q.entry_price = p.entry_price
      /\ q.trailing_offset = p.trailing_offset
      /\ q.trigger_reason = p.trigger_reason
      /\ q.trailing_extreme = AdvancedExtreme(p, PriceOf(k))
      /\ seen[k] \in SUBSET U64
  BY TickedFacts DEF HistoryInv
<1> HIDE DEF p, q
<1>2. CASE p.trailing_offset > 0
  <2>1. IsBest(p.side, AdvancedExtreme(p, PriceOf(k)), seen[k] \cup {PriceOf(k)})
    BY <1>1, <1>2, AdvancedIsBest DEF Follows
  <2> QED
    BY <1>1, <1>2, <2>1 DEF Follows, q
<1>3. CASE ~(p.trailing_offset > 0)
  BY <1>1, <1>3 DEF Follows, AdvancedExtreme, q
<1> QED
  BY <1>2, <1>3

-----------------------------------------------------------------------------
(* Steps *)

LEMMA PositionOpIsNext ==
    ASSUME NEW k \in PositionKey, PositionOps(k)
    PROVE  Next
BY DEF Next

\* An instruction on one position has to keep the history of that one.
LEMMA HistoryKept ==
    ASSUME HistoryInv, NEW k \in PositionKey, PositionOps(k),
           seen' \in [PositionKey -> SUBSET U64],
           \A j \in PositionKey : j # k => seen'[j] = seen[j],
           IsOpen(k)' => Follows(position'[k], seen'[k])
    PROVE  HistoryInv'
<1>1. Inv'
  BY PositionOpIsNext, InvStep DEF HistoryInv
<1>2. \A j \in PositionKey : j # k => position'[j] = position[j]
  BY OpsTouchOne DEF HistoryInv
<1>3. ASSUME NEW j \in PositionKey, IsOpen(j)'
      PROVE  Follows(position'[j], seen'[j])
  <2>1. CASE j = k
    BY <1>3, <2>1
  <2>2. CASE j # k
    <3>1. IsOpen(j)
      BY <1>2, <1>3, <2>2 DEF IsOpen
    <3> QED
      BY <1>2, <2>2, <3>1 DEF HistoryInv
  <2> QED
    BY <2>1, <2>2
<1>4. (\A j \in PositionKey : IsOpen(j) => Follows(position[j], seen[j]))'
  BY <1>3
<1> QED
  BY <1>1, <1>4 DEF HistoryInv

LEMMA OpensKeepsHistory ==
    ASSUME HistoryInv, NEW k \in PositionKey, Opens(k),
           seen' = [seen EXCEPT ![k] = {position'[k].entry_price}]
    PROVE  HistoryInv'
<1>1. PICK s \in Symbols, side \in 0..2, collateral \in Collaterals,
           stop \in Levels, takeProfit \in Levels, offset \in Levels :
             OpenPosition(k, s, side, collateral, stop, takeProfit, offset)
  BY DEF Opens
<1> DEFINE r == NewPosition(s, side, collateral, stop, takeProfit, offset)
<1>2. r \in PositionRecord /\ position' = [position EXCEPT ![k] = r]
  BY <1>1, OpenEffect DEF HistoryInv
<1>3. r.trigger_reason = TRIGGER_NONE /\ r.trailing_extreme = r.entry_price
  BY DEF NewPosition
<1> HIDE DEF r
<1>4. position'[k] = r
  BY <1>2 DEF HistoryInv, Inv, PositionInv
<1>5. r.entry_price \in U64
  BY <1>2 DEF PositionRecord
<1>6. /\ seen' \in [PositionKey -> SUBSET U64]
      /\ seen'[k] = {r.entry_price}
      /\ \A j \in PositionKey : j # k => seen'[j] = seen[j]
  BY <1>4, <1>5 DEF HistoryInv
<1>7. Follows(position'[k], seen'[k])
  BY <1>2, <1>3, <1>4, <1>6, NewFollows
<1> QED
  BY <1>6, <1>7, HistoryKept DEF PositionOps

LEMMA RetriggersKeepsHistory ==
    ASSUME HistoryInv, NEW k \in PositionKey, Retriggers(k),
           seen' = IF position'[k].trailing_offset = position[k].trailing_offset
                   THEN seen
                   ELSE [seen EXCEPT ![k] = {position[k].entry_price}]
    PROVE  HistoryInv'
<1>1. PICK signer \in Traders, stop \in Levels, takeProfit \in Levels, offset \in Levels :
             UpdateTriggers(signer, k, stop, takeProfit, offset)
  BY DEF Retriggers
<1> DEFINE p == position[k]
           r == Retriggered(p, stop, takeProfit, offset)
<1>2. IsOpen(k) /\ position'[k] = r
  BY <1>1 DEF UpdateTriggers, HistoryInv, Inv, PositionInv
<1>3. p \in PositionRecord /\ Follows(p, seen[k])
  BY <1>2 DEF HistoryInv, Inv, PositionInv, IsOpen
<1>4. r.trailing_offset = offset
  BY <1>3 DEF Retriggered, PositionRecord
<1>5. p.entry_price \in U64
  BY <1>3 DEF PositionRecord
<1>6. Follows(r, IF offset = p.trailing_offset THEN seen[k] ELSE {p.entry_price})
  <2>1. stop \in U64 /\ takeProfit \in U64 /\ offset \in U64
    BY HwalAssumption
  <2> HIDE DEF p
  <2> QED
    BY <1>3, <2>1, RetriggeredFollows
<1> HIDE DEF r
<1>7. /\ seen' \in [PositionKey -> SUBSET U64]
      /\ seen'[k] = IF offset = p.trailing_offset THEN seen[k] ELSE {p.entry_price}
      /\ \A j \in PositionKey : j # k => seen'[j] = seen[j]
  BY <1>2, <1>4, <1>5 DEF HistoryInv
<1> QED
  BY <1>2, <1>6, <1>7, HistoryKept DEF PositionOps

LEMMA TicksKeepsHistory ==
    ASSUME HistoryInv, NEW k \in PositionKey, Ticks(k),
           seen' = [seen EXCEPT ![k] = seen[k] \cup {PriceOf(k)}]
    PROVE  HistoryInv'
<1>1. TickReady(k)
  BY DEF Ticks, TickPosition, TickHold, TickFire
<1>2. PriceOf(k) \in U64
  BY <1>1, TickedFacts
<1>3. /\ seen' \in [PositionKey -> SUBSET U64]
      /\ seen'[k] = seen[k] \cup {PriceOf(k)}
      /\ \A j \in PositionKey : j # k => seen'[j] = seen[j]
  BY <1>2 DEF HistoryInv
<1>4. ASSUME IsOpen(k)'
      PROVE  Follows(position'[k], seen'[k])
  <2>1. CASE TickHold(k)
    <3>1. position'[k] = Ticked(k)
      BY <2>1 DEF TickHold, HistoryInv, Inv, PositionInv
    <3> QED
      BY <1>1, <1>3, <3>1, TickedFollows
  <2>2. ASSUME NEW keeper \in Keepers, TickFire(keeper, k)
        PROVE  FALSE
    BY <1>4, <2>2, FireEffect, StatusCodes DEF HistoryInv, IsOpen
  <2> QED
    BY <2>1, <2>2 DEF Ticks, TickPosition
<1> QED
  BY <1>3, <1>4, HistoryKept DEF PositionOps

LEMMA OtherOpsKeepHistory ==
    ASSUME HistoryInv, NEW k \in PositionKey, OtherOps(k), UNCHANGED seen
    PROVE  HistoryInv'
<1>1. ASSUME IsOpen(k)'
      PROVE  Follows(position'[k], seen'[k])
  <2>1. ASSUME NEW signer \in Traders, CancelPosition(signer, k)
        PROVE  FALSE
    BY <1>1, <2>1, CancelEffect, StatusCodes DEF HistoryInv, IsOpen
  <2>2. ASSUME NEW signer \in Traders, NEW flag \in {0, 1}, SetDelegated(signer, k, flag)
        PROVE  Follows(position'[k], seen[k])
    <3> DEFINE r == [position[k] EXCEPT !.er_delegated = flag]
    <3>1. IsOpen(k) /\ position'[k] = r
      BY <2>2 DEF SetDelegated, HistoryInv, Inv, PositionInv
    <3>2. position[k] \in PositionRecord /\ Follows(position[k], seen[k])
      BY <3>1 DEF HistoryInv, Inv, PositionInv, IsOpen
    <3>3. Follows(r, seen[k])
      BY <3>2 DEF Follows, PositionRecord
    <3> QED
      BY <3>1, <3>3
  <2>3. ASSUME NEW w \in Traders, NEW amount \in Gifts, GiftToPosition(w, k, amount)
        PROVE  Follows(position'[k], seen[k])
    BY <1>1, <2>3 DEF GiftToPosition, HistoryInv, IsOpen
  <2> QED
    BY <2>1, <2>2, <2>3 DEF OtherOps, Delegations, DelegatePosition, UndelegatePosition
<1> QED
  BY <1>1, HistoryKept DEF PositionOps, HistoryInv

LEMMA HistoryStep == HistoryInv /\ [HistoryNext]_historyVars => HistoryInv'
<1> SUFFICES ASSUME HistoryInv, [HistoryNext]_historyVars
             PROVE  HistoryInv'
    OBVIOUS
<1>1. ASSUME UNCHANGED <<position, seen>>, [Next]_vars
      PROVE  HistoryInv'
  <2>1. Inv'
    BY <1>1, InvStep DEF HistoryInv
  <2> QED
    BY <1>1, <2>1 DEF HistoryInv, IsOpen
<1>2. CASE AdminOps /\ UNCHANGED seen
  BY <1>1, <1>2, AdminOpsAreFeedSteps DEF positionVars, Next
<1>3. CASE UNCHANGED historyVars
  BY <1>1, <1>3 DEF historyVars, vars, positionVars
<1> QED
  BY <1>2, <1>3, OpensKeepsHistory, RetriggersKeepsHistory, TicksKeepsHistory,
     OtherOpsKeepHistory DEF HistoryNext

LEMMA HistoryStart == HistoryInit => HistoryInv
<1> SUFFICES ASSUME HistoryInit
             PROVE  HistoryInv
    OBVIOUS
<1>1. Inv
  BY InvInit DEF HistoryInit
<1> QED
  BY <1>1 DEF HistoryInit, HistoryInv, Init, IsOpen

THEOREM HistoryInvariance == HistorySpec => []HistoryInv
BY HistoryStart, HistoryStep, PTL DEF HistorySpec

-----------------------------------------------------------------------------
(* Theorems *)

\* An armed extreme is the best of the entry price and of all prices ticked
\* since the stop was armed.
THEOREM ExtremeStandsForHistory == HistorySpec => []ExtremeIsBestSeen
<1>1. HistoryInv => ExtremeIsBestSeen
  BY DEF HistoryInv, ExtremeIsBestSeen, Armed, Follows
<1> QED
  BY <1>1, HistoryInvariance, PTL

\* A disarmed stop waits at the entry price.
THEOREM DisarmedAtEntry == HistorySpec => []DisarmedExtremeIsEntry
<1>1. HistoryInv => DisarmedExtremeIsEntry
  BY DEF HistoryInv, DisarmedExtremeIsEntry, Armed, Follows
<1> QED
  BY <1>1, HistoryInvariance, PTL

\* Whatever else a tick's step may be taken for, the history it leaves for
\* the position has one more price or none.
LEMMA TickHistory ==
    ASSUME HistoryInv, [HistoryNext]_historyVars, NEW k \in PositionKey, IsOpen(k),
           position'[k].trailing_offset = position[k].trailing_offset
    PROVE  seen[k] \subseteq seen'[k] /\ seen'[k] \subseteq seen[k] \cup {PriceOf(k)}
<1>1. ASSUME NEW j \in PositionKey, Opens(j)
      PROVE  j # k
  BY <1>1 DEF Opens, OpenPosition, IsOpen
<1> QED
  BY <1>1 DEF HistoryNext, historyVars, HistoryInv

\* A trailing stop fires exactly when the price has gone back by the offset
\* from a price of its history, and no fixed level comes first.
THEOREM TrailingFires == HistorySpec => TrailingFiresOnRetreat
<1>1. ASSUME HistoryInv, [HistoryNext]_historyVars, NEW k \in PositionKey,
             Armed(k), Ticks(k)
      PROVE  position'[k].trigger_reason = TRIGGER_TRAILING
               <=> /\ ~(StopHit(position[k], PriceOf(k)) \/ TakeProfitHit(position[k], PriceOf(k)))
                   /\ \E x \in seen'[k] :
                         Retreat(position[k].side, x, PriceOf(k)) >= position[k].trailing_offset
  <2> DEFINE p == position[k]
             q == Ticked(k)
             price == PriceOf(k)
             reason == FirstTrigger(q, price)
  <2>1. TickReady(k)
    BY <1>1 DEF Ticks, TickPosition, TickHold, TickFire
  <2>2. /\ p \in PositionRecord /\ Anchored(p) /\ Follows(p, seen[k])
        /\ price \in U64 \ {0} /\ p.trailing_offset > 0
        /\ q.side = p.side /\ q.stop_price = p.stop_price
        /\ q.take_profit_price = p.take_profit_price
        /\ q.trailing_offset = p.trailing_offset
        /\ q.trigger_reason = p.trigger_reason
        /\ q.trailing_extreme = AdvancedExtreme(p, price)
        /\ seen[k] \in SUBSET U64
    BY <1>1, <2>1, TickedFacts DEF Armed, HistoryInv
  <2>3. q \in PositionRecord
    BY <1>1, <2>1, TickedRecord DEF HistoryInv, TickReady
  <2>4. /\ position'[k].trigger_reason = reason
        /\ position'[k].trailing_offset = p.trailing_offset
    <3>1. CASE TickHold(k)
      <4>1. position'[k] = q /\ reason = TRIGGER_NONE
        BY <1>1, <3>1 DEF TickHold, HistoryInv, Inv, PositionInv
      <4> QED
        BY <2>2, <4>1 DEF Follows
    <3>2. ASSUME NEW keeper \in Keepers, TickFire(keeper, k)
          PROVE  /\ position'[k].trigger_reason = reason
                 /\ position'[k].trailing_offset = p.trailing_offset
      <4> DEFINE r == Settled(q, STATUS_TRIGGERED, reason)
      <4>1. position'[k] = r
        BY <1>1, <3>2 DEF TickFire, HistoryInv, Inv, PositionInv
      <4> HIDE DEF q, reason
      <4>2. r.trigger_reason = reason /\ r.trailing_offset = q.trailing_offset
        BY <2>3 DEF Settled, PositionRecord
      <4> HIDE DEF r
      <4> QED
        BY <2>2, <4>1, <4>2 DEF q
    <3> QED
      BY <1>1, <3>1, <3>2 DEF Ticks, TickPosition
  <2>5. seen[k] \subseteq seen'[k] /\ seen'[k] \subseteq seen[k] \cup {price}
    BY <1>1, <2>4, TickHistory DEF Armed
  <2> HIDE DEF p, q, price, reason
  <2>6. TrailingHit(q, price)
          <=> \E x \in seen'[k] : Retreat(p.side, x, price) >= p.trailing_offset
    BY <2>2, <2>5, HitIsRetreat DEF Follows
  <2>7. /\ StopHit(q, price) <=> StopHit(p, price)
        /\ TakeProfitHit(q, price) <=> TakeProfitHit(p, price)
    BY <2>2 DEF StopHit, TakeProfitHit
  <2>8. reason = TRIGGER_TRAILING
          <=> ~(StopHit(q, price) \/ TakeProfitHit(q, price)) /\ TrailingHit(q, price)
    BY DEF reason, FirstTrigger, TRIGGER_NONE, TRIGGER_STOP_LOSS, TRIGGER_TAKE_PROFIT,
           TRIGGER_TRAILING
  <2> QED
    BY <2>4, <2>6, <2>7, <2>8 DEF p, price
<1>2. HistoryInv /\ [HistoryNext]_historyVars =>
        [\A k \in PositionKey : (Armed(k) /\ Ticks(k)) =>
            LET p == position[k]
                fixed == StopHit(p, PriceOf(k)) \/ TakeProfitHit(p, PriceOf(k))
            IN  position'[k].trigger_reason = TRIGGER_TRAILING
                  <=> /\ ~fixed
                      /\ \E q \in seen'[k] :
                            Retreat(p.side, q, PriceOf(k)) >= p.trailing_offset]_historyVars
  BY <1>1
<1> QED
  BY <1>2, HistoryInvariance, PTL DEF HistorySpec, TrailingFiresOnRetreat

\* The program watched by its price history behaves as the program does: the
\* history constrains nothing.
THEOREM HistoryOnlyWatches == HistorySpec => Spec
<1>1. HistoryInit => Init
  BY DEF HistoryInit
<1>2. [HistoryNext]_historyVars => [Next]_vars
  <2>1. ASSUME NEW k \in PositionKey, Opens(k) \/ Retriggers(k) \/ Ticks(k) \/ OtherOps(k)
        PROVE  Next
    BY <2>1, PositionOpIsNext DEF PositionOps
  <2> QED
    BY <2>1 DEF HistoryNext, Next, historyVars
<1> QED
  BY <1>1, <1>2, PTL DEF HistorySpec, Spec
=============================================================================
