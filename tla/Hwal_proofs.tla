----------------------------- MODULE Hwal_proofs ----------------------------
(***************************************************************************)
(* Theorems about the Hwal program, for all values of the constants.       *)
(*                                                                         *)
(* The inductive invariant is Inv: the types, the anchoring of every open  *)
(* position's triggers to its entry price, and solvency.  An instruction   *)
(* on a position replaces the record of that one position (OneReplaced),   *)
(* and the feeds see of the program steps of their own (FeedsOwnStep).     *)
(***************************************************************************)
EXTENDS Hwal, PriceFeed_proofs

USE HwalAssumption

-----------------------------------------------------------------------------
(* The arithmetic of a settlement (utils.rs, bps_of): shares of an amount in *)
(* basis points, each rounded down.                                          *)

\* Multiplying keeps an inequality of naturals.
LEMMA TimesMonotone ==
    ASSUME NEW a \in Nat, NEW b \in Nat, NEW c \in Nat, b <= c
    PROVE  a * b <= a * c
<1>1. PICK d \in Nat : c = b + d
  <2>1. c - b \in Nat /\ c = b + (c - b)
    OBVIOUS
  <2> QED
    BY <2>1
<1>2. a * c = a * b + a * d
  BY <1>1
<1>3. a * b \in Nat /\ a * d \in Nat
  OBVIOUS
<1> QED
  BY <1>2, <1>3

\* What rounding down leaves: the share, and it times the denominator.
LEMMA BpsRounding ==
    ASSUME NEW amount \in Nat, NEW bps \in Nat
    PROVE  /\ BpsOf(amount, bps) \in Nat
           /\ BpsOf(amount, bps) * BPS_DENOMINATOR <= amount * bps
<1> DEFINE x == amount * bps
<1>1. x \in Nat /\ BPS_DENOMINATOR \in Nat /\ BPS_DENOMINATOR > 0
  BY LimitsAssumption
<1> HIDE DEF x
<1>2. /\ x \div BPS_DENOMINATOR \in Nat
      /\ (x \div BPS_DENOMINATOR) * BPS_DENOMINATOR <= x
  BY <1>1, Z3
<1> QED
  BY <1>2 DEF x, BpsOf

\* A share is no more than a share at a higher rate.
LEMMA BpsMonotone ==
    ASSUME NEW amount \in Nat, NEW low \in Nat, NEW high \in Nat, low <= high
    PROVE  BpsOf(amount, low) <= BpsOf(amount, high)
<1> DEFINE x == amount * low
           y == amount * high
<1>1. x \in Nat /\ y \in Nat /\ x <= y /\ BPS_DENOMINATOR \in Nat /\ BPS_DENOMINATOR > 0
  BY TimesMonotone, LimitsAssumption
<1> HIDE DEF x, y
<1>2. x \div BPS_DENOMINATOR <= y \div BPS_DENOMINATOR
  BY <1>1, Z3
<1> QED
  BY <1>2 DEF x, y, BpsOf

\* Shares whose rates add up to at most the whole fit into the amount, so the
\* subtractions of a settlement never underflow (tick_position.rs:110-111).
LEMMA SharesFit ==
    ASSUME NEW amount \in Nat, NEW f \in Nat, NEW r \in Nat, NEW g \in Nat,
           f + r + g <= BPS_DENOMINATOR
    PROVE  BpsOf(amount, f) + BpsOf(amount, r) + BpsOf(amount, g) <= amount
<1> DEFINE D == BPS_DENOMINATOR
           x == BpsOf(amount, f)
           y == BpsOf(amount, r)
           z == BpsOf(amount, g)
           total == x + y + z
<1>1. D \in Nat /\ D > 0
  BY LimitsAssumption
<1>2. /\ x \in Nat /\ x * D <= amount * f
      /\ y \in Nat /\ y * D <= amount * r
      /\ z \in Nat /\ z * D <= amount * g
  BY BpsRounding
<1>3. amount * f \in Nat /\ amount * r \in Nat /\ amount * g \in Nat
  OBVIOUS
<1> HIDE DEF D, x, y, z
<1>4. total * D = x * D + y * D + z * D
  BY <1>1, <1>2
<1>5. amount * (f + r + g) = amount * f + amount * r + amount * g
  OBVIOUS
<1>6. amount * (f + r + g) <= amount * D
  BY <1>1, TimesMonotone DEF D
<1>7. total * D <= amount * D
  <2>1. x * D \in Nat /\ y * D \in Nat /\ z * D \in Nat /\ amount * D \in Nat
    BY <1>1, <1>2
  <2> QED
    BY <1>2, <1>3, <1>4, <1>5, <1>6, <2>1
<1>8. total \in Nat
  BY <1>2
<1> HIDE DEF total
<1>9. ~(total >= amount + 1)
  <2> SUFFICES ASSUME total >= amount + 1
               PROVE  FALSE
      OBVIOUS
  <2>1. D * (amount + 1) <= D * total
    BY <1>1, <1>8, TimesMonotone
  <2>2. D * (amount + 1) = amount * D + D /\ D * total = total * D
    BY <1>1, <1>8
  <2>3. amount * D \in Nat /\ total * D \in Nat
    BY <1>1, <1>8
  <2> QED
    BY <1>1, <1>7, <2>1, <2>2, <2>3
<1>10. total <= amount
  BY <1>8, <1>9
<1> QED
  BY <1>10 DEF total, x, y, z

-----------------------------------------------------------------------------
PositionInv ==
    /\ position \in [PositionKey -> PositionRecord \cup {None}]
    /\ vault \in [PositionKey -> U64]
    /\ lamports \in [Wallets -> U64]
    /\ TriggersAnchored
    /\ Solvent

Inv == ConfigTypeOK /\ FeedInv /\ PositionInv

-----------------------------------------------------------------------------
(* Records: the ways an instruction rewrites a position keep its type. *)

LEMMA StatusCodes ==
    /\ STATUS_OPEN # STATUS_TRIGGERED
    /\ STATUS_OPEN # STATUS_CANCELLED
BY DEF STATUS_OPEN, STATUS_TRIGGERED, STATUS_CANCELLED

LEMMA RetriggeredRecord ==
    ASSUME NEW p \in PositionRecord, NEW stop \in U64, NEW takeProfit \in U64,
           NEW offset \in U64
    PROVE  /\ Retriggered(p, stop, takeProfit, offset) \in PositionRecord
           /\ Retriggered(p, stop, takeProfit, offset).collateral = p.collateral
BY DEF Retriggered, PositionRecord

LEMMA SettledRecord ==
    ASSUME NEW p \in PositionRecord,
           NEW status \in {STATUS_TRIGGERED, STATUS_CANCELLED},
           NEW reason \in {TRIGGER_NONE, TRIGGER_STOP_LOSS,
                           TRIGGER_TAKE_PROFIT, TRIGGER_TRAILING},
           now \in Time
    PROVE  /\ Settled(p, status, reason) \in PositionRecord
           /\ Settled(p, status, reason).collateral = 0
           /\ Settled(p, status, reason).status = status
<1>1. 0 \in U64
  BY LimitsAssumption DEF U64
<1> QED
  BY <1>1 DEF Settled, PositionRecord

LEMMA ReasonTyped ==
    ASSUME NEW p, NEW price
    PROVE  FirstTrigger(p, price) \in {TRIGGER_NONE, TRIGGER_STOP_LOSS,
                                       TRIGGER_TAKE_PROFIT, TRIGGER_TRAILING}
BY DEF FirstTrigger

\* A tick at a price above zero moves an extreme only in the owner's favour.
LEMMA AdvancedExtremeFacts ==
    ASSUME NEW p \in PositionRecord, NEW price \in U64 \ {0}, Anchored(p)
    PROVE  /\ AdvancedExtreme(p, price) \in U64 \ {0}
           /\ NoBetter(p.side, p.entry_price, AdvancedExtreme(p, price))
<1>1. /\ p.trailing_extreme \in U64 /\ p.entry_price \in U64
      /\ p.trailing_extreme > 0
      /\ NoBetter(p.side, p.entry_price, p.trailing_extreme)
  BY DEF PositionRecord, Anchored
<1> QED
  BY <1>1 DEF AdvancedExtreme, NoBetter, Worse, U64

LEMMA TickedRecord ==
    ASSUME Inv, NEW k \in PositionKey, IsOpen(k),
           feed[position[k].feed] # None, Fresh(position[k].feed)
    PROVE  /\ Ticked(k) \in PositionRecord
           /\ Ticked(k).collateral = position[k].collateral
           /\ Ticked(k).status = STATUS_OPEN
           /\ Anchored(Ticked(k))
<1> DEFINE p == position[k]
           e == AdvancedExtreme(p, PriceOf(k))
<1>1. p \in PositionRecord /\ p.status = STATUS_OPEN /\ Anchored(p)
  BY DEF Inv, PositionInv, IsOpen, TriggersAnchored
<1>2. PriceOf(k) \in U64 \ {0}
  <2>1. p.feed \in Symbols
    BY <1>1 DEF PositionRecord
  <2>2. feed[p.feed] \in PriceFeedRecord
    BY <2>1 DEF Inv, FeedInv, FeedTypeOK
  <2> QED
    BY <2>2 DEF PriceOf, PriceFeedRecord
<1>3. now \in Time /\ Bump(p.tick_count) \in Counter
  BY <1>1, BumpIsCounter DEF Inv, FeedInv, FeedTypeOK, PositionRecord
<1>4. e \in U64 \ {0} /\ NoBetter(p.side, p.entry_price, e)
  BY <1>1, <1>2, AdvancedExtremeFacts
<1>5. Ticked(k) = [p EXCEPT !.last_tick_at = now,
                            !.tick_count = Bump(p.tick_count),
                            !.trailing_extreme = e]
  BY DEF Ticked
<1> HIDE DEF p, e
<1> DEFINE q == [p EXCEPT !.last_tick_at = now, !.tick_count = Bump(p.tick_count),
                          !.trailing_extreme = e]
<1>6. /\ q \in PositionRecord
      /\ q.collateral = p.collateral /\ q.status = p.status
      /\ q.side = p.side /\ q.entry_price = p.entry_price
      /\ q.stop_price = p.stop_price /\ q.take_profit_price = p.take_profit_price
      /\ q.trailing_offset = p.trailing_offset /\ q.trailing_extreme = e
  BY <1>1, <1>3, <1>4 DEF PositionRecord
<1> HIDE DEF q
<1>7. e > 0
  BY <1>4 DEF U64
<1>8. Anchored(q)
  BY <1>1, <1>4, <1>6, <1>7 DEF Anchored
<1> QED
  BY <1>1, <1>5, <1>6, <1>8 DEF p, q

-----------------------------------------------------------------------------
(* Steps *)

\* What an instruction on the position at k must respect.
LEMMA OneReplaced ==
    ASSUME PositionInv, NEW k \in PositionKey, NEW r \in PositionRecord,
           position' = [position EXCEPT ![k] = r],
           r.status = STATUS_OPEN => Anchored(r),
           vault' \in [PositionKey -> U64],
           \A j \in PositionKey : j # k => vault'[j] = vault[j],
           vault'[k] >= r.collateral + RENT,
           lamports' \in [Wallets -> U64]
    PROVE  PositionInv'
<1>1. /\ position' \in [PositionKey -> PositionRecord \cup {None}]
      /\ position'[k] = r
      /\ \A j \in PositionKey : j # k => position'[j] = position[j]
  BY DEF PositionInv
<1>2. TriggersAnchored'
  BY <1>1 DEF PositionInv, TriggersAnchored, IsOpen
<1>3. Solvent'
  BY <1>1 DEF PositionInv, Solvent
<1> QED
  BY <1>1, <1>2, <1>3 DEF PositionInv

\* The record of a new position and what its owner pays.
LEMMA OpenEffect ==
    ASSUME Inv, NEW k \in PositionKey, NEW s \in Symbols, NEW side \in 0..2,
           NEW collateral \in Collaterals, NEW stop \in Levels,
           NEW takeProfit \in Levels, NEW offset \in Levels,
           OpenPosition(k, s, side, collateral, stop, takeProfit, offset)
    PROVE  LET r    == NewPosition(s, side, collateral, stop, takeProfit, offset)
               paid == RentDue(k) + collateral
           IN  /\ r \in PositionRecord
               /\ r.collateral = collateral /\ r.status = STATUS_OPEN
               /\ Anchored(r)
               /\ position' = [position EXCEPT ![k] = r]
               /\ Deposit(k, paid)
               /\ paid \in Int /\ paid >= collateral
               /\ vault[k] + paid >= collateral + RENT
<1> DEFINE r == NewPosition(s, side, collateral, stop, takeProfit, offset)
           paid == RentDue(k) + collateral
<1>1. feed[s] \in PriceFeedRecord /\ now \in Time
  BY DEF OpenPosition, Inv, FeedInv, FeedTypeOK
<1>2. feed[s].price \in U64 \ {0} /\ feed[s].price > 0
  BY <1>1 DEF PriceFeedRecord, U64
<1>3. /\ side \in {SIDE_LONG, SIDE_SHORT}
      /\ ValidTriggers(side, feed[s].price, stop, takeProfit, offset)
      /\ position' = [position EXCEPT ![k] = r]
      /\ Deposit(k, paid)
  BY DEF OpenPosition
<1>4. r \in PositionRecord /\ r.collateral = collateral /\ r.status = STATUS_OPEN
  <2>1. 0 \in U64 /\ 0 \in Time /\ 0 \in Counter
    BY LimitsAssumption, FeedAssumption DEF U64, Time, Counter
  <2>2. collateral \in U64 /\ stop \in U64 /\ takeProfit \in U64 /\ offset \in U64
    OBVIOUS
  <2> QED
    BY <1>1, <1>2, <1>3, <2>1, <2>2 DEF NewPosition, PositionRecord
<1>5. Anchored(r)
  BY <1>2, <1>3 DEF Anchored, NewPosition, NoBetter, U64
<1>6. paid \in Int /\ paid >= collateral /\ vault[k] + paid >= collateral + RENT
  <2>1. vault[k] \in U64 /\ collateral \in U64
    BY DEF Inv, PositionInv
  <2> QED
    BY <2>1 DEF RentDue, U64
<1> QED
  BY <1>3, <1>4, <1>5, <1>6

LEMMA OpenStep ==
    ASSUME Inv, NEW k \in PositionKey, Opens(k)
    PROVE  ConfigTypeOK' /\ PositionInv'
<1>1. PICK s \in Symbols, side \in 0..2, collateral \in Collaterals,
           stop \in Levels, takeProfit \in Levels, offset \in Levels :
             OpenPosition(k, s, side, collateral, stop, takeProfit, offset)
  BY DEF Opens
<1> DEFINE r == NewPosition(s, side, collateral, stop, takeProfit, offset)
           paid == RentDue(k) + collateral
<1>2. /\ r \in PositionRecord /\ r.collateral = collateral /\ Anchored(r)
      /\ position' = [position EXCEPT ![k] = r]
      /\ Deposit(k, paid)
      /\ paid \in Int /\ paid >= collateral /\ vault[k] + paid >= collateral + RENT
  BY <1>1, OpenEffect
<1>3. /\ config # None
      /\ config' = [config EXCEPT !.total_positions_opened =
                                     Bump(config.total_positions_opened)]
  BY <1>1 DEF OpenPosition
<1> HIDE DEF r, paid
<1>4. /\ vault' \in [PositionKey -> U64]
      /\ vault'[k] = vault[k] + paid
      /\ \A j \in PositionKey : j # k => vault'[j] = vault[j]
  BY <1>2 DEF Deposit, Inv, PositionInv
<1>5. lamports' \in [Wallets -> U64]
  <2>1. /\ Owner(k) \in Wallets /\ lamports[Owner(k)] \in U64
        /\ collateral \in U64
    BY DEF PositionKey, Owner, Inv, PositionInv
  <2>2. lamports[Owner(k)] - paid \in U64
    BY <1>2, <2>1, LimitsAssumption DEF Deposit, U64
  <2> QED
    BY <1>2, <2>1, <2>2 DEF Deposit, Inv, PositionInv
<1>6. PositionInv'
  BY <1>2, <1>4, <1>5, OneReplaced DEF Inv
<1>7. ConfigTypeOK'
  <2>1. config \in ConfigRecord
    BY <1>3 DEF Inv, ConfigTypeOK
  <2>2. Bump(config.total_positions_opened) \in Counter
    BY <2>1, BumpIsCounter DEF ConfigRecord
  <2> QED
    BY <1>3, <2>1, <2>2 DEF ConfigTypeOK, ConfigRecord
<1> QED
  BY <1>6, <1>7

LEMMA RetriggerStep ==
    ASSUME Inv, NEW k \in PositionKey, Retriggers(k)
    PROVE  PositionInv' /\ config' = config
<1>1. PICK signer \in Traders, stop \in Levels, takeProfit \in Levels, offset \in Levels :
             UpdateTriggers(signer, k, stop, takeProfit, offset)
  BY DEF Retriggers
<1> DEFINE p == position[k]
           r == Retriggered(p, stop, takeProfit, offset)
<1>2. /\ IsOpen(k)
      /\ ValidTriggers(p.side, p.entry_price, stop, takeProfit, offset)
      /\ position' = [position EXCEPT ![k] = r]
      /\ UNCHANGED <<config, vault, lamports>>
  BY <1>1 DEF UpdateTriggers
<1>3. p \in PositionRecord /\ Anchored(p) /\ vault[k] >= p.collateral + RENT
  BY <1>2 DEF Inv, PositionInv, IsOpen, TriggersAnchored, Solvent
<1> HIDE DEF p
<1>4. r \in PositionRecord /\ r.collateral = p.collateral
  BY <1>3, RetriggeredRecord
<1>5. Anchored(r)
  <2>1. /\ r.side = p.side /\ r.entry_price = p.entry_price
        /\ r.stop_price = stop /\ r.take_profit_price = takeProfit
        /\ r.trailing_offset = offset
        /\ r.trailing_extreme \in {p.trailing_extreme, p.entry_price}
    BY <1>3 DEF Retriggered, PositionRecord
  <2>2. p.entry_price \in U64 \ {0}
    BY <1>3 DEF PositionRecord
  <2> QED
    BY <1>2, <1>3, <2>1, <2>2 DEF Anchored, NoBetter, U64
<1> HIDE DEF r
<1> QED
  BY <1>2, <1>3, <1>4, <1>5, OneReplaced DEF Inv, PositionInv

\* What a settlement takes out of the account of a position.
LEMMA SettlementVault ==
    ASSUME PositionInv, NEW k \in PositionKey, IsOpen(k),
           vault' = [vault EXCEPT ![k] = vault[k] - position[k].collateral]
    PROVE  /\ vault' \in [PositionKey -> U64]
           /\ vault'[k] >= 0 + RENT
           /\ \A j \in PositionKey : j # k => vault'[j] = vault[j]
<1>1. /\ vault[k] \in U64 /\ position[k].collateral \in U64
      /\ vault[k] >= position[k].collateral + RENT
  BY DEF PositionInv, IsOpen, Solvent, PositionRecord
<1>2. vault[k] - position[k].collateral \in U64
  BY <1>1, LimitsAssumption DEF U64
<1>3. vault[k] - position[k].collateral >= 0 + RENT
  BY <1>1 DEF U64
<1> QED
  BY <1>2, <1>3 DEF PositionInv

LEMMA TickStep ==
    ASSUME Inv, NEW k \in PositionKey, Ticks(k)
    PROVE  ConfigTypeOK' /\ PositionInv'
<1>1. PICK keeper \in Keepers : TickPosition(keeper, k)
  BY DEF Ticks
<1> DEFINE p == position[k]
           q == Ticked(k)
<1>2. TickReady(k)
  BY <1>1 DEF TickPosition, TickHold, TickFire
<1>3. /\ IsOpen(k) /\ config # None
      /\ q \in PositionRecord /\ q.collateral = p.collateral
      /\ Anchored(q)
  BY <1>2, TickedRecord DEF TickReady
<1>4. /\ config \in ConfigRecord /\ now \in Time
      /\ vault[k] >= p.collateral + RENT
  BY <1>3 DEF Inv, ConfigTypeOK, FeedInv, FeedTypeOK, PositionInv, Solvent, IsOpen
<1>5. CASE TickHold(k)
  <2>1. /\ position' = [position EXCEPT ![k] = q]
        /\ UNCHANGED <<config, vault, lamports>>
    BY <1>5 DEF TickHold
  <2> HIDE DEF p, q
  <2>2. PositionInv'
    BY <1>3, <1>4, <2>1, OneReplaced DEF Inv, PositionInv
  <2> QED
    BY <2>1, <2>2 DEF Inv, ConfigTypeOK
<1>6. CASE TickFire(keeper, k)
  <2> DEFINE amount == p.collateral
             reason == FirstTrigger(q, PriceOf(k))
             r == Settled(q, STATUS_TRIGGERED, reason)
  <2>1. /\ position' = [position EXCEPT ![k] = r]
        /\ vault' = [vault EXCEPT ![k] = vault[k] - amount]
        /\ lamports' = Payout(keeper, k, amount)
        /\ config' = Booked(amount)
        /\ SettlementFits(keeper, k, amount)
    BY <1>6 DEF TickFire
  <2>2. r \in PositionRecord /\ r.collateral = 0 /\ r.status = STATUS_TRIGGERED
    BY <1>3, <1>4, ReasonTyped, SettledRecord
  <2>3. lamports' \in [Wallets -> U64]
    <3>1. DOMAIN Payout(keeper, k, amount) = Wallets
      BY DEF Payout, Credit, Inv, PositionInv
    <3>2. Payout(keeper, k, amount) = [w \in Wallets |-> Payout(keeper, k, amount)[w]]
      BY <3>1 DEF Payout, Credit
    <3> QED
      BY <2>1, <3>2 DEF SettlementFits
  <2>4. PositionInv'
    <3> HIDE DEF r
    <3> QED
      BY <1>3, <2>1, <2>2, <2>3, StatusCodes, SettlementVault, OneReplaced DEF Inv
  <2>5. ConfigTypeOK'
    <3>1. Bump(config.total_positions_triggered) \in Counter
      BY <1>4, BumpIsCounter DEF ConfigRecord
    <3>2. \A a, b \in U64 : SaturatingAdd(a, b, U64_MAX) \in U64
      BY LimitsAssumption DEF SaturatingAdd, U64
    <3>3. /\ SaturatingAdd(config.total_fees_collected, Fee(amount), U64_MAX) \in U64
          /\ SaturatingAdd(config.total_keeper_rewards_paid,
                           KeeperReward(amount), U64_MAX) \in U64
      BY <1>4, <2>1, <3>2 DEF SettlementFits, ConfigRecord
    <3>4. Booked(amount) \in ConfigRecord
      BY <1>4, <3>1, <3>3 DEF Booked, ConfigRecord
    <3> QED
      BY <2>1, <3>4 DEF ConfigTypeOK
  <2> QED
    BY <2>4, <2>5
<1> QED
  BY <1>1, <1>5, <1>6 DEF TickPosition

LEMMA CancelStep ==
    ASSUME Inv, NEW k \in PositionKey, NEW signer \in Traders, CancelPosition(signer, k)
    PROVE  ConfigTypeOK' /\ PositionInv'
<1> DEFINE p == position[k]
           r == Settled(p, STATUS_CANCELLED, p.trigger_reason)
<1>1. /\ IsOpen(k) /\ config # None
      /\ position' = [position EXCEPT ![k] = r]
      /\ vault' = [vault EXCEPT ![k] = vault[k] - p.collateral]
      /\ lamports[signer] + p.collateral \in U64
      /\ lamports' = [lamports EXCEPT ![signer] = lamports[signer] + p.collateral]
      /\ config' = [config EXCEPT !.total_positions_cancelled =
                                     Bump(config.total_positions_cancelled)]
  BY DEF CancelPosition, Credit
<1>2. /\ p \in PositionRecord
      /\ p.trigger_reason \in {TRIGGER_NONE, TRIGGER_STOP_LOSS,
                               TRIGGER_TAKE_PROFIT, TRIGGER_TRAILING}
      /\ config \in ConfigRecord /\ now \in Time
  BY <1>1 DEF Inv, PositionInv, IsOpen, PositionRecord, ConfigTypeOK, FeedInv, FeedTypeOK
<1>3. r \in PositionRecord /\ r.collateral = 0 /\ r.status = STATUS_CANCELLED
  BY <1>2, SettledRecord
<1>4. lamports' \in [Wallets -> U64]
  BY <1>1 DEF Inv, PositionInv
<1>5. PositionInv'
  <2> HIDE DEF r
  <2> QED
    BY <1>1, <1>3, <1>4, StatusCodes, SettlementVault, OneReplaced DEF Inv
<1>6. ConfigTypeOK'
  <2>1. Bump(config.total_positions_cancelled) \in Counter
    BY <1>2, BumpIsCounter DEF ConfigRecord
  <2> QED
    BY <1>1, <1>2, <2>1 DEF ConfigTypeOK, ConfigRecord
<1> QED
  BY <1>5, <1>6

LEMMA DelegationStep ==
    ASSUME Inv, NEW k \in PositionKey, NEW signer \in Traders, NEW flag \in {0, 1},
           SetDelegated(signer, k, flag)
    PROVE  ConfigTypeOK' /\ PositionInv'
<1> DEFINE p == position[k]
           r == [p EXCEPT !.er_delegated = flag]
<1>1. /\ IsOpen(k)
      /\ UNCHANGED <<config, vault, lamports>>
      /\ position' = [position EXCEPT ![k] = r]
  BY DEF SetDelegated
<1>2. /\ p \in PositionRecord /\ Anchored(p)
      /\ vault[k] >= p.collateral + RENT
  BY <1>1 DEF Inv, PositionInv, IsOpen, TriggersAnchored, Solvent
<1>3. r \in PositionRecord /\ r.collateral = p.collateral
  BY <1>2 DEF PositionRecord
<1>4. Anchored(r)
  BY <1>2 DEF Anchored, PositionRecord
<1>5. PositionInv'
  <2> HIDE DEF p, r
  <2> QED
    BY <1>1, <1>2, <1>3, <1>4, OneReplaced DEF Inv, PositionInv
<1> QED
  BY <1>1, <1>5 DEF Inv, ConfigTypeOK

LEMMA GiftStep ==
    ASSUME Inv, NEW k \in PositionKey, NEW w \in Traders, NEW amount \in Gifts,
           GiftToPosition(w, k, amount)
    PROVE  ConfigTypeOK' /\ PositionInv'
<1>1. /\ UNCHANGED <<config, position>>
      /\ amount \in U64
      /\ vault[k] + amount \in U64
      /\ vault' = [vault EXCEPT ![k] = vault[k] + amount]
      /\ lamports[w] >= amount
      /\ lamports' = [lamports EXCEPT ![w] = lamports[w] - amount]
  BY DEF GiftToPosition
<1>2. w \in Wallets /\ lamports[w] \in U64 /\ vault[k] \in U64
  BY DEF Inv, PositionInv
<1>3. lamports[w] - amount \in U64 /\ vault[k] + amount >= vault[k]
  BY <1>1, <1>2, LimitsAssumption DEF U64
<1>4. lamports' \in [Wallets -> U64] /\ vault' \in [PositionKey -> U64]
  BY <1>1, <1>2, <1>3 DEF Inv, PositionInv
<1>5. \A j \in PositionKey : vault'[j] >= vault[j] /\ vault'[j] \in U64 /\ vault[j] \in U64
  BY <1>1, <1>3, <1>4 DEF Inv, PositionInv, U64
<1>6. Solvent'
  <2> SUFFICES ASSUME NEW j \in PositionKey, position[j] # None
               PROVE  vault'[j] >= position[j].collateral + RENT
      BY <1>1 DEF Solvent
  <2>1. position[j].collateral \in U64 /\ vault[j] >= position[j].collateral + RENT
    BY DEF Inv, PositionInv, Solvent, PositionRecord
  <2> QED
    BY <1>5, <2>1 DEF U64
<1>7. PositionInv'
  BY <1>1, <1>4, <1>6 DEF Inv, PositionInv, TriggersAnchored, IsOpen
<1> QED
  BY <1>1, <1>7 DEF Inv, ConfigTypeOK

LEMMA OtherStep ==
    ASSUME Inv, NEW k \in PositionKey, OtherOps(k)
    PROVE  ConfigTypeOK' /\ PositionInv'
BY CancelStep, DelegationStep, GiftStep DEF OtherOps, Delegations, DelegatePosition, UndelegatePosition

LEMMA PositionOpsKeepFeeds ==
    ASSUME NEW k \in PositionKey, PositionOps(k)
    PROVE  UNCHANGED feedVars
BY DEF PositionOps, Opens, OpenPosition, Retriggers, UpdateTriggers, Ticks,
       TickPosition, TickHold, TickFire, OtherOps, Delegations, CancelPosition, DelegatePosition,
       UndelegatePosition, SetDelegated, GiftToPosition, feedVars

LEMMA AdminOpsAreFeedSteps ==
    AdminOps => FeedNext /\ UNCHANGED positionVars
BY DEF AdminOps, FeedNext, positionVars, feedVars

LEMMA InvInit == Init => Inv
<1> SUFFICES ASSUME Init
             PROVE  Inv
    OBVIOUS
<1>1. ConfigTypeOK /\ FeedInv
  BY FeedInit0 DEF Init, FeedStart
<1>2. 0 \in U64
  BY LimitsAssumption DEF U64
<1>3. PositionInv
  BY <1>2 DEF Init, PositionInv, TriggersAnchored, Solvent, IsOpen
<1> QED
  BY <1>1, <1>3 DEF Inv

LEMMA InvStep == Inv /\ [Next]_vars => Inv'
<1> SUFFICES ASSUME Inv, [Next]_vars
             PROVE  Inv'
    OBVIOUS
<1>1. CASE AdminOps
  <2>1. FeedNext /\ UNCHANGED positionVars
    BY <1>1, AdminOpsAreFeedSteps
  <2>2. ConfigTypeOK' /\ FeedInv'
    BY <2>1, FeedStep DEF Inv
  <2>3. PositionInv'
    BY <2>1 DEF Inv, PositionInv, positionVars, TriggersAnchored, Solvent, IsOpen
  <2> QED
    BY <2>2, <2>3 DEF Inv
<1>2. ASSUME NEW k \in PositionKey, PositionOps(k)
      PROVE  Inv'
  <2>1. ConfigTypeOK' /\ PositionInv'
    BY <1>2, OpenStep, RetriggerStep, TickStep, OtherStep
       DEF PositionOps, Inv, ConfigTypeOK
  <2>2. FeedInv'
    BY <1>2, PositionOpsKeepFeeds DEF Inv, FeedInv, feedVars, FeedTypeOK, PriceAgeBounded
  <2> QED
    BY <2>1, <2>2 DEF Inv
<1>3. CASE UNCHANGED vars
  <2>1. ConfigTypeOK' /\ FeedInv'
    BY <1>3 DEF Inv, vars, feedVars, ConfigTypeOK, FeedInv, FeedTypeOK, PriceAgeBounded
  <2>2. PositionInv'
    BY <1>3 DEF Inv, vars, positionVars, PositionInv, TriggersAnchored, Solvent, IsOpen
  <2> QED
    BY <2>1, <2>2 DEF Inv
<1> QED
  BY <1>1, <1>2, <1>3 DEF Next

THEOREM Invariance == Spec => []Inv
BY InvInit, InvStep, PTL DEF Spec

-----------------------------------------------------------------------------
(* Safety *)

\* Every account always has its type.
THEOREM TypeCorrect == Spec => []TypeOK
<1>1. Inv => TypeOK
  BY DEF Inv, FeedInv, PositionInv, TypeOK
<1> QED
  BY <1>1, Invariance, PTL

\* The triggers of an open position stay anchored to its entry price.
THEOREM TriggersStayAnchored == Spec => []TriggersAnchored
<1>1. Inv => TriggersAnchored
  BY DEF Inv, PositionInv
<1> QED
  BY <1>1, Invariance, PTL

\* A position's account always holds its collateral and its rent.
THEOREM AlwaysSolvent == Spec => []Solvent
<1>1. Inv => Solvent
  BY DEF Inv, PositionInv
<1> QED
  BY <1>1, Invariance, PTL

\* No price hits the stop-loss and the take-profit at once.
THEOREM FixedLevelsDisjoint == Spec => []StopAndTakeProfitDisjoint
<1>1. Inv => StopAndTakeProfitDisjoint
  <2> SUFFICES ASSUME Inv, NEW k \in PositionKey, IsOpen(k), NEW price \in Prices
               PROVE  ~(StopHit(position[k], price) /\ TakeProfitHit(position[k], price))
      BY DEF StopAndTakeProfitDisjoint
  <2>1. position[k] \in PositionRecord /\ Anchored(position[k])
    BY DEF Inv, PositionInv, TriggersAnchored, IsOpen
  <2> DEFINE p == position[k]
  <2>2. /\ price \in U64 /\ p.entry_price \in U64
        /\ p.stop_price \in U64 /\ p.take_profit_price \in U64
    BY <2>1, FeedAssumption DEF PositionRecord
  <2> HIDE DEF p
  <2>3. Anchored(p)
    BY <2>1 DEF p
  <2>4. ~(StopHit(p, price) /\ TakeProfitHit(p, price))
    BY <2>2, <2>3 DEF Anchored, ValidTriggers, Worse, NoBetter, StopHit, TakeProfitHit, U64
  <2> QED
    BY <2>4 DEF p
<1> QED
  BY <1>1, Invariance, PTL

\* Whatever the price, the trailing threshold of a long never underflows, and a
\* short's overflows only beyond half the range of a u64.
LEMMA ThresholdSafe ==
    ASSUME Inv, NEW k \in PositionKey, IsOpen(k), NEW price \in U64 \ {0},
           ThresholdFails([position[k] EXCEPT !.trailing_extreme =
                             AdvancedExtreme(position[k], price)], price)
    PROVE  /\ position[k].side = SIDE_SHORT
           /\ 2 * position[k].entry_price > U64_MAX + 1
<1> DEFINE p == position[k]
           e == AdvancedExtreme(p, price)
           q == [p EXCEPT !.trailing_extreme = e]
<1>1. p \in PositionRecord /\ Anchored(p)
  BY DEF Inv, PositionInv, TriggersAnchored, IsOpen
<1>2. e \in U64 \ {0} /\ NoBetter(p.side, p.entry_price, e)
  BY <1>1, AdvancedExtremeFacts
<1>3. ThresholdFails(q, price)
  OBVIOUS
<1> HIDE DEF p, e
<1>4. /\ q.side = p.side /\ q.trailing_offset = p.trailing_offset
      /\ q.trailing_extreme = e
  BY <1>1 DEF PositionRecord
<1> HIDE DEF q
<1>5. /\ p.trailing_offset > 0
      /\ (IF p.side = SIDE_LONG THEN e - p.trailing_offset
                                ELSE e + p.trailing_offset) \notin U64
  BY <1>3, <1>4 DEF ThresholdFails, TrailingThreshold
<1>6. /\ p.side \in {SIDE_LONG, SIDE_SHORT}
      /\ p.entry_price \in U64 /\ p.trailing_offset \in U64
      /\ p.trailing_offset < p.entry_price
  BY <1>1, <1>5 DEF PositionRecord, Anchored, ValidTriggers
<1>7. p.side = SIDE_SHORT /\ 2 * p.entry_price > U64_MAX + 1
  BY <1>2, <1>5, <1>6, LimitsAssumption DEF NoBetter, U64, SIDE_LONG, SIDE_SHORT
<1> QED
  BY <1>7 DEF p

\* No tick of a long fails on its trailing threshold, nor one of a short
\* opened below half the range of a u64.
THEOREM TicksAreArithmeticSafe == Spec => []TickArithmeticSafe
<1>1. Inv => TickArithmeticSafe
  BY ThresholdSafe, FeedAssumption DEF TickArithmeticSafe
<1> QED
  BY <1>1, Invariance, PTL

\* A price that stops a position leaves its extreme where it was, and so does
\* every worse one; a worse one meets the same threshold.
LEMMA StopsBeyond ==
    ASSUME NEW p \in PositionRecord, Anchored(p),
           NEW price \in U64 \ {0}, NEW beyond \in U64 \ {0}, Worse(p.side, beyond, price),
           NEW e, e = AdvancedExtreme(p, price), NEW f, f = AdvancedExtreme(p, beyond),
           NEW q \in PositionRecord, q = [p EXCEPT !.trailing_extreme = e],
           NEW r \in PositionRecord, r = [p EXCEPT !.trailing_extreme = f],
           ~ThresholdFails(q, price),
           FirstTrigger(q, price) \in {TRIGGER_STOP_LOSS, TRIGGER_TRAILING}
    PROVE  /\ ~ThresholdFails(r, beyond)
           /\ FirstTrigger(r, beyond) \in {TRIGGER_STOP_LOSS, TRIGGER_TRAILING}
<1>1. /\ q.side = p.side /\ q.stop_price = p.stop_price
      /\ q.take_profit_price = p.take_profit_price
      /\ q.trailing_offset = p.trailing_offset /\ q.trailing_extreme = e
      /\ r.side = p.side /\ r.stop_price = p.stop_price
      /\ r.take_profit_price = p.take_profit_price
      /\ r.trailing_offset = p.trailing_offset /\ r.trailing_extreme = f
  BY DEF PositionRecord
<1>2. /\ p.side \in {SIDE_LONG, SIDE_SHORT}
      /\ p.stop_price \in U64 /\ p.take_profit_price \in U64
      /\ p.trailing_offset \in U64 /\ p.trailing_extreme \in U64
      /\ p.entry_price \in U64
  BY DEF PositionRecord
<1>3. CASE StopHit(q, price)
  <2>1. StopHit(r, beyond)
    BY <1>1, <1>2, <1>3 DEF StopHit, NoBetter, Worse, U64
  <2> QED
    BY <2>1 DEF ThresholdFails, FirstTrigger
<1>4. CASE ~StopHit(q, price)
  <2>1. ~TakeProfitHit(q, price) /\ ~TakeProfitHit(r, beyond)
    <3>1. ~TakeProfitHit(q, price)
      BY <1>4 DEF FirstTrigger, TRIGGER_STOP_LOSS, TRIGGER_TAKE_PROFIT, TRIGGER_TRAILING
    <3> QED
      BY <1>1, <1>2, <3>1 DEF TakeProfitHit, NoBetter, Worse, U64
  <2>2. TrailingHit(q, price)
    BY <1>4, <2>1 DEF FirstTrigger, TRIGGER_STOP_LOSS, TRIGGER_TAKE_PROFIT,
                      TRIGGER_TRAILING, TRIGGER_NONE
  <2>3. TrailingThreshold(q) \in U64
    BY <1>4, <2>1, <2>2 DEF ThresholdFails, TrailingHit
  <2>4. p.trailing_extreme > 0
    BY DEF Anchored
  <2>5. e \in U64
    BY <1>2 DEF AdvancedExtreme
  <2>6. e = p.trailing_extreme /\ f = p.trailing_extreme
    <3>1. /\ p.trailing_offset > 0
          /\ NoBetter(p.side, price, IF p.side = SIDE_LONG THEN e - p.trailing_offset
                                                          ELSE e + p.trailing_offset)
      BY <1>1, <2>2 DEF TrailingHit, TrailingThreshold
    <3>2. e \in {price, p.trailing_extreme}
      BY DEF AdvancedExtreme
    <3>3. e # price
      BY <1>2, <3>1 DEF NoBetter, U64
    <3>4. ~Worse(p.side, p.trailing_extreme, price)
      BY <3>1, <3>3 DEF AdvancedExtreme
    <3>5. ~Worse(p.side, p.trailing_extreme, beyond)
      BY <1>2, <3>4 DEF NoBetter, Worse, U64
    <3> QED
      BY <1>2, <2>4, <3>2, <3>3, <3>5 DEF AdvancedExtreme
  <2>7. TrailingThreshold(r) = TrailingThreshold(q)
    BY <1>1, <2>6 DEF TrailingThreshold
  <2>8. TrailingHit(r, beyond) /\ ~ThresholdFails(r, beyond)
    BY <1>1, <1>2, <2>2, <2>3, <2>7 DEF TrailingHit, ThresholdFails, NoBetter, Worse, U64
  <2> QED
    BY <2>1, <2>8 DEF FirstTrigger
<1> QED
  BY <1>3, <1>4

\* A price that takes the profit is beyond the entry price, where no stop is.
LEMMA TakesBeyond ==
    ASSUME NEW p \in PositionRecord, Anchored(p),
           NEW price \in U64 \ {0}, NEW beyond \in U64 \ {0}, Worse(p.side, price, beyond),
           NEW e, e = AdvancedExtreme(p, price), NEW f, f = AdvancedExtreme(p, beyond),
           NEW q \in PositionRecord, q = [p EXCEPT !.trailing_extreme = e],
           NEW r \in PositionRecord, r = [p EXCEPT !.trailing_extreme = f],
           FirstTrigger(q, price) = TRIGGER_TAKE_PROFIT
    PROVE  ~ThresholdFails(r, beyond) /\ FirstTrigger(r, beyond) = TRIGGER_TAKE_PROFIT
<1>1. /\ q.side = p.side /\ q.take_profit_price = p.take_profit_price
      /\ r.side = p.side /\ r.stop_price = p.stop_price
      /\ r.take_profit_price = p.take_profit_price
  BY DEF PositionRecord
<1>2. /\ p.side \in {SIDE_LONG, SIDE_SHORT}
      /\ p.stop_price \in U64 /\ p.take_profit_price \in U64 /\ p.entry_price \in U64
  BY DEF PositionRecord
<1>3. TakeProfitHit(q, price)
  BY DEF FirstTrigger, TRIGGER_STOP_LOSS, TRIGGER_TAKE_PROFIT, TRIGGER_TRAILING, TRIGGER_NONE
<1>4. TakeProfitHit(r, beyond) /\ ~StopHit(r, beyond)
  BY <1>1, <1>2, <1>3
     DEF TakeProfitHit, StopHit, Anchored, ValidTriggers, NoBetter, Worse, U64
<1> QED
  BY <1>4 DEF ThresholdFails, FirstTrigger

\* A price that jumps past a level between two ticks fires like one on it.
THEOREM JumpsAlwaysFire == Spec => []JumpsStillFire
<1> DEFINE At(k, price) == [position[k] EXCEPT !.trailing_extreme =
                                              AdvancedExtreme(position[k], price)]
<1>1. ASSUME Inv, NEW k \in PositionKey, IsOpen(k), NEW price \in U64 \ {0}
      PROVE  At(k, price) \in PositionRecord
  <2>1. position[k] \in PositionRecord /\ Anchored(position[k])
    BY <1>1 DEF Inv, PositionInv, TriggersAnchored, IsOpen
  <2>2. AdvancedExtreme(position[k], price) \in U64
    BY <2>1, AdvancedExtremeFacts
  <2> QED
    BY <2>1, <2>2 DEF PositionRecord
<1>2. ASSUME Inv, NEW k \in PositionKey, IsOpen(k),
             NEW price \in Prices \ {0}, NEW beyond \in Prices \ {0}
      PROVE  /\ /\ Worse(position[k].side, beyond, price)
                /\ WouldFire(k, price, {TRIGGER_STOP_LOSS, TRIGGER_TRAILING})
                => WouldFire(k, beyond, {TRIGGER_STOP_LOSS, TRIGGER_TRAILING})
             /\ /\ Worse(position[k].side, price, beyond)
                /\ WouldFire(k, price, {TRIGGER_TAKE_PROFIT})
                => WouldFire(k, beyond, {TRIGGER_TAKE_PROFIT})
  <2>1. position[k] \in PositionRecord /\ Anchored(position[k])
    BY <1>2 DEF Inv, PositionInv, TriggersAnchored, IsOpen
  <2>2. price \in U64 \ {0} /\ beyond \in U64 \ {0}
    BY FeedAssumption
  <2>3. At(k, price) \in PositionRecord /\ At(k, beyond) \in PositionRecord
    BY <1>1, <1>2, <2>2
  <2>4. ASSUME Worse(position[k].side, beyond, price),
               WouldFire(k, price, {TRIGGER_STOP_LOSS, TRIGGER_TRAILING})
        PROVE  WouldFire(k, beyond, {TRIGGER_STOP_LOSS, TRIGGER_TRAILING})
    BY <2>1, <2>2, <2>3, <2>4, StopsBeyond DEF WouldFire
  <2>5. ASSUME Worse(position[k].side, price, beyond),
               WouldFire(k, price, {TRIGGER_TAKE_PROFIT})
        PROVE  WouldFire(k, beyond, {TRIGGER_TAKE_PROFIT})
    BY <2>1, <2>2, <2>3, <2>5, TakesBeyond DEF WouldFire
  <2> QED
    BY <2>4, <2>5
<1>3. Inv => JumpsStillFire
  BY <1>2 DEF JumpsStillFire
<1> QED
  BY <1>3, Invariance, PTL

-----------------------------------------------------------------------------
(* What a step may do *)

\* An instruction on position j leaves the other positions and their lamports
\* alone, and rewrites j only if it is open or not yet there.
LEMMA OpsTouchOne ==
    ASSUME Inv, NEW j \in PositionKey, PositionOps(j)
    PROVE  /\ \A k \in PositionKey : k # j =>
                 position'[k] = position[k] /\ vault'[k] = vault[k]
           /\ IsOpen(j) \/ position[j] = None \/ position' = position
<1> USE DEF Inv, PositionInv
<1>1. CASE Opens(j)
  BY <1>1 DEF Opens, OpenPosition, Deposit
<1>2. CASE Retriggers(j)
  BY <1>2 DEF Retriggers, UpdateTriggers
<1>3. ASSUME NEW keeper \in Keepers, TickPosition(keeper, j)
      PROVE  /\ \A k \in PositionKey : k # j =>
                   position'[k] = position[k] /\ vault'[k] = vault[k]
             /\ IsOpen(j)
  BY <1>3 DEF TickPosition, TickHold, TickFire, TickReady
<1>4. CASE OtherOps(j)
  BY <1>4 DEF OtherOps, Delegations, CancelPosition, DelegatePosition, UndelegatePosition,
              SetDelegated, GiftToPosition
<1> QED
  BY <1>1, <1>2, <1>3, <1>4 DEF PositionOps, Ticks

LEMMA StepShape ==
    ASSUME Inv, [Next]_vars, NEW k \in PositionKey
    PROVE  \/ position'[k] = position[k] /\ vault'[k] = vault[k]
           \/ PositionOps(k)
<1>1. AdminOps => position' = position /\ vault' = vault
  BY AdminOpsAreFeedSteps DEF positionVars
<1>2. UNCHANGED vars => position' = position /\ vault' = vault
  BY DEF vars, positionVars
<1>3. ASSUME NEW j \in PositionKey, PositionOps(j), j # k
      PROVE  position'[k] = position[k] /\ vault'[k] = vault[k]
  BY <1>3, OpsTouchOne
<1> QED
  BY <1>1, <1>2, <1>3 DEF Next

\* A settled position never changes again.
THEOREM SettledPositionsAreFinal == Spec => SettledIsTerminal
<1>1. ASSUME Inv, [Next]_vars, NEW k \in PositionKey, position[k] # None, ~IsOpen(k)
      PROVE  position'[k] = position[k]
  BY <1>1, StepShape, OpsTouchOne
<1>2. Inv /\ [Next]_vars =>
        [\A k \in PositionKey :
            (position[k] # None /\ ~IsOpen(k)) => position'[k] = position[k]]_vars
  BY <1>1
<1> QED
  BY <1>2, Invariance, PTL DEF Spec, SettledIsTerminal

-----------------------------------------------------------------------------
\* The instructions that pay out of an account, and what they do to the
\* account of the position and to the wallet of its owner.
LEMMA FireEffect ==
    ASSUME Inv, NEW k \in PositionKey, NEW keeper \in Keepers, TickFire(keeper, k)
    PROVE  /\ IsOpen(k) /\ config # None
           /\ position'[k] \in PositionRecord
           /\ position'[k].status = STATUS_TRIGGERED
           /\ position'[k].collateral = 0
           /\ vault'[k] = vault[k] - position[k].collateral
           /\ lamports' = Payout(keeper, k, position[k].collateral)
           /\ SettlementFits(keeper, k, position[k].collateral)
<1>1. /\ IsOpen(k) /\ config # None /\ TickReady(k)
      /\ feed[position[k].feed] # None /\ Fresh(position[k].feed)
      /\ vault' = [vault EXCEPT ![k] = vault[k] - position[k].collateral]
      /\ lamports' = Payout(keeper, k, position[k].collateral)
      /\ SettlementFits(keeper, k, position[k].collateral)
  BY DEF TickFire, TickReady
<1>2. Ticked(k) \in PositionRecord /\ now \in Time
  BY <1>1, TickedRecord DEF Inv, FeedInv, FeedTypeOK
<1> DEFINE r == Settled(Ticked(k), STATUS_TRIGGERED, FirstTrigger(Ticked(k), PriceOf(k)))
<1>3. r \in PositionRecord /\ r.status = STATUS_TRIGGERED /\ r.collateral = 0
  BY <1>2, ReasonTyped, SettledRecord
<1> HIDE DEF r
<1>4. position'[k] = r
  BY DEF TickFire, Inv, PositionInv, r
<1> QED
  BY <1>1, <1>3, <1>4 DEF Inv, PositionInv

LEMMA CancelEffect ==
    ASSUME Inv, NEW k \in PositionKey, NEW signer \in Traders, CancelPosition(signer, k)
    PROVE  /\ IsOpen(k) /\ signer = Owner(k)
           /\ position'[k] \in PositionRecord
           /\ position'[k].status = STATUS_CANCELLED
           /\ position'[k].collateral = 0
           /\ vault'[k] = vault[k] - position[k].collateral
           /\ lamports' = Credit(lamports, Owner(k), position[k].collateral)
           /\ lamports'[Owner(k)] = lamports[Owner(k)] + position[k].collateral
<1>1. /\ IsOpen(k) /\ signer = Owner(k) /\ signer \in Wallets
      /\ position' = [position EXCEPT ![k] =
            Settled(position[k], STATUS_CANCELLED, position[k].trigger_reason)]
      /\ vault' = [vault EXCEPT ![k] = vault[k] - position[k].collateral]
      /\ lamports' = [lamports EXCEPT ![signer] = lamports[signer] + position[k].collateral]
      /\ lamports' = Credit(lamports, Owner(k), position[k].collateral)
  BY DEF CancelPosition, Credit
<1>2. /\ position[k] \in PositionRecord /\ now \in Time
      /\ position[k].trigger_reason \in {TRIGGER_NONE, TRIGGER_STOP_LOSS,
                                         TRIGGER_TAKE_PROFIT, TRIGGER_TRAILING}
  BY <1>1 DEF Inv, PositionInv, IsOpen, PositionRecord, FeedInv, FeedTypeOK
<1> DEFINE r == Settled(position[k], STATUS_CANCELLED, position[k].trigger_reason)
<1>3. r \in PositionRecord /\ r.status = STATUS_CANCELLED /\ r.collateral = 0
  BY <1>2, SettledRecord
<1> HIDE DEF r
<1>4. position'[k] = r
  BY <1>1 DEF Inv, PositionInv, r
<1> QED
  BY <1>1, <1>3, <1>4 DEF Inv, PositionInv

\* The instructions that neither move lamports nor settle: re-arming, ticks
\* that do not fire and delegation.
Quiet(k) ==
    \/ Retriggers(k)
    \/ TickHold(k)
    \/ \E signer \in Traders, flag \in {0, 1} : SetDelegated(signer, k, flag)

LEMMA PositionOpsSplit ==
    ASSUME NEW k \in PositionKey, PositionOps(k)
    PROVE  \/ Opens(k)
           \/ \E keeper \in Keepers : TickFire(keeper, k)
           \/ \E signer \in Traders : CancelPosition(signer, k)
           \/ \E w \in Traders, amount \in Gifts : GiftToPosition(w, k, amount)
           \/ Quiet(k)
BY DEF PositionOps, Ticks, TickPosition, OtherOps, Delegations, DelegatePosition, UndelegatePosition, Quiet

\* A quiet instruction leaves an open position open, with its collateral.
LEMMA QuietEffect ==
    ASSUME Inv, NEW k \in PositionKey, Quiet(k)
    PROVE  /\ IsOpen(k)
           /\ UNCHANGED <<config, vault, lamports>>
           /\ \E r \in PositionRecord :
                 /\ r.status = STATUS_OPEN /\ r.collateral = position[k].collateral
                 /\ position' = [position EXCEPT ![k] = r]
<1> DEFINE Goal == /\ IsOpen(k)
                   /\ UNCHANGED <<config, vault, lamports>>
                   /\ \E r \in PositionRecord :
                         /\ r.status = STATUS_OPEN /\ r.collateral = position[k].collateral
                         /\ position' = [position EXCEPT ![k] = r]
<1>1. IsOpen(k) => position[k] \in PositionRecord /\ position[k].status = STATUS_OPEN
  BY DEF Inv, PositionInv, IsOpen
<1>2. ASSUME NEW signer \in Traders, NEW stop \in Levels, NEW takeProfit \in Levels,
             NEW offset \in Levels, UpdateTriggers(signer, k, stop, takeProfit, offset)
      PROVE  Goal
  <2> DEFINE p == position[k]
             r == Retriggered(p, stop, takeProfit, offset)
  <2>1. /\ IsOpen(k) /\ position' = [position EXCEPT ![k] = r]
        /\ UNCHANGED <<config, vault, lamports>>
    BY <1>2 DEF UpdateTriggers
  <2>2. p \in PositionRecord /\ p.status = STATUS_OPEN
    BY <1>1, <2>1
  <2> HIDE DEF p
  <2>3. r \in PositionRecord /\ r.collateral = p.collateral
    BY <2>2, RetriggeredRecord
  <2>4. r.status = STATUS_OPEN
    BY <2>2 DEF Retriggered, PositionRecord
  <2> HIDE DEF r
  <2> QED
    BY <2>1, <2>3, <2>4 DEF p
<1>3. CASE TickHold(k)
  <2>1. /\ IsOpen(k) /\ position' = [position EXCEPT ![k] = Ticked(k)]
        /\ feed[position[k].feed] # None /\ Fresh(position[k].feed)
        /\ UNCHANGED <<config, vault, lamports>>
    BY <1>3 DEF TickHold, TickReady
  <2> QED
    BY <2>1, TickedRecord
<1>4. ASSUME NEW signer \in Traders, NEW flag \in {0, 1}, SetDelegated(signer, k, flag)
      PROVE  Goal
  <2> DEFINE p == position[k]
             r == [p EXCEPT !.er_delegated = flag]
  <2>1. /\ IsOpen(k) /\ position' = [position EXCEPT ![k] = r]
        /\ UNCHANGED <<config, vault, lamports>>
    BY <1>4 DEF SetDelegated
  <2>2. p \in PositionRecord /\ p.status = STATUS_OPEN
    BY <1>1, <2>1
  <2> HIDE DEF p
  <2>3. r \in PositionRecord /\ r.status = STATUS_OPEN /\ r.collateral = p.collateral
    BY <2>2 DEF PositionRecord
  <2> HIDE DEF r
  <2> QED
    BY <2>1, <2>3 DEF p
<1> QED
  BY <1>2, <1>3, <1>4 DEF Quiet, Retriggers

\* Every instruction but a settlement leaves an open position open and its
\* account no poorer.
LEMMA OtherEffects ==
    ASSUME Inv, NEW k \in PositionKey, PositionOps(k),
           ~ \E keeper \in Keepers : TickFire(keeper, k),
           ~ \E signer \in Traders : CancelPosition(signer, k)
    PROVE  /\ vault'[k] >= vault[k]
           /\ IsOpen(k) => position'[k].status = STATUS_OPEN
<1>0. vault[k] \in U64
  BY DEF Inv, PositionInv
<1>1. CASE Opens(k)
  <2>1. PICK s \in Symbols, side \in 0..2, collateral \in Collaterals,
             stop \in Levels, takeProfit \in Levels, offset \in Levels :
               OpenPosition(k, s, side, collateral, stop, takeProfit, offset)
    BY <1>1 DEF Opens
  <2>2. position[k] = None /\ vault'[k] = vault[k] + (RentDue(k) + collateral)
    BY <2>1 DEF OpenPosition, Deposit, Inv, PositionInv
  <2>3. collateral \in U64
    OBVIOUS
  <2> QED
    BY <1>0, <2>2, <2>3 DEF RentDue, U64, IsOpen
<1>2. ASSUME NEW w \in Traders, NEW amount \in Gifts, GiftToPosition(w, k, amount)
      PROVE  vault'[k] >= vault[k] /\ (IsOpen(k) => position'[k].status = STATUS_OPEN)
  <2>1. /\ position' = position /\ amount \in U64
        /\ vault'[k] = vault[k] + amount
    BY <1>2 DEF GiftToPosition, Inv, PositionInv
  <2> QED
    BY <1>0, <2>1 DEF U64, IsOpen
<1>3. CASE Quiet(k)
  <2>1. vault' = vault /\ position'[k].status = STATUS_OPEN
    BY <1>3, QuietEffect DEF Inv, PositionInv
  <2> QED
    BY <1>0, <2>1 DEF U64
<1> QED
  BY <1>1, <1>2, <1>3, PositionOpsSplit

\* Lamports leave a position's account only as its settlement, and then
\* exactly its recorded collateral.
THEOREM VaultPaysOnlySettlements == Spec => VaultOnlyPaysOnSettlement
<1>1. ASSUME Inv, [Next]_vars, NEW k \in PositionKey, vault'[k] < vault[k]
      PROVE  /\ IsOpen(k)
             /\ position'[k].status \in {STATUS_TRIGGERED, STATUS_CANCELLED}
             /\ vault[k] - vault'[k] = position[k].collateral
  <2>1. vault[k] \in U64
    BY <1>1 DEF Inv, PositionInv
  <2>2. PositionOps(k)
    BY <1>1, <2>1, StepShape DEF U64
  <2>3. ~(vault'[k] >= vault[k])
    <3>1. vault'[k] \in U64
      BY <1>1, InvStep DEF Inv, PositionInv
    <3> QED
      BY <1>1, <2>1, <3>1 DEF U64
  <2>4. \/ \E keeper \in Keepers : TickFire(keeper, k)
        \/ \E signer \in Traders : CancelPosition(signer, k)
    BY <1>1, <2>2, <2>3, OtherEffects
  <2>5. /\ IsOpen(k)
        /\ position'[k].status \in {STATUS_TRIGGERED, STATUS_CANCELLED}
        /\ vault'[k] = vault[k] - position[k].collateral
    BY <1>1, <2>4, FireEffect, CancelEffect
  <2>6. position[k].collateral \in U64
    BY <1>1, <2>5 DEF Inv, PositionInv, IsOpen, PositionRecord
  <2> QED
    BY <2>1, <2>5, <2>6 DEF U64
<1>2. Inv /\ [Next]_vars =>
        [\A k \in PositionKey :
            vault'[k] < vault[k] =>
               /\ IsOpen(k)
               /\ position'[k].status \in {STATUS_TRIGGERED, STATUS_CANCELLED}
               /\ vault[k] - vault'[k] = position[k].collateral]_vars
  BY <1>1
<1> QED
  BY <1>2, Invariance, PTL DEF Spec, VaultOnlyPaysOnSettlement

-----------------------------------------------------------------------------
\* Three credits leave a wallet with at least what it had and its own share.
LEMMA PayoutCreditsOwner ==
    ASSUME NEW b, b \in [Wallets -> U64],
           NEW f \in Wallets, NEW x \in Nat, NEW r \in Wallets, NEW y \in Nat,
           NEW o \in Wallets, NEW z \in Nat
    PROVE  Credit(Credit(Credit(b, f, x), r, y), o, z)[o] >= b[o] + z
<1> DEFINE b1 == Credit(b, f, x)
           b2 == Credit(b1, r, y)
           b3 == Credit(b2, o, z)
<1>1. b \in [Wallets -> Nat] /\ b[o] \in Nat
  BY LimitsAssumption DEF U64
<1>2. b1 \in [Wallets -> Nat] /\ b1[o] >= b[o]
  BY <1>1 DEF Credit
<1> HIDE DEF b1
<1>3. b2 \in [Wallets -> Nat] /\ b2[o] >= b1[o]
  BY <1>2 DEF Credit
<1> HIDE DEF b2
<1>4. b3[o] = b2[o] + z
  BY <1>3 DEF Credit
<1>5. b1[o] \in Nat /\ b2[o] \in Nat
  BY <1>2, <1>3
<1>6. b3[o] >= b[o] + z
  BY <1>1, <1>2, <1>3, <1>4, <1>5
<1> QED
  BY <1>6 DEF b1, b2

\* What is left to the owner under any fee policy the program accepts.
LEMMA NetFloor ==
    ASSUME config \in ConfigRecord, NEW amount \in U64
    PROVE  /\ Fee(amount) \in Nat /\ KeeperReward(amount) \in Nat
           /\ NetToOwner(amount) \in Nat
           /\ NetToOwner(amount) >=
                BpsOf(amount, BPS_DENOMINATOR - MAX_FEE_BPS - MAX_KEEPER_REWARD_BPS)
<1> DEFINE f == config.fee_bps
           r == config.keeper_reward_bps
           g == BPS_DENOMINATOR - MAX_FEE_BPS - MAX_KEEPER_REWARD_BPS
<1>1. f \in Nat /\ r \in Nat /\ f <= MAX_FEE_BPS /\ r <= MAX_KEEPER_REWARD_BPS
  BY LimitsAssumption DEF ConfigRecord
<1>2. g \in Nat /\ f + r + g <= BPS_DENOMINATOR
  BY <1>1, LimitsAssumption
<1>3. amount \in Nat
  BY LimitsAssumption DEF U64
<1>4. /\ BpsOf(amount, f) \in Nat /\ BpsOf(amount, r) \in Nat /\ BpsOf(amount, g) \in Nat
  BY <1>1, <1>2, <1>3, BpsRounding
<1>5. BpsOf(amount, f) + BpsOf(amount, r) + BpsOf(amount, g) <= amount
  BY <1>1, <1>2, <1>3, SharesFit
<1>6. /\ Fee(amount) = BpsOf(amount, f)
      /\ KeeperReward(amount) = BpsOf(amount, r)
      /\ NetToOwner(amount) = amount - BpsOf(amount, f) - BpsOf(amount, r)
  BY DEF Fee, KeeperReward, NetToOwner
<1> HIDE DEF f, r, g
<1>7. NetToOwner(amount) \in Nat /\ NetToOwner(amount) >= BpsOf(amount, g)
  BY <1>3, <1>4, <1>5, <1>6
<1> QED
  BY <1>4, <1>6, <1>7 DEF g

\* Whatever the admin does to the fee policy meanwhile, a fired trigger
\* returns at least the share of the collateral that the two caps leave.
THEOREM OwnerGetsFloor == Spec => OwnerFloor
<1> DEFINE Gain(k) == lamports'[Owner(k)] - lamports[Owner(k)]
           Floor(k) == BpsOf(position[k].collateral,
                             BPS_DENOMINATOR - MAX_FEE_BPS - MAX_KEEPER_REWARD_BPS)
<1>1. ASSUME Inv, [Next]_vars, NEW k \in PositionKey,
             IsOpen(k), position'[k].status # STATUS_OPEN
      PROVE  /\ Gain(k) >= Floor(k)
             /\ position'[k].status = STATUS_CANCELLED
                  => Gain(k) = position[k].collateral
  <2> DEFINE amount == position[k].collateral
  <2>1. /\ amount \in U64 /\ amount \in Nat
        /\ Owner(k) \in Wallets
        /\ lamports \in [Wallets -> U64] /\ lamports[Owner(k)] \in Nat
    BY <1>1, LimitsAssumption
       DEF Inv, PositionInv, IsOpen, PositionRecord, PositionKey, Owner, U64
  <2>2. PositionOps(k)
    BY <1>1, StepShape DEF IsOpen
  <2>3. \/ \E keeper \in Keepers : TickFire(keeper, k)
        \/ \E signer \in Traders : CancelPosition(signer, k)
    BY <1>1, <2>2, OtherEffects
  <2>4. ASSUME NEW keeper \in Keepers, TickFire(keeper, k)
        PROVE  Gain(k) >= Floor(k) /\ position'[k].status # STATUS_CANCELLED
    <3>1. /\ config # None /\ position'[k].status = STATUS_TRIGGERED
          /\ lamports' = Payout(keeper, k, amount)
      BY <1>1, <2>4, FireEffect
    <3>2. config \in ConfigRecord
      BY <1>1, <3>1 DEF Inv, ConfigTypeOK
    <3>3. /\ Fee(amount) \in Nat /\ KeeperReward(amount) \in Nat
          /\ NetToOwner(amount) \in Nat /\ NetToOwner(amount) >= Floor(k)
      BY <2>1, <3>2, NetFloor
    <3>4. config.fee_receiver \in Wallets /\ keeper \in Wallets
      BY <3>2 DEF ConfigRecord
    <3>5. Payout(keeper, k, amount)[Owner(k)] >= lamports[Owner(k)] + NetToOwner(amount)
      BY <2>1, <3>3, <3>4, PayoutCreditsOwner DEF Payout
    <3>6. lamports'[Owner(k)] \in Nat
      <4>1. lamports' \in [Wallets -> U64]
        BY <1>1, InvStep DEF Inv, PositionInv
      <4> QED
        BY <2>1, <4>1, LimitsAssumption DEF U64
    <3>7. Floor(k) \in Int
      <4>1. BPS_DENOMINATOR - MAX_FEE_BPS - MAX_KEEPER_REWARD_BPS \in Nat
        BY LimitsAssumption
      <4> QED
        BY <2>1, <4>1, BpsRounding
    <3> HIDE DEF Floor, amount
    <3>8. Gain(k) >= Floor(k)
      BY <2>1, <3>1, <3>3, <3>5, <3>6, <3>7
    <3> QED
      BY <3>1, <3>8 DEF STATUS_TRIGGERED, STATUS_CANCELLED
  <2>5. ASSUME NEW signer \in Traders, CancelPosition(signer, k)
        PROVE  Gain(k) >= Floor(k) /\ Gain(k) = amount
    <3>1. lamports'[Owner(k)] = lamports[Owner(k)] + amount
      BY <1>1, <2>5, CancelEffect
    <3>2. Gain(k) = amount
      BY <2>1, <3>1
    <3>3. Floor(k) <= amount
      <4> DEFINE g == BPS_DENOMINATOR - MAX_FEE_BPS - MAX_KEEPER_REWARD_BPS
      <4>1. g \in Nat /\ 0 + 0 + g <= BPS_DENOMINATOR
        BY LimitsAssumption
      <4>2. /\ BpsOf(amount, 0) \in Nat /\ BpsOf(amount, g) \in Nat
            /\ BpsOf(amount, 0) + BpsOf(amount, 0) + BpsOf(amount, g) <= amount
        BY <2>1, <4>1, BpsRounding, SharesFit
      <4> HIDE DEF g, amount
      <4>3. BpsOf(amount, g) <= amount
        BY <2>1, <4>2
      <4> QED
        BY <4>3 DEF g, amount
    <3> HIDE DEF Gain, Floor
    <3>4. Floor(k) <= Gain(k)
      BY <3>2, <3>3
    <3> QED
      BY <3>2, <3>4 DEF Gain, Floor
  <2> QED
    BY <2>3, <2>4, <2>5
<1>2. Inv /\ [Next]_vars =>
        [\A k \in PositionKey :
            (IsOpen(k) /\ position'[k].status # STATUS_OPEN) =>
                LET gain  == lamports'[Owner(k)] - lamports[Owner(k)]
                    floor == BpsOf(position[k].collateral,
                                   BPS_DENOMINATOR - MAX_FEE_BPS - MAX_KEEPER_REWARD_BPS)
                IN  /\ gain >= floor
                    /\ position'[k].status = STATUS_CANCELLED
                          => gain = position[k].collateral]_vars
  BY <1>1
<1> QED
  BY <1>2, Invariance, PTL DEF Spec, OwnerFloor

-----------------------------------------------------------------------------
\* A tick acts on a price made at most the staleness window plus the age
\* allowed to a Lazer payload ago.
THEOREM TicksUseRecentPrices == Spec => TickedPriceIsRecent
<1>1. ASSUME Inv, NEW k \in PositionKey, Ticks(k)
      PROVE  now - published[position[k].feed]
               <= MAX_FEED_STALENESS_SECS + MAX_LAZER_PAYLOAD_AGE_SECS
  <2> DEFINE s == position[k].feed
  <2>1. IsOpen(k) /\ feed[s] # None /\ Fresh(s)
    BY <1>1 DEF Ticks, TickPosition, TickHold, TickFire, TickReady
  <2>2. s \in Symbols
    BY <1>1, <2>1 DEF Inv, PositionInv, IsOpen, PositionRecord
  <2>3. /\ feed[s] \in PriceFeedRecord /\ now \in Int /\ published[s] \in Int
        /\ feed[s].last_updated - published[s] <= MAX_LAZER_PAYLOAD_AGE_SECS
    BY <1>1, <2>1, <2>2 DEF Inv, FeedInv, FeedTypeOK, PriceAgeBounded, Time
  <2>4. feed[s].last_updated \in Int
    BY <2>3 DEF PriceFeedRecord, Time
  <2>5. now - feed[s].last_updated <= MAX_FEED_STALENESS_SECS
    BY <2>1 DEF Fresh
  <2> QED
    BY <2>3, <2>4, <2>5, FeedAssumption
<1>2. Inv /\ [Next]_vars =>
        [\A k \in PositionKey :
            Ticks(k) => now - published[position[k].feed]
                          <= MAX_FEED_STALENESS_SECS + MAX_LAZER_PAYLOAD_AGE_SECS]_vars
  BY <1>1
<1> QED
  BY <1>2, Invariance, PTL DEF Spec, TickedPriceIsRecent

-----------------------------------------------------------------------------
(* The feeds in the program *)

\* Steps on a position only read the feeds: what the feeds see of the program
\* is a step of their own or none.
LEMMA FeedsOwnStep ==
    ASSUME [Next]_vars
    PROVE  [FeedNext]_<<config, feedVars>> \/ UNCHANGED feedVars
<1>1. CASE AdminOps
  BY <1>1, AdminOpsAreFeedSteps
<1>2. ASSUME NEW k \in PositionKey, PositionOps(k)
      PROVE  UNCHANGED feedVars
  BY <1>2, PositionOpsKeepFeeds
<1>3. CASE UNCHANGED vars
  BY <1>3 DEF vars
<1> QED
  BY <1>1, <1>2, <1>3 DEF Next

\* The price a feed serves is as old as its stamp says, give or take the age
\* allowed to a payload, in the whole program too.
THEOREM ProgramPriceAge == Spec => []PriceAgeBounded
<1>1. Inv => PriceAgeBounded
  BY DEF Inv, FeedInv
<1> QED
  BY <1>1, Invariance, PTL

\* Positions opened on a registered feed keep its source, id and channel,
\* whatever else the program does.
THEOREM ProgramRegistrationFinal == Spec => LazerRegistrationIsFinal
<1> DEFINE Final ==
      \A s \in Symbols :
          (feed[s] # None /\ feed[s].source = FEED_SOURCE_LAZER) =>
             /\ feed'[s].source = FEED_SOURCE_LAZER
             /\ feed'[s].lazer_feed_id = feed[s].lazer_feed_id
             /\ feed'[s].lazer_channel = feed[s].lazer_channel
<1>1. ASSUME Inv, [Next]_vars
      PROVE  Final
  <2>1. CASE [FeedNext]_<<config, feedVars>>
    BY <1>1, <2>1, RegistrationStep DEF Inv, feedSpecVars
  <2>2. CASE UNCHANGED feedVars
    BY <2>2 DEF feedVars
  <2> QED
    BY <1>1, <2>1, <2>2, FeedsOwnStep
<1>2. Inv /\ [Next]_vars => [Final]_<<config, feedVars>>
  BY <1>1
<1> QED
  BY <1>2, Invariance, PTL DEF Spec, LazerRegistrationIsFinal, Final

\* Late payloads never set the price of an open position back by more than
\* MAX_LAZER_PAYLOAD_AGE_SECS.
THEOREM ProgramRollbackBounded == Spec => BoundedRollback
<1> DEFINE Bounded ==
      \A s \in Symbols : feed[s] # None =>
          published'[s] >= published[s] - MAX_LAZER_PAYLOAD_AGE_SECS
<1>1. ASSUME Inv, [Next]_vars
      PROVE  Bounded
  <2>1. CASE [FeedNext]_<<config, feedVars>>
    BY <1>1, <2>1, RollbackStep DEF Inv, feedSpecVars
  <2>2. CASE UNCHANGED feedVars
    <3>1. \A s \in Symbols : published[s] \in Int
      BY <1>1 DEF Inv, FeedInv, FeedTypeOK
    <3> QED
      BY <2>2, <3>1, FeedAssumption DEF feedVars
  <2> QED
    BY <1>1, <2>1, <2>2, FeedsOwnStep
<1>2. Inv /\ [Next]_vars => [Bounded]_<<config, feedVars>>
  BY <1>1
<1> QED
  BY <1>2, Invariance, PTL DEF Spec, BoundedRollback, Bounded

-----------------------------------------------------------------------------
(* Where nobody gives *)

\* Nothing is in a position's account but its rent and what is at stake.
NoSurplus == \A k \in PositionKey : vault[k] = Owed(k)

LEMMA NoSurplusStep ==
    ASSUME Inv, NoSurplus, Gifts = {}, [Next]_vars
    PROVE  NoSurplus'
<1>1. ASSUME NEW k \in PositionKey, PositionOps(k)
      PROVE  NoSurplus'
  <2>1. \A j \in PositionKey : j # k =>
            position'[j] = position[j] /\ vault'[j] = vault[j]
    BY <1>1, OpsTouchOne
  <2>2. vault[k] = Owed(k) /\ vault[k] \in U64 /\ RENT \in Nat
    BY HwalAssumption, LimitsAssumption DEF NoSurplus, Inv, PositionInv, U64
  <2>3. vault'[k] = Owed(k)'
    <3>1. CASE Opens(k)
      <4>1. PICK s \in Symbols, side \in 0..2, collateral \in Collaterals,
                 stop \in Levels, takeProfit \in Levels, offset \in Levels :
               OpenPosition(k, s, side, collateral, stop, takeProfit, offset)
        BY <3>1 DEF Opens
      <4> DEFINE r == NewPosition(s, side, collateral, stop, takeProfit, offset)
      <4>2. /\ position[k] = None /\ position'[k] = r
            /\ vault'[k] = vault[k] + (RentDue(k) + collateral)
        <5>1. position[k] = None
          BY <4>1 DEF OpenPosition
        <5>2. position' = [position EXCEPT ![k] = r]
          BY <4>1 DEF OpenPosition
        <5>3. vault' = [vault EXCEPT ![k] = vault[k] + (RentDue(k) + collateral)]
          BY <4>1 DEF OpenPosition, Deposit
        <5> QED
          BY <5>1, <5>2, <5>3 DEF Inv, PositionInv
      <4>3. r # None /\ r.collateral = collateral
        BY <4>1, OpenEffect, NoneAssumption DEF r, NewPosition
      <4>4. vault[k] = 0
        BY <2>2, <4>2 DEF Owed
      <4>5. collateral \in Nat
        BY HwalAssumption, LimitsAssumption DEF U64
      <4>6. RentDue(k) = RENT
        BY <2>2, <4>4 DEF RentDue
      <4> HIDE DEF r
      <4>7. Owed(k)' = collateral + RENT
        BY <4>2, <4>3 DEF Owed
      <4> QED
        BY <2>2, <4>2, <4>4, <4>5, <4>6, <4>7
    <3>2. ASSUME IsOpen(k), position'[k] \in PositionRecord, position'[k].collateral = 0,
                 vault'[k] = vault[k] - position[k].collateral
          PROVE  vault'[k] = Owed(k)'
      <4>1. position[k] # None /\ position[k].collateral \in Nat
        BY <3>2, LimitsAssumption DEF IsOpen, Inv, PositionInv, PositionRecord, U64
      <4>2. Owed(k) = position[k].collateral + RENT
        BY <4>1 DEF Owed
      <4>3. Owed(k)' = RENT
        BY <2>2, <3>2, NoneAssumption DEF Owed
      <4> QED
        BY <2>2, <3>2, <4>1, <4>2, <4>3
    <3>3. CASE \E keeper \in Keepers : TickFire(keeper, k)
      BY <3>2, <3>3, FireEffect
    <3>4. CASE \E signer \in Traders : CancelPosition(signer, k)
      BY <3>2, <3>4, CancelEffect
    <3>5. CASE Quiet(k)
      <4>1. IsOpen(k) /\ vault'[k] = vault[k]
        BY <3>5, QuietEffect
      <4>2. position'[k] \in PositionRecord /\ position'[k].collateral = position[k].collateral
        BY <3>5, QuietEffect DEF Inv, PositionInv
      <4>3. position[k] # None /\ position'[k] # None
        BY <4>1, <4>2, NoneAssumption DEF IsOpen
      <4> QED
        BY <2>2, <4>1, <4>2, <4>3 DEF Owed
    <3> QED
      BY <1>1, <3>1, <3>3, <3>4, <3>5, PositionOpsSplit
  <2> QED
    BY <2>1, <2>3 DEF NoSurplus, Owed
<1>2. CASE UNCHANGED positionVars
  BY <1>2 DEF NoSurplus, Owed, positionVars
<1> QED
  BY <1>1, <1>2, AdminOpsAreFeedSteps DEF Next, vars

\* The documents' "vault drained" holds where no lamports are sent to the
\* position accounts from outside, and a fired tick then leaves the rent:
\* gifts are all there is to the violation the runs show.
THEOREM DrainedUnlessGiven == Gifts = {} => (Spec => FiredTickDrainsVault)
<1> SUFFICES ASSUME Gifts = {}
             PROVE  Spec => FiredTickDrainsVault
    OBVIOUS
<1> DEFINE Drained ==
      \A k \in PositionKey :
          (IsOpen(k) /\ position'[k].status = STATUS_TRIGGERED) => vault'[k] = RENT
<1>1. Init => NoSurplus
  BY DEF Init, NoSurplus, Owed
<1>2. Inv /\ NoSurplus /\ [Next]_vars => NoSurplus'
  BY NoSurplusStep
<1>3. ASSUME Inv, NoSurplus, [Next]_vars, NEW k \in PositionKey,
             IsOpen(k), position'[k].status = STATUS_TRIGGERED
      PROVE  vault'[k] = RENT
  <2>1. PositionOps(k)
    BY <1>3, StepShape DEF IsOpen, STATUS_OPEN, STATUS_TRIGGERED
  <2>2. PICK keeper \in Keepers : TickFire(keeper, k)
    <3>1. ASSUME NEW signer \in Traders, CancelPosition(signer, k)
          PROVE  FALSE
      BY <1>3, <3>1, CancelEffect DEF STATUS_TRIGGERED, STATUS_CANCELLED
    <3> QED
      BY <1>3, <2>1, <3>1, OtherEffects DEF STATUS_TRIGGERED, STATUS_OPEN
  <2>3. /\ position'[k] \in PositionRecord /\ position'[k].collateral = 0
    BY <1>3, <2>2, FireEffect
  <2>4. vault'[k] = Owed(k)'
    BY <1>2, <1>3 DEF NoSurplus
  <2>5. RENT \in Nat
    BY HwalAssumption, LimitsAssumption DEF U64
  <2> QED
    BY <2>3, <2>4, <2>5, NoneAssumption DEF Owed
<1>4. Inv /\ NoSurplus /\ [Next]_vars => [Drained]_vars
  BY <1>3
<1> QED
  BY <1>1, <1>2, <1>4, Invariance, PTL DEF Spec, FiredTickDrainsVault, Drained
=============================================================================
