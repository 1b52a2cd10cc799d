-------------------------------- MODULE Hwal --------------------------------
(***************************************************************************)
(* The Hwal program: the Config account, the PriceFeed accounts and the    *)
(* Position accounts with the lamports they hold.  One step is one         *)
(* successful instruction (the runtime serialises transactions and undoes  *)
(* failed ones), a clock step, or a plain lamport transfer from outside.   *)
(*                                                                         *)
(* A position is known by its PDA seeds, the owner and the nonce, so the   *)
(* key k = <<owner, nonce>> stands for its owner, nonce, vault (the        *)
(* account itself, open_position.rs:103) and bump fields.                  *)
(***************************************************************************)
EXTENDS PriceFeed, Triggers, FiniteSets

CONSTANTS
    Traders,                    \* wallets that open positions
    Keepers,                    \* wallets that tick them: any signer may
    Nonces,
    Collaterals,                \* deposits traders try
    Levels,                     \* prices and offsets traders try as triggers
    Gifts,                      \* amounts sent straight to a position account
    MaxSurplus,                 \* bound on what such gifts add up to
    Funds,                      \* what each wallet starts with
    RENT,                       \* rent-exempt minimum of a Position account
    MIN_COLLATERAL_LAMPORTS

ASSUME HwalAssumption ==
    /\ Traders \subseteq Wallets /\ Keepers \subseteq Wallets
    /\ Collaterals \subseteq U64 /\ Levels \subseteq U64 /\ Gifts \subseteq U64
    /\ Funds \in [Wallets -> U64]
    /\ MaxSurplus \in Nat
    /\ RENT \in U64
    /\ MIN_COLLATERAL_LAMPORTS \in U64

\* Keys have 32 bytes and a nonce is a u64.
ASSUME FinitenessAssumption == IsFiniteSet(Wallets) /\ IsFiniteSet(Nonces)

VARIABLES
    position,     \* the Position accounts
    vault,        \* lamports of the Position accounts, rent and collateral
    lamports      \* lamports of the wallets

positionVars == <<position, vault, lamports>>
vars == <<config, feedVars, positionVars>>

PositionKey == Traders \X Nonces
Owner(k) == k[1]

PositionRecord ==
    [feed : Symbols, side : {SIDE_LONG, SIDE_SHORT},
     status : {STATUS_OPEN, STATUS_TRIGGERED, STATUS_CANCELLED},
     trigger_reason : {TRIGGER_NONE, TRIGGER_STOP_LOSS,
                       TRIGGER_TAKE_PROFIT, TRIGGER_TRAILING},
     collateral : U64, entry_price : U64 \ {0}, stop_price : U64,
     take_profit_price : U64, trailing_offset : U64, trailing_extreme : U64,
     opened_at : Time, last_tick_at : Time, settled_at : Time,
     tick_count : Counter, er_delegated : {0, 1}]

ASSUME NoneAssumption == None \notin PositionRecord \cup ConfigRecord

TypeOK ==
    /\ ConfigTypeOK
    /\ FeedTypeOK
    /\ position \in [PositionKey -> PositionRecord \cup {None}]
    /\ vault \in [PositionKey -> U64]
    /\ lamports \in [Wallets -> U64]

Init ==
    /\ ConfigInit
    /\ FeedInit
    /\ position = [k \in PositionKey |-> None]
    /\ vault = [k \in PositionKey |-> 0]
    /\ lamports = Funds

-----------------------------------------------------------------------------
(* open_position *)

IsOpen(k) == position[k] # None /\ position[k].status = STATUS_OPEN

\* Mutant of RentDue: any lamports at the address count as its rent.
MutRentPresumed(k) == IF vault[k] > 0 THEN 0 ELSE RENT

\* init tops the new account up to the rent-exempt minimum: lamports already
\* sent to the address count towards it.
RentDue(k) == IF vault[k] >= RENT THEN 0 ELSE RENT - vault[k]

NewPosition(s, side, collateral, stop, takeProfit, offset) ==
    [feed |-> s, side |-> side, status |-> STATUS_OPEN,
     trigger_reason |-> TRIGGER_NONE, collateral |-> collateral,
     entry_price |-> feed[s].price, stop_price |-> stop,
     take_profit_price |-> takeProfit, trailing_offset |-> offset,
     trailing_extreme |-> feed[s].price, opened_at |-> now,
     last_tick_at |-> now, settled_at |-> 0, tick_count |-> 0,
     er_delegated |-> 0]

\* The owner pays rent and collateral into the position account itself.
Deposit(k, amount) ==
    /\ lamports[Owner(k)] >= amount
    /\ vault[k] + amount \in U64
    /\ lamports' = [lamports EXCEPT ![Owner(k)] = @ - amount]
    /\ vault' = [vault EXCEPT ![k] = @ + amount]

OpenPosition(k, s, side, collateral, stop, takeProfit, offset) ==
    /\ config # None
    /\ feed[s] # None
    /\ position[k] = None
    /\ side \in {SIDE_LONG, SIDE_SHORT}
    /\ collateral >= MIN_COLLATERAL_LAMPORTS
    /\ Fresh(s)
    /\ ValidTriggers(side, feed[s].price, stop, takeProfit, offset)
    /\ Deposit(k, RentDue(k) + collateral)
    /\ position' = [position EXCEPT ![k] =
                      NewPosition(s, side, collateral, stop, takeProfit, offset)]
    /\ config' = [config EXCEPT !.total_positions_opened = Bump(@)]
    /\ UNCHANGED feedVars

-----------------------------------------------------------------------------
(* update_triggers *)

\* Mutants of Retriggered: the extreme survives a new offset; it survives
\* disarming.
MutExtremeKept(p, stop, takeProfit, offset) ==
    [p EXCEPT !.stop_price = stop,
              !.take_profit_price = takeProfit,
              !.trailing_offset = offset]

MutResetOnArmingOnly(p, stop, takeProfit, offset) ==
    [p EXCEPT !.stop_price = stop,
              !.take_profit_price = takeProfit,
              !.trailing_offset = offset,
              !.trailing_extreme = IF offset \in {0, p.trailing_offset}
                                   THEN @ ELSE p.entry_price]

\* A new offset starts the trailing stop again from the entry price.
Retriggered(p, stop, takeProfit, offset) ==
    [p EXCEPT !.stop_price = stop,
              !.take_profit_price = takeProfit,
              !.trailing_offset = offset,
              !.trailing_extreme = IF offset = p.trailing_offset
                                   THEN @ ELSE p.entry_price]

\* Mutant of UpdateTriggers: a settled position can be updated.
MutUpdateSettled(signer, k, stop, takeProfit, offset) ==
    /\ position[k] # None
    /\ signer = Owner(k)
    /\ ValidTriggers(position[k].side, position[k].entry_price,
                     stop, takeProfit, offset)
    /\ position' = [position EXCEPT ![k] = Retriggered(@, stop, takeProfit, offset)]
    /\ UNCHANGED <<config, feedVars, vault, lamports>>

\* Levels are checked against the entry price, not the present one.
UpdateTriggers(signer, k, stop, takeProfit, offset) ==
    /\ IsOpen(k)
    /\ signer = Owner(k)
    /\ ValidTriggers(position[k].side, position[k].entry_price,
                     stop, takeProfit, offset)
    /\ position' = [position EXCEPT ![k] = Retriggered(@, stop, takeProfit, offset)]
    /\ UNCHANGED <<config, feedVars, vault, lamports>>

-----------------------------------------------------------------------------
(* tick_position *)

PriceOf(k) == feed[position[k].feed].price

\* The position as the tick leaves it before it looks at the triggers.
Ticked(k) ==
    [position[k] EXCEPT
        !.last_tick_at = now,
        !.tick_count = Bump(@),
        !.trailing_extreme = AdvancedExtreme(position[k], PriceOf(k))]

TickReady(k) ==
    /\ config # None
    /\ IsOpen(k)
    /\ feed[position[k].feed] # None
    /\ Fresh(position[k].feed)
    /\ ~ThresholdFails(Ticked(k), PriceOf(k))

\* No trigger: the tick still records its time and the advanced extreme.
TickHold(k) ==
    /\ TickReady(k)
    /\ FirstTrigger(Ticked(k), PriceOf(k)) = TRIGGER_NONE
    /\ position' = [position EXCEPT ![k] = Ticked(k)]
    /\ UNCHANGED <<config, feedVars, vault, lamports>>

\* The split of a collateral under the fee policy in force at settlement.
Fee(amount) == BpsOf(amount, config.fee_bps)
KeeperReward(amount) == BpsOf(amount, config.keeper_reward_bps)

NetToOwner(amount) == amount - Fee(amount) - KeeperReward(amount)

Credit(balances, w, amount) == [balances EXCEPT ![w] = @ + amount]

\* Three credits in the code's order; payees may be one and the same wallet.
Payout(keeper, k, amount) ==
    Credit(Credit(Credit(lamports, config.fee_receiver, Fee(amount)),
                  keeper, KeeperReward(amount)),
           Owner(k), NetToOwner(amount))

\* Mutant of Settled: the collateral stays on record.
MutCollateralKept(p, status, reason) ==
    [p EXCEPT !.status = status, !.trigger_reason = reason, !.settled_at = now]

Settled(p, status, reason) ==
    [p EXCEPT !.collateral = 0, !.status = status,
              !.trigger_reason = reason, !.settled_at = now]

\* Mutants of Booked: the fee is booked as a reward and the reward as a fee;
\* the trigger is not counted.
MutBookedSwapped(amount) ==
    [config EXCEPT
        !.total_positions_triggered = Bump(@),
        !.total_fees_collected = SaturatingAdd(@, KeeperReward(amount), U64_MAX),
        !.total_keeper_rewards_paid = SaturatingAdd(@, Fee(amount), U64_MAX)]

MutBookedUncounted(amount) ==
    [config EXCEPT
        !.total_fees_collected = SaturatingAdd(@, Fee(amount), U64_MAX),
        !.total_keeper_rewards_paid = SaturatingAdd(@, KeeperReward(amount), U64_MAX)]

\* The statistics of a fired trigger.
Booked(amount) ==
    [config EXCEPT
        !.total_positions_triggered = Bump(@),
        !.total_fees_collected = SaturatingAdd(@, Fee(amount), U64_MAX),
        !.total_keeper_rewards_paid = SaturatingAdd(@, KeeperReward(amount), U64_MAX)]

\* Every error of the settlement arithmetic and of the three transfers.
SettlementFits(keeper, k, amount) ==
    /\ Fee(amount) \in U64 /\ KeeperReward(amount) \in U64
    /\ NetToOwner(amount) >= 0
    /\ vault[k] >= amount
    /\ \A w \in Wallets : Payout(keeper, k, amount)[w] \in U64

TickFire(keeper, k) ==
    LET reason == FirstTrigger(Ticked(k), PriceOf(k))
        amount == position[k].collateral
    IN  /\ TickReady(k)
        /\ reason # TRIGGER_NONE
        /\ SettlementFits(keeper, k, amount)
        /\ vault' = [vault EXCEPT ![k] = @ - amount]
        /\ lamports' = Payout(keeper, k, amount)
        /\ position' = [position EXCEPT ![k] =
                          Settled(Ticked(k), STATUS_TRIGGERED, reason)]
        /\ config' = Booked(amount)
        /\ UNCHANGED feedVars

TickPosition(keeper, k) == TickHold(k) \/ TickFire(keeper, k)

-----------------------------------------------------------------------------
(* cancel_position *)

\* Mutant of CancelPosition: it pays out all that is above the rent.
MutCancelDrains(signer, k) ==
    LET amount == vault[k] - RENT
    IN  /\ config # None
        /\ IsOpen(k)
        /\ signer = Owner(k)
        /\ lamports[signer] + amount \in U64
        /\ vault' = [vault EXCEPT ![k] = @ - amount]
        /\ lamports' = Credit(lamports, signer, amount)
        /\ position' = [position EXCEPT ![k] =
                          Settled(@, STATUS_CANCELLED, @.trigger_reason)]
        /\ config' = [config EXCEPT !.total_positions_cancelled = Bump(@)]
        /\ UNCHANGED feedVars

CancelPosition(signer, k) ==
    LET amount == position[k].collateral
    IN  /\ config # None
        /\ IsOpen(k)
        /\ signer = Owner(k)
        /\ vault[k] >= amount
        /\ lamports[signer] + amount \in U64
        /\ vault' = [vault EXCEPT ![k] = @ - amount]
        /\ lamports' = Credit(lamports, signer, amount)
        /\ position' = [position EXCEPT ![k] =
                          Settled(@, STATUS_CANCELLED, @.trigger_reason)]
        /\ config' = [config EXCEPT !.total_positions_cancelled = Bump(@)]
        /\ UNCHANGED feedVars

-----------------------------------------------------------------------------
(* delegate_position, undelegate_position *)

SetDelegated(signer, k, flag) ==
    /\ IsOpen(k)
    /\ signer = Owner(k)
    /\ position[k].er_delegated # flag
    /\ position' = [position EXCEPT ![k].er_delegated = flag]
    /\ UNCHANGED <<config, feedVars, vault, lamports>>

\* The CPI to the delegation program may fail, and the instruction with it;
\* when it succeeds the program still owns the account and writes the flag.
\* No other instruction reads the flag.
DelegatePosition(signer, k) == SetDelegated(signer, k, 1)

UndelegatePosition(signer, k) == SetDelegated(signer, k, 0)

-----------------------------------------------------------------------------
\* Anyone can transfer lamports to any address, a position's among them,
\* before it is opened, while it is open or after it is settled.  Who gives
\* makes no difference to the position; the model lets the traders give.
Owed(k) == IF position[k] = None THEN 0 ELSE position[k].collateral + RENT

GiftToPosition(w, k, amount) ==
    /\ lamports[w] >= amount
    /\ vault[k] + amount \in U64
    /\ vault[k] + amount <= Owed(k) + MaxSurplus        \* bound
    /\ lamports' = [lamports EXCEPT ![w] = @ - amount]
    /\ vault' = [vault EXCEPT ![k] = @ + amount]
    /\ UNCHANGED <<config, feedVars, position>>

-----------------------------------------------------------------------------
Opens(k) ==
    \E s \in Symbols, side \in 0..2, collateral \in Collaterals,
       stop, takeProfit, offset \in Levels :
        OpenPosition(k, s, side, collateral, stop, takeProfit, offset)

Retriggers(k) ==
    \E signer \in Traders, stop, takeProfit, offset \in Levels :
        UpdateTriggers(signer, k, stop, takeProfit, offset)

Ticks(k) == \E keeper \in Keepers : TickPosition(keeper, k)

Delegations(k) ==
    \E w \in Traders : DelegatePosition(w, k) \/ UndelegatePosition(w, k)

OtherOps(k) ==
    \/ Delegations(k)
    \/ \E w \in Traders :
        \/ CancelPosition(w, k)
        \/ \E amount \in Gifts : GiftToPosition(w, k, amount)

PositionOps(k) == Opens(k) \/ Retriggers(k) \/ Ticks(k) \/ OtherOps(k)

\* The instructions that touch no position.
AdminOps ==
    \/ ConfigOps /\ UNCHANGED <<feedVars, positionVars>>
    \/ FeedOps /\ UNCHANGED positionVars

Next == AdminOps \/ \E k \in PositionKey : PositionOps(k)

Spec == Init /\ [][Next]_vars

-----------------------------------------------------------------------------
(* Properties *)

\* The triggers of every open position stay anchored to its entry price: the
\* levels on their sides of it, the offset below it, the extreme never on the
\* losing side of it and never zero.  Levels are re-validated against the
\* entry price while the feed, the extreme and the offset move independently.
Anchored(p) ==
    /\ ValidTriggers(p.side, p.entry_price, p.stop_price,
                     p.take_profit_price, p.trailing_offset)
    /\ NoBetter(p.side, p.entry_price, p.trailing_extreme)
    /\ p.trailing_extreme > 0

TriggersAnchored == \A k \in PositionKey : IsOpen(k) => Anchored(position[k])

\* The trailing threshold of a long can never underflow, whatever the feed
\* does and however often the owner re-arms the stop, so TrailingUnderflow
\* never blocks a settlement.  A short's can overflow only if twice its entry
\* price is beyond a u64, and then the tick could not have fired on it anyway.
\* (tick_position.rs:74-77, 87-90)
TickArithmeticSafe ==
    \A k \in PositionKey : IsOpen(k) =>
        \A price \in Prices \ {0} :
            LET p == position[k]
                q == [p EXCEPT !.trailing_extreme = AdvancedExtreme(p, price)]
            IN  ThresholdFails(q, price) =>
                    p.side = SIDE_SHORT /\ 2 * p.entry_price > U64_MAX + 1

\* No price hits both fixed levels, so "stop-loss first" never costs an owner
\* a take-profit: the levels stay on either side of the entry price through
\* every update_triggers, though those are made at other market prices.
StopAndTakeProfitDisjoint ==
    \A k \in PositionKey : IsOpen(k) =>
        \A price \in Prices :
            ~(StopHit(position[k], price) /\ TakeProfitHit(position[k], price))

\* A tick made at this price would fire for one of these reasons.
WouldFire(k, price, reasons) ==
    LET p == [position[k] EXCEPT !.trailing_extreme = AdvancedExtreme(position[k], price)]
    IN  ~ThresholdFails(p, price) /\ FirstTrigger(p, price) \in reasons

\* Prices jump between ticks.  A price that jumps past a level fires as surely
\* as one on it: whatever stops a position, a worse price stops it too, though
\* it may find the other rule first, and whatever takes its profit, a better
\* price takes it too and is never taken for a stop.
JumpsStillFire ==
    \A k \in PositionKey : IsOpen(k) =>
        \A price, beyond \in Prices \ {0} :
            LET side  == position[k].side
                stops == {TRIGGER_STOP_LOSS, TRIGGER_TRAILING}
                takes == {TRIGGER_TAKE_PROFIT}
            IN  /\ Worse(side, beyond, price) /\ WouldFire(k, price, stops)
                      => WouldFire(k, beyond, stops)
                /\ Worse(side, price, beyond) /\ WouldFire(k, price, takes)
                      => WouldFire(k, beyond, takes)

\* An open position's account holds its collateral on top of its rent, and a
\* settled one keeps its rent: no sequence of gifts, ticks and cancels leaves
\* an account short of what the next settlement pays out of it.
Solvent ==
    \A k \in PositionKey : position[k] # None =>
        vault[k] >= position[k].collateral + RENT

\* Whatever the fee policy, the keeper and the aliasing of the payees, none of
\* the errors of the settlement arithmetic and transfers can strike: an open
\* position can always be paid out by a fired tick and refunded by a cancel.
NeverStuck ==
    config # None =>
        \A k \in PositionKey : IsOpen(k) =>
            LET amount == position[k].collateral
            IN  /\ \A keeper \in Keepers : SettlementFits(keeper, k, amount)
                /\ vault[k] >= amount
                /\ lamports[Owner(k)] + amount \in U64

\* The lifetime counters of Config count what the positions show: since no
\* position account is ever closed, opened, triggered and cancelled positions
\* can be counted, and the counters agree until they saturate.
CountersAgree ==
    config # None =>
        LET Capped(S) == IF Cardinality(S) > COUNTER_MAX
                         THEN COUNTER_MAX ELSE Cardinality(S)
            Opened     == {k \in PositionKey : position[k] # None}
            With(code) == {k \in Opened : position[k].status = code}
        IN  /\ config.total_positions_opened = Capped(Opened)
            /\ config.total_positions_triggered = Capped(With(STATUS_TRIGGERED))
            /\ config.total_positions_cancelled = Capped(With(STATUS_CANCELLED))

\* Triggered and Cancelled are terminal (architecture.md, "State
\* transitions"): nothing that may happen afterwards, in any order, changes a
\* settled position again, not even its triggers or its delegation flag, nor
\* can its owner and nonce be used for a new one.
SettledIsTerminal ==
    [][\A k \in PositionKey :
          (position[k] # None /\ ~IsOpen(k)) => position'[k] = position[k]]_vars

\* Lamports leave a position's account only as its settlement, once, and then
\* exactly the recorded collateral: no other instruction, no second tick or
\* cancel, and no gift in between changes what is paid.
VaultOnlyPaysOnSettlement ==
    [][\A k \in PositionKey :
          vault'[k] < vault[k] =>
              /\ IsOpen(k)
              /\ position'[k].status \in {STATUS_TRIGGERED, STATUS_CANCELLED}
              /\ vault[k] - vault'[k] = position[k].collateral]_vars

\* The admin may change the fee policy while a position is open, and the
\* policy in force when it settles is the one applied.  Even so the owner gets
\* back at least 93% of the collateral when a trigger fires (100% minus
\* MAX_FEE_BPS and MAX_KEEPER_REWARD_BPS), and all of it on a cancel.
OwnerFloor ==
    [][\A k \in PositionKey :
          (IsOpen(k) /\ position'[k].status # STATUS_OPEN) =>
              LET gain  == lamports'[Owner(k)] - lamports[Owner(k)]
                  floor == BpsOf(position[k].collateral,
                                 BPS_DENOMINATOR - MAX_FEE_BPS - MAX_KEEPER_REWARD_BPS)
              IN  /\ gain >= floor
                  /\ position'[k].status = STATUS_CANCELLED
                        => gain = position[k].collateral]_vars

\* A tick never acts on a price made longer ago than the staleness window and
\* the age allowed to a Lazer payload taken together, however the clock, late
\* payloads and ticks interleave.
TickedPriceIsRecent ==
    [][\A k \in PositionKey :
          Ticks(k) => now - published[position[k].feed]
                        <= MAX_FEED_STALENESS_SECS + MAX_LAZER_PAYLOAD_AGE_SECS]_vars

-----------------------------------------------------------------------------
(* What the documents say and the code does not do *)

\* docs/architecture.md, "Fee model": the owner's net is the balance of the
\* vault less the keeper reward and the protocol fee, "vault drained".
FiredTickDrainsVault ==
    [][\A k \in PositionKey :
          (IsOpen(k) /\ position'[k].status = STATUS_TRIGGERED) =>
              vault'[k] = RENT]_vars
=============================================================================
