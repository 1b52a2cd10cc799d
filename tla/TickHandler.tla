----------------------------- MODULE TickHandler ----------------------------
(***************************************************************************)
(* tick_position as the runtime executes it: the handler of                *)
(* tick_position.rs statement by statement, on the transaction's own       *)
(* copies of the accounts, and after it the runtime, which either lands    *)
(* all the copies or none.  Module Hwal has the same instruction as one    *)
(* step; here each error return has its place, between writes that were    *)
(* already made, and the three payments follow one another on balances     *)
(* that may be one and the same.                                           *)
(*                                                                         *)
(* Between two ticks the rest of the program is as in Hwal, under the same *)
(* rule of the runtime about balances.  While a tick executes it waits: an *)
(* instruction that writes an account of the tick (every opening, tick and *)
(* cancel writes Config) waits for its lock, and one that shares none with *)
(* it, the re-arming of another position, could as well come before.       *)
(***************************************************************************)
EXTENDS Hwal

CONSTANT WALLET_RENT        \* rent-exempt minimum of an account without data

\* The caps leave an owner more than a wallet's rent of the least collateral.
ASSUME WalletRentAssumption ==
    /\ WALLET_RENT \in Nat
    /\ WALLET_RENT <= BpsOf(MIN_COLLATERAL_LAMPORTS,
                            BPS_DENOMINATOR - MAX_FEE_BPS - MAX_KEEPER_REWARD_BPS)

VARIABLE exec               \* the tick being executed, None between two

handlerVars == <<vars, exec>>

Steps == {"check", "evaluate", "split", "pay_fee", "pay_keeper", "pay_owner",
          "settle", "exit", "failed"}

\* The transaction's accounts, the locals of the handler, and where it is.
ExecRecord ==
    [at : Steps, keeper : Keepers, key : PositionKey,
     position : PositionRecord, config : ConfigRecord,
     vault : U64, lamports : [Wallets -> U64],
     trigger : {TRIGGER_NONE, TRIGGER_STOP_LOSS, TRIGGER_TAKE_PROFIT, TRIGGER_TRAILING},
     fee : U64, reward : U64, net : U64]

HandlerTypeOK == TypeOK /\ exec \in ExecRecord \cup {None}

HandlerInit == Init /\ exec = None

-----------------------------------------------------------------------------
(* The runtime *)

\* A transaction may leave an account empty or rent-exempt; one that was
\* neither before may only lose lamports.
RentStateAllowed(minimum, before, after) ==
    \/ after = 0
    \/ after >= minimum
    \/ 0 < before /\ before < minimum /\ after <= before

\* The rule on every account of the program and every wallet; an address
\* where no position is yet has no data.
RentStatesAllowed(newPosition, newVault, newLamports) ==
    /\ \A w \in Wallets : RentStateAllowed(WALLET_RENT, lamports[w], newLamports[w])
    /\ \A k \in PositionKey :
          RentStateAllowed(IF newPosition[k] = None THEN WALLET_RENT ELSE RENT,
                           vault[k], newVault[k])

\* The accounts are loaded and checked against the constraints of the
\* instruction; the handler works on what was loaded.
BeginTick(keeper, k) ==
    /\ exec = None
    /\ config # None /\ position[k] # None /\ feed[position[k].feed] # None
    /\ exec' = [at |-> "check", keeper |-> keeper, key |-> k,
                position |-> position[k], config |-> config,
                vault |-> vault[k], lamports |-> lamports,
                trigger |-> TRIGGER_NONE, fee |-> 0, reward |-> 0, net |-> 0]
    /\ UNCHANGED vars

At(step) == exec # None /\ exec.at = step

LandedPosition == [position EXCEPT ![exec.key] = exec.position]
LandedVault == [vault EXCEPT ![exec.key] = exec.vault]

LandTick ==
    /\ At("exit")
    /\ RentStatesAllowed(LandedPosition, LandedVault, exec.lamports)
    /\ position' = LandedPosition /\ vault' = LandedVault
    /\ lamports' = exec.lamports /\ config' = exec.config
    /\ exec' = None
    /\ UNCHANGED feedVars

\* The runtime finds a balance it does not allow.
RefuseTick ==
    /\ At("exit")
    /\ ~RentStatesAllowed(LandedPosition, LandedVault, exec.lamports)
    /\ exec' = [exec EXCEPT !.at = "failed"]
    /\ UNCHANGED vars

\* What the failed transaction wrote is gone.
DiscardTick ==
    /\ At("failed")
    /\ exec' = None
    /\ UNCHANGED vars

-----------------------------------------------------------------------------
(* The handler *)

\* An error return, or on with the next statement.
Unless(error, next) == IF error THEN [exec EXCEPT !.at = "failed"] ELSE next

\* require! on status, price and staleness; then the tick's own fields.
CheckAndAdvance ==
    LET p == exec.position
    IN  /\ At("check")
        /\ exec' = Unless(p.status # STATUS_OPEN \/ ~Fresh(p.feed),
             [exec EXCEPT
                !.at = "evaluate",
                !.position = [p EXCEPT
                    !.last_tick_at = now, !.tick_count = Bump(@),
                    !.trailing_extreme = AdvancedExtreme(p, feed[p.feed].price)]])
        /\ UNCHANGED vars

\* The trigger, or an early return without one.
EvaluateTriggers ==
    LET p     == exec.position
        price == feed[p.feed].price
        first == FirstTrigger(p, price)
    IN  /\ At("evaluate")
        /\ exec' = Unless(ThresholdFails(p, price),
             [exec EXCEPT !.trigger = first,
                          !.at = IF first = TRIGGER_NONE THEN "exit" ELSE "split"])
        /\ UNCHANGED vars

\* Mutant of SplitCollateral: the keeper's reward is not taken out of the net.
MutNetBeforeReward ==
    LET amount == exec.position.collateral
        fee    == BpsOf(amount, exec.config.fee_bps)
        reward == BpsOf(amount, exec.config.keeper_reward_bps)
    IN  /\ At("split")
        /\ exec' = Unless(fee \notin U64 \/ reward \notin U64 \/ fee > amount,
             [exec EXCEPT !.at = "pay_fee", !.fee = fee, !.reward = reward,
                          !.net = amount - fee])
        /\ UNCHANGED vars

SplitCollateral ==
    LET amount == exec.position.collateral
        fee    == BpsOf(amount, exec.config.fee_bps)
        reward == BpsOf(amount, exec.config.keeper_reward_bps)
    IN  /\ At("split")
        /\ exec' = Unless(fee \notin U64 \/ reward \notin U64
                          \/ fee > amount \/ reward > amount - fee,
             [exec EXCEPT !.at = "pay_fee", !.fee = fee, !.reward = reward,
                          !.net = amount - fee - reward])
        /\ UNCHANGED vars

\* Mutant of Paid: the receiver's balance is the one it had when the
\* transaction was loaded.
MutPaidFromLoaded(w, amount, next) ==
    Unless(exec.vault < amount \/ exec.lamports[w] + amount \notin U64,
        [exec EXCEPT !.at = next, !.vault = @ - amount,
                     !.lamports = [@ EXCEPT ![w] = lamports[w] + amount]])

\* transfer_lamports_from_pda: the receiver's balance is read after the
\* vault's was written, and after the payments before.
Paid(w, amount, next) ==
    Unless(exec.vault < amount \/ exec.lamports[w] + amount \notin U64,
        [exec EXCEPT !.at = next, !.vault = @ - amount,
                     !.lamports = Credit(@, w, amount)])

Pay(step, w, amount, next) ==
    /\ At(step)
    /\ exec' = Paid(w, amount, next)
    /\ UNCHANGED vars

PayFee == Pay("pay_fee", exec.config.fee_receiver, exec.fee, "pay_keeper")
PayKeeper == Pay("pay_keeper", exec.keeper, exec.reward, "pay_owner")
PayOwner == Pay("pay_owner", Owner(exec.key), exec.net, "settle")

\* Only now the position says that it is settled, and Config that it paid.
WriteSettled ==
    LET booked == [exec.config EXCEPT
                     !.total_positions_triggered = Bump(@),
                     !.total_fees_collected = SaturatingAdd(@, exec.fee, U64_MAX),
                     !.total_keeper_rewards_paid = SaturatingAdd(@, exec.reward, U64_MAX)]
    IN  /\ At("settle")
        /\ exec' =
             [exec EXCEPT
                !.at = "exit",
                !.position = Settled(exec.position, STATUS_TRIGGERED, exec.trigger),
                !.config = booked]
        /\ UNCHANGED vars

-----------------------------------------------------------------------------
HandlerSteps ==
    \/ CheckAndAdvance \/ EvaluateTriggers \/ SplitCollateral
    \/ PayFee \/ PayKeeper \/ PayOwner \/ WriteSettled

\* Everything but ticks, as in Hwal.
Others ==
    /\ exec = None
    /\ AdminOps \/ \E k \in PositionKey : Opens(k) \/ Retriggers(k) \/ OtherOps(k)
    /\ RentStatesAllowed(position', vault', lamports')
    /\ UNCHANGED exec

HandlerNext ==
    \/ \E keeper \in Keepers, k \in PositionKey : BeginTick(keeper, k)
    \/ HandlerSteps
    \/ LandTick \/ RefuseTick \/ DiscardTick
    \/ Others

HandlerSpec == HandlerInit /\ [][HandlerNext]_handlerVars

-----------------------------------------------------------------------------
(* Properties *)

\* The handler, with its errors between writes and its three payments one
\* after the other to wallets that may be the same, does exactly what the one
\* step of Hwal does or nothing.  (tick_position.rs:39-159, utils.rs:21-41)
HandlerIsAtomic == Spec

\* A wallet the share would leave below the rent-exempt minimum.
CannotReceive(w, share) ==
    0 < share /\ lamports[w] + share < WALLET_RENT

\* Only a short opened above half the range of a u64 has such a threshold.
ThresholdOverflows(p) == p.side = SIDE_SHORT /\ 2 * p.entry_price > U64_MAX + 1

\* A tick of an open position with a fresh feed fails for one reason only,
\* thresholds that overflow a u64 apart: the fee or the keeper's reward would
\* go to a wallet too empty to keep it.  It never fails for the arithmetic of
\* the split, for a balance that overflows or for a vault that holds too
\* little, nor for the owner's part, however empty the owner's wallet: what
\* the caps leave of the least collateral is more than a wallet's rent.
TicksFailOnlyForEmptyPayees ==
    At("failed") =>
        LET p == position[exec.key]
        IN  \/ ~IsOpen(exec.key) \/ ~Fresh(p.feed)
            \/ ThresholdOverflows(p)
            \/ CannotReceive(config.fee_receiver, Fee(p.collateral))
            \/ CannotReceive(exec.keeper, KeeperReward(p.collateral))
=============================================================================
