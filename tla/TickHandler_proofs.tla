------------------------- MODULE TickHandler_proofs -------------------------
(***************************************************************************)
(* The handler of tick_position does what the one step of Hwal does, or    *)
(* nothing, for all values of the constants.                               *)
(*                                                                         *)
(* The inductive invariant says, for each place the handler can be at,     *)
(* what the transaction's copies hold: nothing written yet (Untouched),    *)
(* the advanced record (Advanced), the trigger that fired (Firing), the    *)
(* split of the collateral (Priced), how much of it has been paid.  No     *)
(* other instruction changes the accounts meanwhile, so each is stated     *)
(* with the operators of Hwal on the accounts themselves.                  *)
(***************************************************************************)
EXTENDS TickHandler, HwalEscrow_proofs, HwalLedger_proofs

Amount(e) == position[e.key].collateral

Loaded(e) ==
    config # None /\ position[e.key] # None /\ feed[position[e.key].feed] # None

Untouched(e) == e.vault = vault[e.key] /\ e.lamports = lamports

Advanced(e) ==
    /\ IsOpen(e.key) /\ Fresh(position[e.key].feed)
    /\ e.position = Ticked(e.key)

Firing(e) ==
    /\ Advanced(e)
    /\ TickReady(e.key)
    /\ e.trigger = FirstTrigger(Ticked(e.key), PriceOf(e.key))
    /\ e.trigger # TRIGGER_NONE

Priced(e) ==
    /\ Firing(e)
    /\ e.fee = Fee(Amount(e)) /\ e.reward = KeeperReward(Amount(e))
    /\ e.net = NetToOwner(Amount(e)) /\ e.net >= 0

AfterFee(e) == Credit(lamports, config.fee_receiver, Fee(Amount(e)))
AfterReward(e) == Credit(AfterFee(e), e.keeper, KeeperReward(Amount(e)))

Held(e) ==
    /\ TickReady(e.key)
    /\ FirstTrigger(Ticked(e.key), PriceOf(e.key)) = TRIGGER_NONE
    /\ e.position = Ticked(e.key) /\ e.config = config
    /\ Untouched(e)

Fired(e) ==
    LET reason == FirstTrigger(Ticked(e.key), PriceOf(e.key))
    IN  /\ TickReady(e.key) /\ reason # TRIGGER_NONE
        /\ SettlementFits(e.keeper, e.key, Amount(e))
        /\ e.position = Settled(Ticked(e.key), STATUS_TRIGGERED, reason)
        /\ e.config = Booked(Amount(e))
        /\ e.vault = vault[e.key] - Amount(e)
        /\ e.lamports = Payout(e.keeper, e.key, Amount(e))

ExecInv(e) ==
    /\ e \in ExecRecord
    /\ Loaded(e)
    /\ e.at \notin {"exit", "failed"} => e.config = config
    /\ e.at = "check" => Untouched(e) /\ e.position = position[e.key]
    /\ e.at = "evaluate" => Untouched(e) /\ Advanced(e)
    /\ e.at = "split" => Untouched(e) /\ Firing(e)
    /\ e.at = "pay_fee" => Untouched(e) /\ Priced(e)
    /\ e.at = "pay_keeper" => /\ Priced(e)
                              /\ e.vault = vault[e.key] - e.fee
                              /\ e.lamports = AfterFee(e)
    /\ e.at = "pay_owner" => /\ Priced(e)
                             /\ e.vault = vault[e.key] - e.fee - e.reward
                             /\ e.lamports = AfterReward(e)
    /\ e.at = "settle" => /\ Priced(e)
                          /\ e.vault = vault[e.key] - e.fee - e.reward - e.net
                          /\ e.lamports = Payout(e.keeper, e.key, Amount(e))
    /\ e.at = "exit" => Held(e) \/ Fired(e)

HandlerInv == Inv /\ (exec # None => ExecInv(exec))

-----------------------------------------------------------------------------
(* Steps of the handler *)

\* An error return leaves nothing to prove but types.
LEMMA Failing ==
    ASSUME NEW e, ExecInv(e), NEW f, f = [e EXCEPT !.at = "failed"]
    PROVE  ExecInv(f)
<1>1. /\ f \in ExecRecord /\ f.at = "failed" /\ f.key = e.key
  BY DEF ExecInv, ExecRecord, Steps
<1> QED
  BY <1>1 DEF ExecInv, Loaded

LEMMA BeginStep ==
    ASSUME Inv, NEW keeper \in Keepers, NEW k \in PositionKey, BeginTick(keeper, k)
    PROVE  ExecInv(exec')
<1> DEFINE e == exec'
<1>1. /\ e.at = "check" /\ e.key = k /\ e.position = position[k] /\ e.config = config
      /\ e.vault = vault[k] /\ e.lamports = lamports
  BY DEF BeginTick
<1>2. Loaded(e)
  BY <1>1 DEF BeginTick, Loaded
<1>3. e \in ExecRecord
  <2>1. /\ config \in ConfigRecord /\ position[k] \in PositionRecord
        /\ vault[k] \in U64 /\ lamports \in [Wallets -> U64] /\ 0 \in U64
    BY LimitsAssumption DEF BeginTick, Inv, ConfigTypeOK, PositionInv, U64
  <2> QED
    BY <2>1 DEF BeginTick, ExecRecord, Steps
<1> QED
  BY <1>1, <1>2, <1>3 DEF ExecInv, Untouched

LEMMA CheckStep ==
    ASSUME HandlerInv, CheckAndAdvance
    PROVE  ExecInv(exec')
<1> DEFINE e == exec
           k == exec.key
           p == position[k]
           q == Ticked(k)
<1>1. /\ ExecInv(e) /\ e.at = "check" /\ k \in PositionKey
      /\ Loaded(e) /\ Untouched(e) /\ e.config = config /\ e.position = p
  BY DEF HandlerInv, CheckAndAdvance, At, ExecInv, ExecRecord
<1>2. CASE p.status # STATUS_OPEN \/ ~Fresh(p.feed)
  <2>1. exec' = [e EXCEPT !.at = "failed"]
    BY <1>1, <1>2 DEF CheckAndAdvance, Unless
  <2> QED
    BY <1>1, <2>1, Failing
<1>3. CASE ~(p.status # STATUS_OPEN \/ ~Fresh(p.feed))
  <2>1. exec' = [e EXCEPT !.at = "evaluate", !.position = q]
    BY <1>1, <1>3 DEF CheckAndAdvance, Unless, Ticked, PriceOf
  <2>2. IsOpen(k) /\ feed[p.feed] # None /\ Fresh(p.feed)
    BY <1>1, <1>3 DEF Loaded, IsOpen
  <2>3. q \in PositionRecord
    BY <1>1, <2>2, TickedRecord DEF HandlerInv
  <2> HIDE DEF q
  <2>4. /\ exec' \in ExecRecord
        /\ exec'.at = "evaluate" /\ exec'.key = k /\ exec'.position = q
        /\ exec'.config = config /\ exec'.vault = e.vault /\ exec'.lamports = e.lamports
    BY <1>1, <2>1, <2>3 DEF ExecInv, ExecRecord, Steps
  <2>5. Advanced(exec') /\ Loaded(exec') /\ Untouched(exec')
    BY <1>1, <2>2, <2>4 DEF Advanced, Loaded, Untouched, q
  <2> QED
    BY <2>4, <2>5 DEF ExecInv
<1> QED
  BY <1>2, <1>3

LEMMA EvaluateStep ==
    ASSUME HandlerInv, EvaluateTriggers
    PROVE  ExecInv(exec')
<1> DEFINE e == exec
           k == exec.key
           q == Ticked(k)
           price == PriceOf(k)
           first == FirstTrigger(q, price)
<1>1. /\ ExecInv(e) /\ e.at = "evaluate" /\ k \in PositionKey
      /\ Loaded(e) /\ Untouched(e) /\ e.config = config /\ Advanced(e)
  BY DEF HandlerInv, EvaluateTriggers, At, ExecInv, ExecRecord
<1>2. /\ IsOpen(k) /\ feed[position[k].feed] # None /\ Fresh(position[k].feed)
      /\ e.position = q
  BY <1>1 DEF Advanced, Loaded
<1>3. position[k] \in PositionRecord
  BY <1>1, <1>2 DEF HandlerInv, Inv, PositionInv, IsOpen
<1>4. q.feed = position[k].feed
  BY <1>3 DEF Ticked, PositionRecord
<1>5. exec' = Unless(ThresholdFails(q, price),
                [e EXCEPT !.trigger = first,
                          !.at = IF first = TRIGGER_NONE THEN "exit" ELSE "split"])
  BY <1>2, <1>4 DEF EvaluateTriggers, PriceOf
<1>6. CASE ThresholdFails(q, price)
  BY <1>1, <1>5, <1>6, Failing DEF Unless
<1>7. CASE ~ThresholdFails(q, price)
  <2>1. TickReady(k)
    BY <1>1, <1>2, <1>7 DEF TickReady, Loaded
  <2> DEFINE at == IF first = TRIGGER_NONE THEN "exit" ELSE "split"
  <2>2. exec' = [e EXCEPT !.trigger = first, !.at = at]
    BY <1>5, <1>7 DEF Unless
  <2>3. first \in {TRIGGER_NONE, TRIGGER_STOP_LOSS, TRIGGER_TAKE_PROFIT, TRIGGER_TRAILING}
    BY ReasonTyped
  <2> HIDE DEF first
  <2>4. /\ exec' \in ExecRecord
        /\ exec'.at = at /\ exec'.key = k /\ exec'.trigger = first
        /\ exec'.position = e.position /\ exec'.config = config
        /\ exec'.vault = e.vault /\ exec'.lamports = e.lamports
    BY <1>1, <2>2, <2>3 DEF ExecInv, ExecRecord, Steps
  <2>5. Loaded(exec') /\ Untouched(exec') /\ Advanced(exec')
    BY <1>1, <2>4 DEF Loaded, Untouched, Advanced
  <2>6. CASE first = TRIGGER_NONE
    <3>1. Held(exec')
      BY <1>2, <2>1, <2>4, <2>5, <2>6 DEF Held, first
    <3> QED
      BY <2>4, <2>5, <2>6, <3>1 DEF ExecInv
  <2>7. CASE first # TRIGGER_NONE
    <3>1. Firing(exec')
      BY <2>1, <2>4, <2>5, <2>7 DEF Firing, first
    <3> QED
      BY <2>4, <2>5, <2>7, <3>1 DEF ExecInv
  <2> QED
    BY <2>6, <2>7
<1> QED
  BY <1>6, <1>7

\* The numbers of the split, once the trigger is known.
LEMMA SplitFacts ==
    ASSUME HandlerInv, exec # None, Firing(exec)
    PROVE  LET amount == Amount(exec)
           IN  /\ exec.position.collateral = amount /\ amount \in U64
               /\ config \in ConfigRecord
               /\ Fee(amount) \in Nat /\ KeeperReward(amount) \in Nat
<1> DEFINE k == exec.key
           amount == Amount(exec)
<1>1. /\ k \in PositionKey /\ TickReady(k) /\ exec.position = Ticked(k)
      /\ IsOpen(k) /\ config # None
      /\ feed[position[k].feed] # None /\ Fresh(position[k].feed)
  BY DEF HandlerInv, ExecInv, ExecRecord, Firing, Advanced, TickReady
<1>2. exec.position.collateral = amount
  BY <1>1, TickedRecord DEF HandlerInv, Amount
<1>3. amount \in U64 /\ config \in ConfigRecord
  BY <1>1 DEF HandlerInv, Inv, PositionInv, IsOpen, PositionRecord, ConfigTypeOK, Amount
<1>4. amount \in Nat /\ config.fee_bps \in Nat /\ config.keeper_reward_bps \in Nat
  BY <1>3, LimitsAssumption DEF U64, ConfigRecord
<1>5. Fee(amount) \in Nat /\ KeeperReward(amount) \in Nat
  BY <1>4, BpsRounding DEF Fee, KeeperReward
<1> QED
  BY <1>2, <1>3, <1>5

LEMMA SplitStep ==
    ASSUME HandlerInv, SplitCollateral
    PROVE  ExecInv(exec')
<1> DEFINE e == exec
           amount == Amount(exec)
           fee == Fee(amount)
           reward == KeeperReward(amount)
<1>1. /\ exec # None /\ ExecInv(e) /\ e.at = "split"
      /\ Loaded(e) /\ Untouched(e) /\ e.config = config /\ Firing(e)
  BY DEF HandlerInv, SplitCollateral, At, ExecInv
<1>2. /\ e.position.collateral = amount /\ amount \in U64
      /\ fee \in Nat /\ reward \in Nat
  BY <1>1, SplitFacts
<1> DEFINE error == fee \notin U64 \/ reward \notin U64 \/ fee > amount \/ reward > amount - fee
<1>3. exec' = Unless(error, [e EXCEPT !.at = "pay_fee", !.fee = fee, !.reward = reward,
                                      !.net = amount - fee - reward])
  BY <1>1, <1>2 DEF SplitCollateral, Fee, KeeperReward
<1>4. CASE error
  BY <1>1, <1>3, <1>4, Failing DEF Unless
<1>5. CASE ~error
  <2> DEFINE net == amount - fee - reward
  <2> HIDE DEF amount, fee, reward
  <2>1. /\ fee \in U64 /\ reward \in U64 /\ net \in U64 /\ net >= 0
    BY <1>2, <1>5, LimitsAssumption DEF U64
  <2>2. exec' = [e EXCEPT !.at = "pay_fee", !.fee = fee, !.reward = reward, !.net = net]
    BY <1>3, <1>5 DEF Unless
  <2> HIDE DEF net
  <2>3. /\ exec' \in ExecRecord
        /\ exec'.at = "pay_fee" /\ exec'.key = e.key /\ exec'.trigger = e.trigger
        /\ exec'.position = e.position /\ exec'.config = config
        /\ exec'.vault = e.vault /\ exec'.lamports = e.lamports
        /\ exec'.fee = fee /\ exec'.reward = reward /\ exec'.net = net
    BY <1>1, <2>1, <2>2 DEF ExecInv, ExecRecord, Steps
  <2>4. Loaded(exec') /\ Untouched(exec') /\ Firing(exec')
    BY <1>1, <2>3 DEF Loaded, Untouched, Firing, Advanced
  <2>5. Priced(exec')
    <3>1. Amount(exec') = amount
      BY <2>3 DEF Amount, amount
    <3> QED
      BY <2>1, <2>3, <2>4, <3>1 DEF Priced, NetToOwner, fee, reward, net
  <2> QED
    BY <2>3, <2>4, <2>5 DEF ExecInv
<1> QED
  BY <1>4, <1>5

\* A payment fails, or moves the amount and goes on.
LEMMA PaidFacts ==
    ASSUME NEW e, e = exec, ExecInv(e), e.config = config, Priced(e),
           NEW w \in Wallets, NEW amount \in U64, NEW next \in Steps,
           exec' = Paid(w, amount, next)
    PROVE  \/ exec' = [e EXCEPT !.at = "failed"]
           \/ /\ exec' \in ExecRecord
              /\ Loaded(exec') /\ Priced(exec') /\ exec'.config = config
              /\ exec'.at = next /\ exec'.key = e.key /\ exec'.keeper = e.keeper
              /\ exec'.fee = e.fee /\ exec'.reward = e.reward /\ exec'.net = e.net
              /\ exec'.vault = e.vault - amount
              /\ exec'.lamports = Credit(e.lamports, w, amount)
<1>1. CASE e.vault < amount \/ e.lamports[w] + amount \notin U64
  BY <1>1 DEF Paid, Unless
<1>2. CASE ~(e.vault < amount \/ e.lamports[w] + amount \notin U64)
  <2> DEFINE left == e.vault - amount
             paid == Credit(e.lamports, w, amount)
  <2>1. e.vault \in U64 /\ e.lamports \in [Wallets -> U64]
    BY DEF ExecInv, ExecRecord
  <2>2. left \in U64
    BY <1>2, <2>1, LimitsAssumption DEF U64
  <2>3. paid \in [Wallets -> U64]
    BY <1>2, <2>1 DEF Credit
  <2>4. exec' = [e EXCEPT !.at = next, !.vault = left, !.lamports = paid]
    BY <1>2 DEF Paid, Unless
  <2> HIDE DEF left, paid
  <2>5. /\ exec' \in ExecRecord
        /\ exec'.at = next /\ exec'.key = e.key /\ exec'.keeper = e.keeper
        /\ exec'.trigger = e.trigger
        /\ exec'.position = e.position /\ exec'.config = e.config
        /\ exec'.fee = e.fee /\ exec'.reward = e.reward /\ exec'.net = e.net
        /\ exec'.vault = left /\ exec'.lamports = paid
    BY <2>2, <2>3, <2>4 DEF ExecInv, ExecRecord
  <2>6. Loaded(exec') /\ Priced(exec')
    BY <2>5 DEF ExecInv, Loaded, Priced, Firing, Advanced, Amount
  <2> QED
    BY <2>5, <2>6 DEF left, paid
<1> QED
  BY <1>1, <1>2

LEMMA PayFeeStep ==
    ASSUME HandlerInv, PayFee
    PROVE  ExecInv(exec')
<1> DEFINE e == exec
<1>1. /\ exec # None /\ ExecInv(e) /\ e.at = "pay_fee"
      /\ e.config = config /\ Untouched(e) /\ Priced(e)
  BY DEF HandlerInv, PayFee, Pay, At, ExecInv
<1>2. /\ config.fee_receiver \in Wallets /\ e.fee \in U64 /\ "pay_keeper" \in Steps
      /\ exec' = Paid(config.fee_receiver, e.fee, "pay_keeper")
  <2>1. e.config \in ConfigRecord /\ e.fee \in U64
    BY <1>1 DEF ExecInv, ExecRecord
  <2> QED
    BY <1>1, <2>1 DEF PayFee, Pay, ConfigRecord, Steps
<1>3. CASE exec' = [e EXCEPT !.at = "failed"]
  BY <1>1, <1>3, Failing
<1>4. CASE ~(exec' = [e EXCEPT !.at = "failed"])
  <2>1. /\ exec' \in ExecRecord
        /\ Loaded(exec') /\ Priced(exec') /\ exec'.config = config
        /\ exec'.at = "pay_keeper" /\ exec'.key = e.key /\ exec'.fee = e.fee
        /\ exec'.vault = e.vault - e.fee
        /\ exec'.lamports = Credit(e.lamports, config.fee_receiver, e.fee)
    BY <1>1, <1>2, <1>4, PaidFacts
  <2>2. exec'.vault = vault[exec'.key] - exec'.fee /\ exec'.lamports = AfterFee(exec')
    BY <1>1, <2>1 DEF Untouched, AfterFee, Priced, Amount
  <2> QED
    BY <2>1, <2>2 DEF ExecInv
<1> QED
  BY <1>3, <1>4

LEMMA PayKeeperStep ==
    ASSUME HandlerInv, PayKeeper
    PROVE  ExecInv(exec')
<1> DEFINE e == exec
<1>1. /\ exec # None /\ ExecInv(e) /\ e.at = "pay_keeper"
      /\ e.config = config /\ Priced(e)
      /\ e.vault = vault[e.key] - e.fee /\ e.lamports = AfterFee(e)
  BY DEF HandlerInv, PayKeeper, Pay, At, ExecInv
<1>2. /\ e.keeper \in Wallets /\ e.reward \in U64 /\ "pay_owner" \in Steps
      /\ exec' = Paid(e.keeper, e.reward, "pay_owner")
  BY <1>1, HwalAssumption DEF PayKeeper, Pay, ExecInv, ExecRecord, Steps
<1>3. CASE exec' = [e EXCEPT !.at = "failed"]
  BY <1>1, <1>3, Failing
<1>4. CASE ~(exec' = [e EXCEPT !.at = "failed"])
  <2>1. /\ exec' \in ExecRecord
        /\ Loaded(exec') /\ Priced(exec') /\ exec'.config = config
        /\ exec'.at = "pay_owner" /\ exec'.key = e.key /\ exec'.keeper = e.keeper
        /\ exec'.fee = e.fee /\ exec'.reward = e.reward
        /\ exec'.vault = e.vault - e.reward
        /\ exec'.lamports = Credit(e.lamports, e.keeper, e.reward)
    BY <1>1, <1>2, <1>4, PaidFacts
  <2>2. exec'.vault = vault[exec'.key] - exec'.fee - exec'.reward
    BY <1>1, <2>1
  <2>3. exec'.lamports = AfterReward(exec')
    BY <1>1, <2>1 DEF AfterFee, AfterReward, Priced, Amount
  <2> QED
    BY <2>1, <2>2, <2>3 DEF ExecInv
<1> QED
  BY <1>3, <1>4

LEMMA PayOwnerStep ==
    ASSUME HandlerInv, PayOwner
    PROVE  ExecInv(exec')
<1> DEFINE e == exec
<1>1. /\ exec # None /\ ExecInv(e) /\ e.at = "pay_owner"
      /\ e.config = config /\ Priced(e)
      /\ e.vault = vault[e.key] - e.fee - e.reward /\ e.lamports = AfterReward(e)
  BY DEF HandlerInv, PayOwner, Pay, At, ExecInv
<1>2. /\ Owner(e.key) \in Wallets /\ e.net \in U64 /\ "settle" \in Steps
      /\ exec' = Paid(Owner(e.key), e.net, "settle")
  BY <1>1, HwalAssumption DEF PayOwner, Pay, ExecInv, ExecRecord, Steps, PositionKey, Owner
<1>3. CASE exec' = [e EXCEPT !.at = "failed"]
  BY <1>1, <1>3, Failing
<1>4. CASE ~(exec' = [e EXCEPT !.at = "failed"])
  <2>1. /\ exec' \in ExecRecord
        /\ Loaded(exec') /\ Priced(exec') /\ exec'.config = config
        /\ exec'.at = "settle" /\ exec'.key = e.key /\ exec'.keeper = e.keeper
        /\ exec'.fee = e.fee /\ exec'.reward = e.reward /\ exec'.net = e.net
        /\ exec'.vault = e.vault - e.net
        /\ exec'.lamports = Credit(e.lamports, Owner(e.key), e.net)
    BY <1>1, <1>2, <1>4, PaidFacts
  <2>2. exec'.vault = vault[exec'.key] - exec'.fee - exec'.reward - exec'.net
    BY <1>1, <2>1
  <2>3. exec'.lamports = Payout(exec'.keeper, exec'.key, Amount(exec'))
    BY <1>1, <2>1 DEF AfterFee, AfterReward, Payout, Priced, Amount
  <2> QED
    BY <2>1, <2>2, <2>3 DEF ExecInv
<1> QED
  BY <1>3, <1>4

-----------------------------------------------------------------------------
(* Settling and landing *)

LEMMA BookedTyped ==
    ASSUME config \in ConfigRecord, NEW amount,
           Fee(amount) \in U64, KeeperReward(amount) \in U64
    PROVE  Booked(amount) \in ConfigRecord
<1>1. Bump(config.total_positions_triggered) \in Counter
  BY BumpIsCounter DEF ConfigRecord
<1>2. \A a, b \in U64 : SaturatingAdd(a, b, U64_MAX) \in U64
  BY LimitsAssumption DEF SaturatingAdd, U64
<1>3. /\ SaturatingAdd(config.total_fees_collected, Fee(amount), U64_MAX) \in U64
      /\ SaturatingAdd(config.total_keeper_rewards_paid, KeeperReward(amount), U64_MAX) \in U64
  BY <1>2 DEF ConfigRecord
<1> QED
  BY <1>1, <1>3 DEF Booked, ConfigRecord

LEMMA WriteStep ==
    ASSUME HandlerInv, WriteSettled
    PROVE  ExecInv(exec')
<1> DEFINE e == exec
           k == exec.key
           amount == Amount(exec)
           reason == FirstTrigger(Ticked(k), PriceOf(k))
           r == Settled(Ticked(k), STATUS_TRIGGERED, reason)
           c == Booked(amount)
<1>1. /\ exec # None /\ ExecInv(e) /\ e.at = "settle" /\ k \in PositionKey
      /\ Loaded(e) /\ e.config = config /\ Priced(e) /\ Firing(e)
      /\ e.vault = vault[k] - e.fee - e.reward - e.net
      /\ e.lamports = Payout(e.keeper, k, amount)
  BY DEF HandlerInv, WriteSettled, At, ExecInv, Priced, ExecRecord
<1>2. /\ TickReady(k) /\ e.position = Ticked(k) /\ e.trigger = reason
      /\ reason # TRIGGER_NONE
      /\ e.fee = Fee(amount) /\ e.reward = KeeperReward(amount)
      /\ e.net = NetToOwner(amount) /\ e.net >= 0
  BY <1>1 DEF Firing, Advanced, Priced
<1>3. exec' = [e EXCEPT !.at = "exit", !.position = r, !.config = c]
  <2> DEFINE written == Settled(e.position, STATUS_TRIGGERED, e.trigger)
             booked == [e.config EXCEPT
                !.total_positions_triggered = Bump(e.config.total_positions_triggered),
                !.total_fees_collected =
                    SaturatingAdd(e.config.total_fees_collected, e.fee, U64_MAX),
                !.total_keeper_rewards_paid =
                    SaturatingAdd(e.config.total_keeper_rewards_paid, e.reward, U64_MAX)]
  <2>1. exec' = [e EXCEPT !.at = "exit", !.position = written, !.config = booked]
    BY DEF WriteSettled
  <2>2. r = written
    BY <1>2
  <2>3. c = booked
    BY <1>1, <1>2 DEF Booked
  <2> HIDE DEF r, c, written, booked
  <2> QED
    BY <2>1, <2>2, <2>3
<1>4. /\ amount \in U64 /\ config \in ConfigRecord
      /\ Fee(amount) \in U64 /\ KeeperReward(amount) \in U64
  BY <1>1, <1>2, SplitFacts DEF ExecInv, ExecRecord
<1>5. r \in PositionRecord /\ c \in ConfigRecord
  <2>1. Ticked(k) \in PositionRecord /\ now \in Time
    BY <1>1, <1>2, TickedRecord DEF HandlerInv, TickReady, Inv, FeedInv, FeedTypeOK
  <2> QED
    BY <1>4, <2>1, ReasonTyped, SettledRecord, BookedTyped
<1> HIDE DEF r, c
<1>6. /\ exec' \in ExecRecord
      /\ exec'.at = "exit" /\ exec'.key = k /\ exec'.keeper = e.keeper
      /\ exec'.position = r /\ exec'.config = c
      /\ exec'.vault = e.vault /\ exec'.lamports = e.lamports
  BY <1>1, <1>3, <1>5 DEF ExecInv, ExecRecord, Steps
<1>7. e.vault = vault[k] - amount /\ vault[k] >= amount
  <2>1. e.vault \in U64 /\ vault[k] \in U64
    BY <1>1 DEF ExecInv, ExecRecord, HandlerInv, Inv, PositionInv
  <2> HIDE DEF amount
  <2> QED
    BY <1>1, <1>2, <1>4, <2>1, LimitsAssumption DEF NetToOwner, U64
<1>8. SettlementFits(e.keeper, k, amount)
  <2>1. \A w \in Wallets : Payout(e.keeper, k, amount)[w] \in U64
    BY <1>1 DEF ExecInv, ExecRecord
  <2> QED
    BY <1>2, <1>4, <1>7, <2>1 DEF SettlementFits
<1>9. Fired(exec') /\ Loaded(exec')
  <2>1. Amount(exec') = amount
    BY <1>6 DEF Amount
  <2> QED
    BY <1>1, <1>2, <1>6, <1>7, <1>8, <2>1 DEF Fired, Loaded, r, c
<1> QED
  BY <1>6, <1>9 DEF ExecInv

\* Landing the copies is the step of Hwal.
LEMMA LandStep ==
    ASSUME HandlerInv, LandTick
    PROVE  Next
<1> DEFINE e == exec
           k == exec.key
<1>1. /\ ExecInv(e) /\ e.at = "exit" /\ e.keeper \in Keepers /\ k \in PositionKey
      /\ Held(e) \/ Fired(e)
  BY DEF HandlerInv, LandTick, At, ExecInv, ExecRecord
<1>2. /\ position' = [position EXCEPT ![k] = e.position]
      /\ vault' = [vault EXCEPT ![k] = e.vault]
      /\ lamports' = e.lamports /\ config' = e.config /\ UNCHANGED feedVars
  BY DEF LandTick, LandedPosition, LandedVault
<1>3. CASE Held(e)
  <2>1. vault' = vault /\ lamports' = lamports
    BY <1>2, <1>3 DEF Held, Untouched, HandlerInv, Inv, PositionInv
  <2>2. TickHold(k)
    BY <1>2, <1>3, <2>1 DEF Held, TickHold
  <2> QED
    BY <1>1, <2>2 DEF TickPosition, Ticks, PositionOps, Next
<1>4. CASE Fired(e)
  <2>1. TickFire(e.keeper, k)
    BY <1>2, <1>4 DEF Fired, TickFire, Amount
  <2> QED
    BY <1>1, <2>1 DEF TickPosition, Ticks, PositionOps, Next
<1> QED
  BY <1>1, <1>3, <1>4

LEMMA RefuseStep ==
    ASSUME HandlerInv, RefuseTick
    PROVE  ExecInv(exec')
BY Failing DEF HandlerInv, RefuseTick, At

LEMMA HandlerStepsKeepExec ==
    ASSUME HandlerInv, HandlerSteps
    PROVE  ExecInv(exec') /\ UNCHANGED vars
<1>1. UNCHANGED vars
  BY DEF HandlerSteps, CheckAndAdvance, EvaluateTriggers, SplitCollateral,
         PayFee, PayKeeper, PayOwner, Pay, WriteSettled
<1> QED
  BY <1>1, CheckStep, EvaluateStep, SplitStep, PayFeeStep, PayKeeperStep,
     PayOwnerStep, WriteStep DEF HandlerSteps

-----------------------------------------------------------------------------
(* The invariant *)

\* While the accounts do not change, what is said of them stays true.
LEMMA ExecStable ==
    ASSUME HandlerInv, UNCHANGED vars, exec' = None \/ ExecInv(exec')
    PROVE  HandlerInv'
<1>1. Inv'
  BY InvStep DEF HandlerInv
<1>2. (exec # None => ExecInv(exec))'
  BY DEF vars, feedVars, positionVars, ExecInv, Loaded, Untouched, Advanced, Firing,
         Priced, Held, Fired, Amount, AfterFee, AfterReward, IsOpen, Fresh, Ticked,
         PriceOf, TickReady, Fee, KeeperReward, NetToOwner, Payout, Booked,
         SettlementFits, Settled
<1> QED
  BY <1>1, <1>2 DEF HandlerInv

\* Every step of the handler and of the runtime maps to a step of Hwal or to
\* a stutter.
LEMMA HandlerStep ==
    HandlerInv /\ [HandlerNext]_handlerVars => HandlerInv' /\ [Next]_vars
<1> SUFFICES ASSUME HandlerInv, [HandlerNext]_handlerVars
             PROVE  HandlerInv' /\ [Next]_vars
    OBVIOUS
<1>1. ASSUME Next, exec' = None
      PROVE  HandlerInv' /\ [Next]_vars
  BY <1>1, InvStep DEF HandlerInv
<1>2. ASSUME NEW keeper \in Keepers, NEW k \in PositionKey, BeginTick(keeper, k)
      PROVE  HandlerInv' /\ [Next]_vars
  BY <1>2, BeginStep, ExecStable DEF HandlerInv, BeginTick
<1>3. CASE HandlerSteps
  BY <1>3, HandlerStepsKeepExec, ExecStable
<1>4. CASE LandTick
  BY <1>1, <1>4, LandStep DEF LandTick
<1>5. CASE RefuseTick
  BY <1>5, RefuseStep, ExecStable DEF RefuseTick
<1>6. CASE DiscardTick
  BY <1>6, ExecStable DEF DiscardTick
<1>7. CASE Others
  BY <1>1, <1>7 DEF Others, Next, PositionOps
<1>8. CASE UNCHANGED handlerVars
  BY <1>8, ExecStable DEF handlerVars, HandlerInv
<1> QED
  BY <1>2, <1>3, <1>4, <1>5, <1>6, <1>7, <1>8 DEF HandlerNext

LEMMA HandlerStart == HandlerInit => HandlerInv /\ Init
BY InvInit DEF HandlerInit, HandlerInv

THEOREM HandlerInvariance == HandlerSpec => []HandlerInv
BY HandlerStart, HandlerStep, PTL DEF HandlerSpec

-----------------------------------------------------------------------------
(* Theorems *)

\* Accounts, copies and locals always have their types.
THEOREM HandlerTypeCorrect == HandlerSpec => []HandlerTypeOK
<1>1. HandlerInv => HandlerTypeOK
  BY DEF HandlerInv, HandlerTypeOK, ExecInv, Inv, FeedInv, PositionInv, TypeOK
<1> QED
  BY <1>1, HandlerInvariance, PTL

\* The handler, statement by statement with the runtime around it, implements
\* the one step of Hwal.
THEOREM HandlerImplementsTick == HandlerSpec => HandlerIsAtomic
BY HandlerStart, HandlerStep, HandlerInvariance, PTL DEF HandlerSpec, Spec, HandlerIsAtomic

-----------------------------------------------------------------------------
(* Why a tick fails *)

\* Owners deposit at least the minimum, and settling takes it all.
CollateralFloor ==
    \A k \in PositionKey : IsOpen(k) => position[k].collateral >= MIN_COLLATERAL_LAMPORTS

LEMMA CollateralKept ==
    ASSUME Inv, CollateralFloor, NEW k \in PositionKey, PositionOps(k), IsOpen(k)'
    PROVE  position'[k].collateral >= MIN_COLLATERAL_LAMPORTS
<1> USE DEF Inv, PositionInv
<1>1. CASE Opens(k)
  <2>1. PICK s \in Symbols, side \in 0..2, collateral \in Collaterals,
             stop \in Levels, takeProfit \in Levels, offset \in Levels :
               OpenPosition(k, s, side, collateral, stop, takeProfit, offset)
    BY <1>1 DEF Opens
  <2> DEFINE r == NewPosition(s, side, collateral, stop, takeProfit, offset)
  <2>2. /\ position' = [position EXCEPT ![k] = r] /\ r.collateral = collateral
        /\ collateral >= MIN_COLLATERAL_LAMPORTS
    BY <2>1 DEF OpenPosition, NewPosition
  <2> HIDE DEF r
  <2> QED
    BY <2>2
<1>2. CASE Retriggers(k)
  <2>1. PICK signer \in Traders, stop \in Levels, takeProfit \in Levels, offset \in Levels :
               UpdateTriggers(signer, k, stop, takeProfit, offset)
    BY <1>2 DEF Retriggers
  <2> DEFINE r == Retriggered(position[k], stop, takeProfit, offset)
  <2>2. IsOpen(k) /\ position'[k] = r
    BY <2>1 DEF UpdateTriggers
  <2>3. r.collateral = position[k].collateral
    BY <2>2 DEF IsOpen, Retriggered, PositionRecord
  <2> QED
    BY <2>2, <2>3 DEF CollateralFloor
<1>3. CASE TickHold(k)
  <2>1. IsOpen(k) /\ position'[k] = Ticked(k)
    BY <1>3 DEF TickHold, TickReady
  <2>2. Ticked(k).collateral = position[k].collateral
    BY <1>3, TickedRecord DEF TickHold, TickReady
  <2> QED
    BY <2>1, <2>2 DEF CollateralFloor
<1>4. ASSUME NEW keeper \in Keepers, TickFire(keeper, k)
      PROVE  FALSE
  BY <1>4, FireEffect, StatusCodes DEF IsOpen
<1>5. ASSUME NEW signer \in Traders, CancelPosition(signer, k)
      PROVE  FALSE
  BY <1>5, CancelEffect, StatusCodes DEF IsOpen
<1>6. ASSUME NEW signer \in Traders, NEW flag \in {0, 1}, SetDelegated(signer, k, flag)
      PROVE  position'[k].collateral >= MIN_COLLATERAL_LAMPORTS
  <2> DEFINE r == [position[k] EXCEPT !.er_delegated = flag]
  <2>1. IsOpen(k) /\ position'[k] = r
    BY <1>6 DEF SetDelegated
  <2>2. r.collateral = position[k].collateral
    BY <2>1 DEF IsOpen, PositionRecord
  <2> QED
    BY <2>1, <2>2 DEF CollateralFloor
<1>7. ASSUME NEW w \in Traders, NEW amount \in Gifts, GiftToPosition(w, k, amount)
      PROVE  position'[k].collateral >= MIN_COLLATERAL_LAMPORTS
  BY <1>7 DEF GiftToPosition, IsOpen, CollateralFloor
<1> QED
  BY <1>1, <1>2, <1>3, <1>4, <1>5, <1>6, <1>7
     DEF PositionOps, Ticks, TickPosition, OtherOps, Delegations, DelegatePosition, UndelegatePosition

LEMMA CollateralFloorStep ==
    ASSUME Inv, CollateralFloor, [Next]_vars
    PROVE  CollateralFloor'
<1> SUFFICES ASSUME NEW k \in PositionKey, IsOpen(k)'
             PROVE  position'[k].collateral >= MIN_COLLATERAL_LAMPORTS
    BY DEF CollateralFloor
<1> QED
  BY StepShape, CollateralKept DEF CollateralFloor, IsOpen

\* Crediting a wallet.
LEMMA CreditFacts ==
    ASSUME NEW b, NEW w, NEW x, NEW c,
           b \in [Wallets -> Nat], w \in Wallets, x \in Nat, c = Credit(b, w, x)
    PROVE  /\ c \in [Wallets -> Nat]
           /\ c[w] = b[w] + x
           /\ \A v \in Wallets : c[v] >= b[v] /\ (v # w \/ x = 0 => c[v] = b[v])
BY DEF Credit

\* The balances on the way to the owner's payment, of a trigger that fires.
LEMMA PayoutFacts ==
    ASSUME Inv, NEW e \in ExecRecord, IsOpen(e.key), config # None
    PROVE  LET fr  == config.fee_receiver
               fee == Fee(Amount(e))
               reward == KeeperReward(Amount(e))
               net == NetToOwner(Amount(e))
               paid == Payout(e.keeper, e.key, Amount(e))
           IN  /\ fr \in Wallets /\ e.keeper \in Wallets /\ Owner(e.key) \in Wallets
               /\ Amount(e) \in Nat /\ fee \in Nat /\ reward \in Nat /\ net \in Nat
               /\ net >= BpsOf(Amount(e), BPS_DENOMINATOR - MAX_FEE_BPS - MAX_KEEPER_REWARD_BPS)
               /\ lamports \in [Wallets -> Nat]
               /\ AfterFee(e) = Credit(lamports, fr, fee)
               /\ AfterFee(e) \in [Wallets -> Nat]
               /\ AfterReward(e) = Credit(AfterFee(e), e.keeper, reward)
               /\ AfterReward(e) \in [Wallets -> Nat]
               /\ paid = Credit(AfterReward(e), Owner(e.key), net)
               /\ paid \in [Wallets -> Nat]
<1>1. /\ e.key \in PositionKey /\ e.keeper \in Wallets /\ Owner(e.key) \in Wallets
  BY HwalAssumption DEF ExecRecord, PositionKey, Owner
<1>2. config \in ConfigRecord /\ config.fee_receiver \in Wallets
  BY DEF Inv, ConfigTypeOK, ConfigRecord
<1>3. Amount(e) \in U64 /\ Amount(e) \in Nat
  BY <1>1, LimitsAssumption DEF Inv, PositionInv, IsOpen, PositionRecord, Amount, U64
<1>4. lamports \in [Wallets -> Nat]
  BY LimitsAssumption DEF Inv, PositionInv, U64
<1>5. /\ Fee(Amount(e)) \in Nat /\ KeeperReward(Amount(e)) \in Nat
      /\ NetToOwner(Amount(e)) \in Nat
      /\ NetToOwner(Amount(e)) >=
            BpsOf(Amount(e), BPS_DENOMINATOR - MAX_FEE_BPS - MAX_KEEPER_REWARD_BPS)
  BY <1>2, <1>3, NetFloor
<1>6. AfterFee(e) = Credit(lamports, config.fee_receiver, Fee(Amount(e)))
  BY DEF AfterFee
<1>7. AfterFee(e) \in [Wallets -> Nat]
  BY <1>2, <1>4, <1>5, <1>6, CreditFacts
<1>8. AfterReward(e) = Credit(AfterFee(e), e.keeper, KeeperReward(Amount(e)))
  BY DEF AfterReward
<1>9. AfterReward(e) \in [Wallets -> Nat]
  BY <1>1, <1>5, <1>7, <1>8, CreditFacts
<1>10. Payout(e.keeper, e.key, Amount(e)) =
         Credit(AfterReward(e), Owner(e.key), NetToOwner(Amount(e)))
  BY DEF Payout, AfterReward, AfterFee
<1>11. Payout(e.keeper, e.key, Amount(e)) \in [Wallets -> Nat]
  BY <1>1, <1>5, <1>9, <1>10, CreditFacts
<1> QED
  BY <1>1, <1>2, <1>3, <1>4, <1>5, <1>6, <1>7, <1>8, <1>9, <1>10, <1>11

\* The one step of Hwal is possible: a tick by this keeper would hold or fire.
TickPossible(keeper, k) ==
    /\ TickReady(k)
    /\ \/ FirstTrigger(Ticked(k), PriceOf(k)) = TRIGGER_NONE
       \/ SettlementFits(keeper, k, position[k].collateral)

\* A tick that the one step of Hwal could make fails only for the rent of a
\* payee; this much is inductive.
PossibleTicksFailForPayees ==
    At("failed") =>
        LET amount == position[exec.key].collateral
        IN  \/ ~TickPossible(exec.keeper, exec.key)
            \/ CannotReceive(config.fee_receiver, Fee(amount))
            \/ CannotReceive(exec.keeper, KeeperReward(amount))

\* What TickPossible means for a tick whose trigger fires.
LEMMA PossibleFire ==
    ASSUME NEW e, TickPossible(e.keeper, e.key), Firing(e)
    PROVE  SettlementFits(e.keeper, e.key, Amount(e))
BY DEF TickPossible, Firing, Amount

LEMMA SplitFails ==
    ASSUME HandlerInv, SplitCollateral, TickPossible(exec.keeper, exec.key)
    PROVE  exec'.at # "failed"
<1> DEFINE amount == Amount(exec)
           fee == Fee(amount)
           reward == KeeperReward(amount)
<1>1. /\ exec # None /\ ExecInv(exec) /\ exec.at = "split"
      /\ exec.config = config /\ Firing(exec)
  BY DEF HandlerInv, SplitCollateral, At, ExecInv
<1>2. /\ exec.position.collateral = amount /\ amount \in U64
      /\ fee \in Nat /\ reward \in Nat
  BY <1>1, SplitFacts
<1>3. /\ fee \in U64 /\ reward \in U64 /\ amount - fee - reward >= 0
  BY <1>1, PossibleFire DEF SettlementFits, NetToOwner
<1>4. ~(fee \notin U64 \/ reward \notin U64 \/ fee > amount \/ reward > amount - fee)
  <2> HIDE DEF amount, fee, reward
  <2> QED
    BY <1>2, <1>3 DEF U64
<1>5. exec' = [exec EXCEPT !.at = "pay_fee", !.fee = fee, !.reward = reward,
                           !.net = amount - fee - reward]
  BY <1>1, <1>2, <1>4 DEF SplitCollateral, Unless, Fee, KeeperReward
<1> QED
  BY <1>1, <1>5 DEF ExecInv, ExecRecord

LEMMA CheckFails ==
    ASSUME HandlerInv, CheckAndAdvance, TickPossible(exec.keeper, exec.key)
    PROVE  exec'.at # "failed"
<1>1. /\ ExecInv(exec) /\ exec.at = "check" /\ exec.position = position[exec.key]
      /\ TickReady(exec.key)
  BY DEF HandlerInv, CheckAndAdvance, At, ExecInv, TickPossible
<1>2. ~(exec.position.status # STATUS_OPEN \/ ~Fresh(exec.position.feed))
  BY <1>1 DEF TickReady, IsOpen
<1> DEFINE q == Ticked(exec.key)
<1>3. exec' = [exec EXCEPT !.at = "evaluate", !.position = q]
  BY <1>1, <1>2 DEF CheckAndAdvance, Unless, Ticked, PriceOf
<1> HIDE DEF q
<1> QED
  BY <1>1, <1>3 DEF ExecInv, ExecRecord

LEMMA EvaluateFails ==
    ASSUME HandlerInv, EvaluateTriggers, TickPossible(exec.keeper, exec.key)
    PROVE  exec'.at # "failed"
<1> DEFINE k == exec.key
           price == PriceOf(k)
<1>1. /\ ExecInv(exec) /\ exec.at = "evaluate" /\ k \in PositionKey
      /\ Advanced(exec) /\ TickReady(k)
  BY DEF HandlerInv, EvaluateTriggers, At, ExecInv, TickPossible, ExecRecord
<1>2. position[k] \in PositionRecord
  BY <1>1 DEF Advanced, HandlerInv, Inv, PositionInv, IsOpen
<1>3. exec.position = Ticked(k) /\ exec.position.feed = position[k].feed
  BY <1>1, <1>2 DEF Advanced, Ticked, PositionRecord
<1>4. feed[exec.position.feed].price = price /\ ~ThresholdFails(exec.position, price)
  BY <1>1, <1>3 DEF TickReady, PriceOf
<1> DEFINE first == FirstTrigger(exec.position, price)
           at == IF first = TRIGGER_NONE THEN "exit" ELSE "split"
<1>5. exec' = [exec EXCEPT !.trigger = first, !.at = at]
  BY <1>4 DEF EvaluateTriggers, Unless
<1> HIDE DEF first
<1> QED
  BY <1>1, <1>5 DEF ExecInv, ExecRecord

\* A payment out of enough to a wallet with room for it.
LEMMA PaidSucceeds ==
    ASSUME exec \in ExecRecord, NEW w, NEW amount, NEW next, next # "failed",
           exec' = Paid(w, amount, next),
           ~(exec.vault < amount), exec.lamports[w] + amount \in U64
    PROVE  exec'.at # "failed"
<1> DEFINE left == exec.vault - amount
           paid == Credit(exec.lamports, w, amount)
<1>1. exec' = [exec EXCEPT !.at = next, !.vault = left, !.lamports = paid]
  BY DEF Paid, Unless
<1> HIDE DEF left, paid
<1> QED
  BY <1>1 DEF ExecRecord

\* What a payment finds, when the settlement as a whole fits.
LEMMA PayingFacts ==
    ASSUME HandlerInv, exec # None, Priced(exec), TickPossible(exec.keeper, exec.key)
    PROVE  LET e == exec
               paid == Payout(e.keeper, e.key, Amount(e))
           IN  /\ IsOpen(e.key) /\ config # None /\ exec \in ExecRecord
               /\ e.fee \in Nat /\ e.reward \in Nat /\ e.net \in Nat
               /\ vault[e.key] \in Nat
               /\ vault[e.key] >= e.fee + e.reward + e.net
               /\ \A w \in Wallets : paid[w] \in U64
               /\ \A w \in Wallets : /\ AfterFee(e)[w] <= AfterReward(e)[w]
                                      /\ AfterReward(e)[w] <= paid[w]
<1> DEFINE e == exec
           paid == Payout(e.keeper, e.key, Amount(e))
<1>1. /\ IsOpen(e.key) /\ config # None /\ e \in ExecRecord
      /\ e.key \in PositionKey /\ Inv
  BY DEF HandlerInv, ExecInv, Loaded, Priced, Firing, Advanced, ExecRecord
<1>2. SettlementFits(e.keeper, e.key, Amount(e))
  BY PossibleFire DEF Priced
<1>3. /\ e.fee = Fee(Amount(e)) /\ e.reward = KeeperReward(Amount(e))
      /\ e.net = NetToOwner(Amount(e)) /\ Amount(e) \in Nat
      /\ e.fee \in Nat /\ e.reward \in Nat /\ e.net \in Nat
  BY <1>1, PayoutFacts DEF Priced
<1>4. vault[e.key] \in Nat /\ vault[e.key] >= e.fee + e.reward + e.net
  <2>1. vault[e.key] \in Nat
    BY <1>1, LimitsAssumption DEF Inv, PositionInv, U64
  <2>2. vault[e.key] >= Amount(e)
    BY <1>2 DEF SettlementFits
  <2>3. e.net = Amount(e) - e.fee - e.reward
    BY <1>3 DEF NetToOwner
  <2> QED
    BY <1>3, <2>1, <2>2, <2>3
<1>5. \A w \in Wallets : paid[w] \in U64
  BY <1>2 DEF SettlementFits
<1>6. ASSUME NEW w \in Wallets
      PROVE  AfterFee(e)[w] <= AfterReward(e)[w] /\ AfterReward(e)[w] <= paid[w]
  <2>1. /\ AfterFee(e) \in [Wallets -> Nat] /\ AfterReward(e) \in [Wallets -> Nat]
        /\ paid \in [Wallets -> Nat]
        /\ AfterReward(e) = Credit(AfterFee(e), e.keeper, e.reward)
        /\ paid = Credit(AfterReward(e), Owner(e.key), e.net)
        /\ e.keeper \in Wallets /\ Owner(e.key) \in Wallets
    BY <1>1, <1>3, PayoutFacts
  <2> HIDE DEF paid
  <2>2. AfterReward(e)[w] >= AfterFee(e)[w]
    BY <1>3, <2>1, CreditFacts
  <2>3. paid[w] >= AfterReward(e)[w]
    BY <1>3, <2>1, CreditFacts
  <2> QED
    BY <2>1, <2>2, <2>3
<1> QED
  BY <1>1, <1>3, <1>4, <1>5, <1>6

LEMMA PayFeeFails ==
    ASSUME HandlerInv, PayFee, TickPossible(exec.keeper, exec.key)
    PROVE  exec'.at # "failed"
<1> DEFINE e == exec
           w == config.fee_receiver
           paid == Payout(e.keeper, e.key, Amount(e))
<1>1. /\ exec # None /\ e.config = config /\ Untouched(e) /\ Priced(e)
  BY DEF HandlerInv, PayFee, Pay, At, ExecInv
<1>2. exec' = Paid(w, e.fee, "pay_keeper")
  BY <1>1 DEF PayFee, Pay
<1>3. /\ IsOpen(e.key) /\ config # None /\ e \in ExecRecord
      /\ e.fee \in Nat /\ e.reward \in Nat /\ e.net \in Nat
      /\ vault[e.key] \in Nat /\ vault[e.key] >= e.fee + e.reward + e.net
      /\ \A v \in Wallets : paid[v] \in U64
      /\ \A v \in Wallets : AfterFee(e)[v] <= AfterReward(e)[v] /\ AfterReward(e)[v] <= paid[v]
  BY <1>1, PayingFacts
<1>4. /\ w \in Wallets /\ lamports \in [Wallets -> Nat]
      /\ AfterFee(e) = Credit(lamports, w, e.fee)
      /\ AfterReward(e) \in [Wallets -> Nat] /\ AfterFee(e) \in [Wallets -> Nat]
  BY <1>1, <1>3, PayoutFacts DEF HandlerInv, Priced
<1> HIDE DEF paid, w
<1>5. AfterFee(e)[w] = lamports[w] + e.fee
  BY <1>3, <1>4, CreditFacts
<1>6. /\ paid[w] \in U64 /\ AfterFee(e)[w] <= AfterReward(e)[w]
      /\ AfterReward(e)[w] <= paid[w]
      /\ AfterFee(e)[w] \in Nat /\ AfterReward(e)[w] \in Nat
  BY <1>3, <1>4
<1>7. e.lamports[w] + e.fee \in U64 /\ ~(e.vault < e.fee)
  <2>1. AfterFee(e)[w] \in U64
    BY <1>6, LimitsAssumption DEF U64
  <2> QED
    BY <1>1, <1>3, <1>5, <2>1 DEF Untouched
<1> QED
  BY <1>2, <1>3, <1>7, PaidSucceeds

LEMMA PayKeeperFails ==
    ASSUME HandlerInv, PayKeeper, TickPossible(exec.keeper, exec.key)
    PROVE  exec'.at # "failed"
<1> DEFINE e == exec
           w == exec.keeper
           paid == Payout(e.keeper, e.key, Amount(e))
<1>1. /\ exec # None /\ e.config = config /\ Priced(e)
      /\ e.vault = vault[e.key] - e.fee /\ e.lamports = AfterFee(e)
  BY DEF HandlerInv, PayKeeper, Pay, At, ExecInv
<1>2. exec' = Paid(w, e.reward, "pay_owner")
  BY DEF PayKeeper, Pay
<1>3. /\ IsOpen(e.key) /\ config # None /\ e \in ExecRecord
      /\ e.fee \in Nat /\ e.reward \in Nat /\ e.net \in Nat
      /\ vault[e.key] \in Nat /\ vault[e.key] >= e.fee + e.reward + e.net
      /\ \A v \in Wallets : paid[v] \in U64
      /\ \A v \in Wallets : AfterFee(e)[v] <= AfterReward(e)[v] /\ AfterReward(e)[v] <= paid[v]
  BY <1>1, PayingFacts
<1>4. /\ w \in Wallets /\ AfterFee(e) \in [Wallets -> Nat]
      /\ AfterReward(e) = Credit(AfterFee(e), w, e.reward)
      /\ AfterReward(e) \in [Wallets -> Nat]
  BY <1>1, <1>3, PayoutFacts DEF HandlerInv, Priced
<1> HIDE DEF paid, w
<1>5. AfterReward(e)[w] = AfterFee(e)[w] + e.reward
  BY <1>3, <1>4, CreditFacts
<1>6. /\ paid[w] \in U64 /\ AfterReward(e)[w] <= paid[w]
      /\ AfterReward(e)[w] \in Nat
  BY <1>3, <1>4
<1>7. e.lamports[w] + e.reward \in U64 /\ ~(e.vault < e.reward)
  <2>1. AfterReward(e)[w] \in U64
    BY <1>6, LimitsAssumption DEF U64
  <2> QED
    BY <1>1, <1>3, <1>5, <2>1
<1> QED
  BY <1>2, <1>3, <1>7, PaidSucceeds

LEMMA PayOwnerFails ==
    ASSUME HandlerInv, PayOwner, TickPossible(exec.keeper, exec.key)
    PROVE  exec'.at # "failed"
<1> DEFINE e == exec
           w == Owner(exec.key)
           paid == Payout(e.keeper, e.key, Amount(e))
<1>1. /\ exec # None /\ e.config = config /\ Priced(e)
      /\ e.vault = vault[e.key] - e.fee - e.reward /\ e.lamports = AfterReward(e)
  BY DEF HandlerInv, PayOwner, Pay, At, ExecInv
<1>2. exec' = Paid(w, e.net, "settle")
  BY DEF PayOwner, Pay
<1>3. /\ IsOpen(e.key) /\ config # None /\ e \in ExecRecord
      /\ e.fee \in Nat /\ e.reward \in Nat /\ e.net \in Nat
      /\ vault[e.key] \in Nat /\ vault[e.key] >= e.fee + e.reward + e.net
      /\ \A v \in Wallets : paid[v] \in U64
  BY <1>1, PayingFacts
<1>4. /\ w \in Wallets /\ AfterReward(e) \in [Wallets -> Nat]
      /\ paid = Credit(AfterReward(e), w, e.net)
  BY <1>1, <1>3, PayoutFacts DEF HandlerInv, Priced
<1> HIDE DEF paid, w
<1>5. paid[w] = AfterReward(e)[w] + e.net
  BY <1>3, <1>4, CreditFacts
<1>7. e.lamports[w] + e.net \in U64 /\ ~(e.vault < e.net)
  BY <1>1, <1>3, <1>4, <1>5
<1> QED
  BY <1>2, <1>3, <1>7, PaidSucceeds

-----------------------------------------------------------------------------
(* What the runtime refuses *)

\* A balance that did not change is allowed.
LEMMA UnchangedAllowed ==
    ASSUME NEW minimum \in Nat, NEW x \in Nat
    PROVE  RentStateAllowed(minimum, x, x)
BY DEF RentStateAllowed

\* The owner's share alone makes a wallet rent-exempt.
LEMMA OwnerShareCoversRent ==
    ASSUME Inv, CollateralFloor, NEW e \in ExecRecord, IsOpen(e.key), config # None
    PROVE  NetToOwner(Amount(e)) >= WALLET_RENT
<1> DEFINE g == BPS_DENOMINATOR - MAX_FEE_BPS - MAX_KEEPER_REWARD_BPS
           D == BPS_DENOMINATOR
           amount == Amount(e)
           least == MIN_COLLATERAL_LAMPORTS
<1>1. /\ amount \in Nat /\ NetToOwner(amount) \in Nat
      /\ NetToOwner(amount) >= BpsOf(amount, g)
  BY PayoutFacts
<1>2. least \in Nat /\ amount >= least
  BY LimitsAssumption, HwalAssumption DEF CollateralFloor, ExecRecord, Amount, U64
<1>3. g \in Nat /\ D \in Nat /\ D > 0
  BY LimitsAssumption
<1>4. WALLET_RENT \in Nat /\ WALLET_RENT <= BpsOf(least, g)
  BY WalletRentAssumption
<1>5. BpsOf(least, g) \in Nat /\ BpsOf(amount, g) \in Nat
  <2> HIDE DEF amount, g
  <2> QED
    BY <1>1, <1>2, <1>3, BpsRounding
<1>6. BpsOf(least, g) <= BpsOf(amount, g)
  <2> DEFINE x == least * g
             y == amount * g
  <2> HIDE DEF g, amount, least, D
  <2>1. g * least <= g * amount
    BY <1>1, <1>2, <1>3, TimesMonotone
  <2>2. x \in Nat /\ y \in Nat /\ x <= y
    BY <1>1, <1>2, <1>3, <2>1
  <2> HIDE DEF x, y
  <2>3. x \div D <= y \div D
    BY <1>3, <2>2, Z3
  <2> QED
    BY <2>3 DEF x, y, D, BpsOf
<1> HIDE DEF g, amount, least
<1>7. NetToOwner(amount) >= WALLET_RENT
  BY <1>1, <1>4, <1>5, <1>6
<1> QED
  BY <1>7 DEF amount

\* Of a fired trigger only a fee receiver or a keeper can stay too poor.
LEMMA FiredBalanceAllowed ==
    ASSUME Inv, CollateralFloor, NEW e \in ExecRecord, IsOpen(e.key), config # None,
           ~CannotReceive(config.fee_receiver, Fee(Amount(e))),
           ~CannotReceive(e.keeper, KeeperReward(Amount(e))),
           NEW w \in Wallets
    PROVE  RentStateAllowed(WALLET_RENT, lamports[w], Payout(e.keeper, e.key, Amount(e))[w])
<1> DEFINE fr == config.fee_receiver
           kp == e.keeper
           ow == Owner(e.key)
           fee == Fee(Amount(e))
           reward == KeeperReward(Amount(e))
           net == NetToOwner(Amount(e))
           b1 == AfterFee(e)
           b2 == AfterReward(e)
           b3 == Payout(e.keeper, e.key, Amount(e))
<1>1. /\ fr \in Wallets /\ kp \in Wallets /\ ow \in Wallets
      /\ fee \in Nat /\ reward \in Nat /\ net \in Nat
      /\ lamports \in [Wallets -> Nat]
      /\ b1 = Credit(lamports, fr, fee) /\ b1 \in [Wallets -> Nat]
      /\ b2 = Credit(b1, kp, reward) /\ b2 \in [Wallets -> Nat]
      /\ b3 = Credit(b2, ow, net) /\ b3 \in [Wallets -> Nat]
  BY PayoutFacts
<1>2. net >= WALLET_RENT /\ WALLET_RENT \in Nat
  BY OwnerShareCoversRent, WalletRentAssumption
<1>3. /\ fee = 0 \/ lamports[fr] + fee >= WALLET_RENT
      /\ reward = 0 \/ lamports[kp] + reward >= WALLET_RENT
  <2>1. ~(0 < fee /\ lamports[fr] + fee < WALLET_RENT)
    BY DEF CannotReceive
  <2>2. ~(0 < reward /\ lamports[kp] + reward < WALLET_RENT)
    BY DEF CannotReceive
  <2> HIDE DEF fr, kp, fee, reward
  <2>3. lamports[fr] \in Nat /\ lamports[kp] \in Nat
    BY <1>1
  <2> QED
    BY <1>1, <1>2, <2>1, <2>2, <2>3
<1> HIDE DEF fr, kp, ow, fee, reward, net, b1, b2, b3
<1>4. /\ b1[fr] = lamports[fr] + fee
      /\ b1[w] >= lamports[w] /\ (w # fr \/ fee = 0 => b1[w] = lamports[w])
  BY <1>1, CreditFacts
<1>5. /\ b2[kp] = b1[kp] + reward
      /\ b2[w] >= b1[w] /\ (w # kp \/ reward = 0 => b2[w] = b1[w])
  BY <1>1, CreditFacts
<1>6. /\ b3[ow] = b2[ow] + net
      /\ b3[w] >= b2[w] /\ (w # ow \/ net = 0 => b3[w] = b2[w])
  BY <1>1, CreditFacts
<1>7. /\ lamports[w] \in Nat /\ b1[w] \in Nat /\ b2[w] \in Nat /\ b3[w] \in Nat
      /\ b1[kp] >= lamports[kp] /\ b1[kp] \in Nat /\ lamports[kp] \in Nat
      /\ b2[ow] \in Nat
  BY <1>1, CreditFacts
<1>8. b3[w] >= WALLET_RENT \/ b3[w] = lamports[w]
  <2>1. CASE w = ow
    BY <1>1, <1>2, <1>6, <1>7, <2>1
  <2>2. CASE w # ow /\ w = kp /\ reward # 0
    BY <1>1, <1>2, <1>3, <1>5, <1>6, <1>7, <2>2
  <2>3. CASE w # ow /\ (w # kp \/ reward = 0) /\ w = fr /\ fee # 0
    BY <1>1, <1>2, <1>3, <1>4, <1>5, <1>6, <1>7, <2>3
  <2>4. CASE w # ow /\ (w # kp \/ reward = 0) /\ (w # fr \/ fee = 0)
    BY <1>4, <1>5, <1>6, <2>4
  <2> QED
    BY <2>1, <2>2, <2>3, <2>4
<1>9. RentStateAllowed(WALLET_RENT, lamports[w], b3[w])
  BY <1>2, <1>7, <1>8, UnchangedAllowed DEF RentStateAllowed
<1> QED
  BY <1>9 DEF b3

LEMMA RefuseFails ==
    ASSUME HandlerInv, CollateralFloor, RefuseTick,
           ~CannotReceive(config.fee_receiver, Fee(Amount(exec))),
           ~CannotReceive(exec.keeper, KeeperReward(Amount(exec)))
    PROVE  FALSE
<1> DEFINE e == exec
           k == exec.key
<1>1. /\ e \in ExecRecord /\ k \in PositionKey
      /\ Held(e) \/ Fired(e)
      /\ config # None /\ Inv
  BY DEF HandlerInv, RefuseTick, At, ExecInv, ExecRecord, Loaded
<1>2. IsOpen(k) /\ position[k] # None
  BY <1>1 DEF Held, Fired, TickReady, IsOpen
<1>3. /\ RENT \in Nat /\ WALLET_RENT \in Nat
      /\ \A w \in Wallets : lamports[w] \in Nat
      /\ \A j \in PositionKey : vault[j] \in Nat
  BY <1>1, LimitsAssumption, HwalAssumption, WalletRentAssumption DEF Inv, PositionInv, U64
<1>4. \A w \in Wallets : RentStateAllowed(WALLET_RENT, lamports[w], e.lamports[w])
  <2> TAKE w \in Wallets
  <2>1. CASE Held(e)
    BY <1>3, <2>1, UnchangedAllowed DEF Held, Untouched
  <2>2. CASE Fired(e)
    BY <1>1, <1>2, <2>2, FiredBalanceAllowed DEF Fired
  <2> QED
    BY <1>1, <2>1, <2>2
<1>5. e.vault = vault[k] \/ e.vault >= RENT
  <2>1. CASE Held(e)
    BY <2>1 DEF Held, Untouched
  <2>2. CASE Fired(e)
    <3>1. vault[k] >= Amount(e) + RENT /\ Amount(e) \in Nat
      BY <1>1, <1>2, LimitsAssumption
         DEF Inv, PositionInv, Solvent, Amount, PositionRecord, U64
    <3>2. e.vault = vault[k] - Amount(e)
      BY <2>2 DEF Fired
    <3> QED
      BY <1>1, <1>3, <3>1, <3>2
  <2> QED
    BY <1>1, <2>1, <2>2
<1>6. \A j \in PositionKey :
        RentStateAllowed(IF LandedPosition[j] = None THEN WALLET_RENT ELSE RENT,
                         vault[j], LandedVault[j])
  <2> TAKE j \in PositionKey
  <2> DEFINE minimum == IF LandedPosition[j] = None THEN WALLET_RENT ELSE RENT
  <2>1. minimum \in Nat
    BY <1>3
  <2>2. CASE j # k
    <3>1. LandedVault[j] = vault[j]
      BY <1>1, <2>2 DEF LandedVault, Inv, PositionInv
    <3> HIDE DEF minimum
    <3>2. RentStateAllowed(minimum, vault[j], vault[j])
      BY <1>3, <2>1, UnchangedAllowed
    <3> QED
      BY <3>1, <3>2 DEF minimum
  <2>3. CASE j = k
    <3>1. LandedVault[j] = e.vault /\ LandedPosition[j] = e.position
      BY <1>1, <2>3 DEF LandedVault, LandedPosition, Inv, PositionInv
    <3>2. e.position # None
      BY <1>1, NoneAssumption DEF ExecRecord
    <3>3. minimum = RENT
      BY <3>1, <3>2
    <3> HIDE DEF minimum
    <3>4. RentStateAllowed(RENT, vault[k], e.vault)
      <4>1. CASE e.vault = vault[k]
        BY <1>1, <1>3, <4>1, UnchangedAllowed
      <4>2. CASE e.vault >= RENT
        BY <4>2 DEF RentStateAllowed
      <4> QED
        BY <1>5, <4>1, <4>2
    <3> QED
      BY <2>3, <3>1, <3>3, <3>4 DEF minimum
  <2> QED
    BY <2>2, <2>3
<1> QED
  BY <1>4, <1>6 DEF RefuseTick, RentStatesAllowed

-----------------------------------------------------------------------------
LEMMA HandlerStepsKeepKey ==
    ASSUME HandlerInv, HandlerSteps
    PROVE  exec'.keeper = exec.keeper /\ exec'.key = exec.key
<1>1. exec # None /\ exec \in ExecRecord
  BY DEF HandlerInv, ExecInv, HandlerSteps, CheckAndAdvance, EvaluateTriggers,
         SplitCollateral, PayFee, PayKeeper, PayOwner, Pay, WriteSettled, At
<1>2. ASSUME NEW error, NEW f, f.keeper = exec.keeper, f.key = exec.key,
             exec' = Unless(error, f)
      PROVE  exec'.keeper = exec.keeper /\ exec'.key = exec.key
  <2>1. exec' = f \/ exec' = [exec EXCEPT !.at = "failed"]
    BY <1>2 DEF Unless
  <2> QED
    BY <1>1, <1>2, <2>1 DEF ExecRecord
<1>3. CASE CheckAndAdvance
  BY <1>1, <1>2, <1>3 DEF CheckAndAdvance, ExecRecord
<1>4. CASE EvaluateTriggers
  <2> DEFINE first == FirstTrigger(exec.position, feed[exec.position.feed].price)
             at == IF first = TRIGGER_NONE THEN "exit" ELSE "split"
             f == [exec EXCEPT !.trigger = first, !.at = at]
  <2>1. f.keeper = exec.keeper /\ f.key = exec.key
    BY <1>1 DEF ExecRecord
  <2>2. exec' = Unless(ThresholdFails(exec.position, feed[exec.position.feed].price), f)
    BY <1>4 DEF EvaluateTriggers
  <2> HIDE DEF f
  <2> QED
    BY <1>2, <2>1, <2>2
<1>5. CASE SplitCollateral
  BY <1>1, <1>2, <1>5 DEF SplitCollateral, ExecRecord
<1>6. ASSUME NEW w, NEW amount, NEW next, exec' = Paid(w, amount, next)
      PROVE  exec'.keeper = exec.keeper /\ exec'.key = exec.key
  BY <1>1, <1>2, <1>6 DEF Paid, ExecRecord
<1>7. CASE WriteSettled
  BY <1>1, <1>7 DEF WriteSettled, ExecRecord
<1> QED
  BY <1>3, <1>4, <1>5, <1>6, <1>7 DEF HandlerSteps, PayFee, PayKeeper, PayOwner, Pay

LEMMA WriteNeverFails ==
    ASSUME HandlerInv, WriteSettled
    PROVE  exec'.at # "failed"
BY DEF HandlerInv, WriteSettled, At, ExecInv, ExecRecord

FailureInv == HandlerInv /\ CollateralFloor /\ PossibleTicksFailForPayees

LEMMA FailureStep == FailureInv /\ [HandlerNext]_handlerVars => FailureInv'
<1> SUFFICES ASSUME FailureInv, [HandlerNext]_handlerVars
             PROVE  FailureInv'
    OBVIOUS
<1>1. HandlerInv' /\ [Next]_vars
  BY HandlerStep DEF FailureInv
<1>2. CollateralFloor'
  BY <1>1, CollateralFloorStep DEF FailureInv, HandlerInv
<1> DEFINE Why(e) == \/ ~TickPossible(e.keeper, e.key)
                     \/ CannotReceive(config.fee_receiver, Fee(Amount(e)))
                     \/ CannotReceive(e.keeper, KeeperReward(Amount(e)))
<1>3. ASSUME UNCHANGED vars, exec' # None, exec'.at = "failed" => Why(exec')
      PROVE  PossibleTicksFailForPayees'
  BY <1>3 DEF PossibleTicksFailForPayees, At, TickPossible, TickReady, CannotReceive,
              vars, feedVars, positionVars, IsOpen, Fresh, Ticked, PriceOf, Amount,
              Fee, KeeperReward, NetToOwner, Payout, SettlementFits
<1>4. ASSUME exec' = None
      PROVE  PossibleTicksFailForPayees'
  BY <1>4 DEF PossibleTicksFailForPayees, At
<1>5. ASSUME NEW keeper \in Keepers, NEW k \in PositionKey, BeginTick(keeper, k)
      PROVE  PossibleTicksFailForPayees'
  <2>1. UNCHANGED vars /\ exec'.at = "check"
    BY <1>5 DEF BeginTick
  <2> QED
    BY <1>3, <1>4, <2>1
<1>6. ASSUME HandlerSteps
      PROVE  PossibleTicksFailForPayees'
  <2>1. UNCHANGED vars /\ exec'.keeper = exec.keeper /\ exec'.key = exec.key
    BY <1>6, HandlerStepsKeepExec, HandlerStepsKeepKey DEF FailureInv
  <2>2. TickPossible(exec.keeper, exec.key) => exec'.at # "failed"
    BY <1>6, CheckFails, EvaluateFails, SplitFails, PayFeeFails, PayKeeperFails,
       PayOwnerFails, WriteNeverFails DEF HandlerSteps, FailureInv
  <2> QED
    BY <1>3, <1>4, <2>1, <2>2
<1>7. ASSUME RefuseTick
      PROVE  PossibleTicksFailForPayees'
  <2>1. /\ UNCHANGED vars /\ exec # None /\ exec \in ExecRecord
        /\ exec' = [exec EXCEPT !.at = "failed"]
    BY <1>7 DEF RefuseTick, FailureInv, HandlerInv, At, ExecInv
  <2>2. exec'.keeper = exec.keeper /\ Amount(exec') = Amount(exec)
    BY <2>1 DEF ExecRecord, Amount
  <2>3. Why(exec')
    BY <1>7, <2>2, RefuseFails DEF FailureInv
  <2> QED
    BY <1>3, <1>4, <2>1, <2>3
<1>8. ASSUME LandTick \/ DiscardTick \/ Others
      PROVE  PossibleTicksFailForPayees'
  BY <1>4, <1>8 DEF LandTick, DiscardTick, Others
<1>9. ASSUME UNCHANGED handlerVars
      PROVE  PossibleTicksFailForPayees'
  <2>1. UNCHANGED vars /\ exec' = exec
    BY <1>9 DEF handlerVars
  <2>2. exec # None /\ exec.at = "failed" => Why(exec)
    BY DEF FailureInv, PossibleTicksFailForPayees, At, Amount
  <2> QED
    BY <1>3, <1>4, <2>1, <2>2
<1> QED
  BY <1>1, <1>2, <1>5, <1>6, <1>7, <1>8, <1>9 DEF HandlerNext, FailureInv

LEMMA FailuresExplained == HandlerSpec => []FailureInv
<1>1. HandlerInit => FailureInv
  BY HandlerStart DEF HandlerInit, Init, IsOpen, FailureInv, CollateralFloor,
                      PossibleTicksFailForPayees, At
<1> QED
  BY <1>1, FailureStep, PTL DEF HandlerSpec

-----------------------------------------------------------------------------
(* What the program's theorems say of the handler *)

\* No lamport is created or lost by the handler's three transfers and its
\* write-back, wherever it fails and whoever the payees are.
THEOREM HandlerConserves == HandlerSpec => []LamportsConserved
BY HandlerImplementsTick, ConservedAlways DEF HandlerIsAtomic

\* Between any two statements of a tick, every open position can be settled.
THEOREM HandlerNeverStuck == HandlerSpec => []NeverStuck
BY HandlerImplementsTick, SettlementNeverStuck DEF HandlerIsAtomic

\* A handler that fails half-way pays nothing, and one that succeeds pays the
\* collateral once: the promise of Escrow holds of the statements too.
THEOREM HandlerKeepsEscrow == HandlerSpec => EscrowIsKept
BY HandlerImplementsTick, EscrowImplemented DEF HandlerIsAtomic

\* A ready tick is one the program could make: its settlement always fits.
LEMMA ReadyTicksArePossible ==
    ASSUME HandlerInv, LamportsConserved, exec # None, TickReady(exec.key)
    PROVE  TickPossible(exec.keeper, exec.key)
<1>1. Inv /\ exec.key \in PositionKey /\ exec.keeper \in Keepers
  BY DEF HandlerInv, ExecInv, ExecRecord
<1>2. config # None /\ IsOpen(exec.key)
  BY DEF TickReady
<1> QED
  BY <1>1, <1>2, SettlementAlwaysFits DEF TickPossible

\* A tick that was begun is ready but for its status, its feed's age and a
\* threshold beyond a u64.
LEMMA BegunTicksAreReady ==
    ASSUME HandlerInv, exec # None, IsOpen(exec.key),
           Fresh(position[exec.key].feed), ~ThresholdOverflows(position[exec.key])
    PROVE  TickReady(exec.key)
<1> DEFINE k == exec.key
           p == position[k]
           price == PriceOf(k)
           e == AdvancedExtreme(p, price)
<1>1. /\ Inv /\ k \in PositionKey
      /\ config # None /\ feed[p.feed] # None
  BY DEF HandlerInv, ExecInv, ExecRecord, Loaded
<1>2. p \in PositionRecord /\ feed[p.feed] \in PriceFeedRecord
  BY <1>1 DEF Inv, PositionInv, IsOpen, FeedInv, FeedTypeOK, PositionRecord
<1>3. price \in U64 \ {0}
  BY <1>2 DEF PriceOf, PriceFeedRecord
<1>4. ~ThresholdFails([p EXCEPT !.trailing_extreme = e], price)
  BY <1>1, <1>3, ThresholdSafe DEF ThresholdOverflows
<1>5. ~ThresholdFails(Ticked(k), price)
  <2> DEFINE q == [p EXCEPT !.trailing_extreme = e]
             t == Ticked(k)
  <2>1. /\ t.side = q.side /\ t.stop_price = q.stop_price
        /\ t.take_profit_price = q.take_profit_price
        /\ t.trailing_offset = q.trailing_offset
        /\ t.trailing_extreme = q.trailing_extreme
    BY <1>2 DEF Ticked, PositionRecord
  <2>2. ~ThresholdFails(q, price)
    BY <1>4
  <2> HIDE DEF q, t, price
  <2>3. ~ThresholdFails(t, price)
    BY <2>1, <2>2 DEF ThresholdFails, StopHit, TakeProfitHit, TrailingThreshold
  <2> QED
    BY <2>3 DEF t
<1> QED
  BY <1>1, <1>5 DEF TickReady

\* A tick of an open position with a fresh feed fails for no reason but a
\* payee too empty to keep its share, or a threshold beyond a u64: that no
\* balance can overflow is the conservation of lamports, and that the vault
\* can pay is the solvency of the program.
THEOREM EmptyPayeesOnly == HandlerSpec => []TicksFailOnlyForEmptyPayees
<1>1. FailureInv /\ LamportsConserved => TicksFailOnlyForEmptyPayees
  <2> SUFFICES ASSUME FailureInv, LamportsConserved, At("failed"),
                      IsOpen(exec.key), Fresh(position[exec.key].feed),
                      ~ThresholdOverflows(position[exec.key])
               PROVE  LET amount == position[exec.key].collateral
                      IN  \/ CannotReceive(config.fee_receiver, Fee(amount))
                          \/ CannotReceive(exec.keeper, KeeperReward(amount))
      BY DEF TicksFailOnlyForEmptyPayees
  <2>1. HandlerInv /\ exec # None
    BY DEF FailureInv, At
  <2>2. TickPossible(exec.keeper, exec.key)
    BY <2>1, BegunTicksAreReady, ReadyTicksArePossible
  <2> QED
    BY <2>2 DEF FailureInv, PossibleTicksFailForPayees
<1> QED
  BY <1>1, FailuresExplained, HandlerConserves, PTL
=============================================================================
