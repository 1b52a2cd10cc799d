-------------------------- MODULE HwalEscrow_proofs -------------------------
(***************************************************************************)
(* The program implements the escrow it promises: every behaviour of Spec  *)
(* is, through the mapping of HwalEscrow, a behaviour of Escrow, for all   *)
(* values of the constants.                                                *)
(***************************************************************************)
EXTENDS HwalEscrow, Hwal_proofs

USE HwalAssumption, NoneAssumption

-----------------------------------------------------------------------------
(* The mapping *)

\* A changed position moves its own stage and stake and no others.
LEMMA MappedChange ==
    ASSUME NEW k \in PositionKey,
           \A j \in PositionKey : j # k => position'[j] = position[j]
    PROVE  /\ Stage' = [Stage EXCEPT ![k] = StageOf(position'[k])]
           /\ Stake' = [Stake EXCEPT ![k] = StakeOf(position'[k])]
BY DEF Stage, Stake

LEMMA MappedSame ==
    ASSUME UNCHANGED position
    PROVE  UNCHANGED <<Stage, Stake>>
BY DEF Stage, Stake

LEMMA StageOfRecord ==
    ASSUME NEW r \in PositionRecord
    PROVE  /\ StakeOf(r) = r.collateral
           /\ r.status = STATUS_OPEN => StageOf(r) = "held"
           /\ r.status = STATUS_TRIGGERED => StageOf(r) = "fired"
           /\ r.status = STATUS_CANCELLED => StageOf(r) = "returned"
BY DEF StageOf, StakeOf, STATUS_OPEN, STATUS_TRIGGERED, STATUS_CANCELLED

LEMMA MappedAt ==
    ASSUME Inv, NEW k \in PositionKey
    PROVE  /\ position[k] = None => Stage[k] = "absent"
           /\ IsOpen(k) => /\ position[k] \in PositionRecord
                           /\ Stage[k] = "held"
                           /\ Stake[k] = position[k].collateral
<1>1. position[k] \in PositionRecord \cup {None}
  BY DEF Inv, PositionInv
<1> QED
  BY <1>1, StageOfRecord DEF Stage, Stake, IsOpen, StageOf

\* A position that stays open with its collateral is no step of the escrow.
LEMMA QuietChange ==
    ASSUME Inv, NEW k \in PositionKey, IsOpen(k), NEW r \in PositionRecord,
           r.status = STATUS_OPEN, r.collateral = position[k].collateral,
           position' = [position EXCEPT ![k] = r]
    PROVE  UNCHANGED <<Stage, Stake>>
<1>1. \A j \in PositionKey : position'[j] = IF j = k THEN r ELSE position[j]
  BY DEF Inv, PositionInv
<1>2. StageOf(r) = Stage[k] /\ StakeOf(r) = Stake[k]
  BY MappedAt, StageOfRecord
<1> QED
  BY <1>1, <1>2 DEF Stage, Stake

-----------------------------------------------------------------------------
(* Steps *)

LEMMA OpenIsPutIn ==
    ASSUME Inv, NEW k \in PositionKey, Opens(k)
    PROVE  Promise!PutIn(k)
<1>1. PICK s \in Symbols, side \in 0..2, collateral \in Collaterals,
           stop \in Levels, takeProfit \in Levels, offset \in Levels :
             OpenPosition(k, s, side, collateral, stop, takeProfit, offset)
  BY DEF Opens
<1> DEFINE r == NewPosition(s, side, collateral, stop, takeProfit, offset)
           paid == RentDue(k) + collateral
<1>2. /\ r \in PositionRecord /\ r.collateral = collateral /\ r.status = STATUS_OPEN
      /\ position' = [position EXCEPT ![k] = r]
      /\ Deposit(k, paid)
      /\ paid \in Int /\ paid >= collateral
  BY <1>1, OpenEffect
<1> HIDE DEF r, paid
<1>3. position[k] = None
  BY <1>1 DEF OpenPosition
<1>4. position'[k] = r /\ \A j \in PositionKey : j # k => position'[j] = position[j]
  BY <1>2 DEF Inv, PositionInv
<1>5. /\ Stage[k] = "absent"
      /\ Stage' = [Stage EXCEPT ![k] = "held"]
      /\ Stake' = [Stake EXCEPT ![k] = collateral]
  BY <1>2, <1>3, <1>4, MappedAt, MappedChange, StageOfRecord
<1>6. /\ Owner(k) \in Wallets /\ lamports[Owner(k)] \in U64
      /\ collateral \in U64
  BY DEF PositionKey, Owner, Inv, PositionInv
<1>7. paid \in 0..lamports[Owner(k)] /\ collateral \in 0..paid
  BY <1>2, <1>6 DEF Deposit, U64
<1>8. lamports' = [lamports EXCEPT ![Owner(k)] = lamports[Owner(k)] + (-paid)]
  <2>1. lamports[Owner(k)] - paid = lamports[Owner(k)] + (-paid)
    BY <1>2, <1>6 DEF U64
  <2> QED
    BY <1>2, <2>1 DEF Deposit
<1> QED
  BY <1>5, <1>7, <1>8 DEF Promise!PutIn, Promise!StakeOwner, Promise!Gets, Owner

\* The shares of a settlement are within the caps.
LEMMA SharesCapped ==
    ASSUME Inv, config # None, NEW amount \in U64,
           Fee(amount) \in U64, KeeperReward(amount) \in U64
    PROVE  /\ Fee(amount) \in 0..BpsOf(amount, MAX_FEE_BPS)
           /\ KeeperReward(amount) \in 0..BpsOf(amount, MAX_KEEPER_REWARD_BPS)
           /\ config.fee_receiver \in Wallets
<1>1. /\ config.fee_bps \in 0..MAX_FEE_BPS
      /\ config.keeper_reward_bps \in 0..MAX_KEEPER_REWARD_BPS
      /\ config.fee_receiver \in Wallets
  BY DEF Inv, ConfigTypeOK, ConfigRecord
<1>2. /\ config.fee_bps \in Nat /\ config.fee_bps <= MAX_FEE_BPS /\ MAX_FEE_BPS \in Nat
      /\ config.keeper_reward_bps \in Nat /\ MAX_KEEPER_REWARD_BPS \in Nat
      /\ config.keeper_reward_bps <= MAX_KEEPER_REWARD_BPS
      /\ amount \in Nat
  BY <1>1, LimitsAssumption DEF U64
<1>3. /\ Fee(amount) \in Nat /\ BpsOf(amount, MAX_FEE_BPS) \in Nat
      /\ KeeperReward(amount) \in Nat /\ BpsOf(amount, MAX_KEEPER_REWARD_BPS) \in Nat
  BY <1>2, BpsRounding DEF Fee, KeeperReward
<1>4. /\ Fee(amount) <= BpsOf(amount, MAX_FEE_BPS)
      /\ KeeperReward(amount) <= BpsOf(amount, MAX_KEEPER_REWARD_BPS)
  BY <1>2, BpsMonotone DEF Fee, KeeperReward
<1> QED
  BY <1>1, <1>3, <1>4

LEMMA FireIsSplit ==
    ASSUME Inv, NEW k \in PositionKey, NEW keeper \in Keepers, TickFire(keeper, k)
    PROVE  Promise!Split(k)
<1> DEFINE amount == position[k].collateral
<1>1. /\ IsOpen(k) /\ config # None
      /\ position'[k] \in PositionRecord
      /\ position'[k].status = STATUS_TRIGGERED /\ position'[k].collateral = 0
      /\ lamports' = Payout(keeper, k, amount)
      /\ SettlementFits(keeper, k, amount)
  BY FireEffect
<1>2. \A j \in PositionKey : j # k => position'[j] = position[j]
  BY DEF TickFire, Inv, PositionInv
<1>3. /\ Stage[k] = "held" /\ Stake[k] = amount
      /\ Stage' = [Stage EXCEPT ![k] = "fired"]
      /\ Stake' = [Stake EXCEPT ![k] = 0]
  BY <1>1, <1>2, MappedAt, MappedChange, StageOfRecord
<1>4. amount \in U64 /\ keeper \in Wallets
  BY <1>1, MappedAt DEF PositionRecord
<1> HIDE DEF amount
<1>5. /\ Fee(amount) \in 0..BpsOf(amount, MAX_FEE_BPS)
      /\ KeeperReward(amount) \in 0..BpsOf(amount, MAX_KEEPER_REWARD_BPS)
      /\ config.fee_receiver \in Wallets
  BY <1>1, <1>4, SharesCapped DEF SettlementFits
<1>6. lamports' = Promise!Gets(Promise!Gets(Promise!Gets(lamports,
                      config.fee_receiver, Fee(amount)), keeper, KeeperReward(amount)),
                      Promise!StakeOwner(k), amount - Fee(amount) - KeeperReward(amount))
  BY <1>1 DEF Payout, Credit, NetToOwner, Promise!Gets, Promise!StakeOwner, Owner
<1> QED
  BY <1>3, <1>4, <1>5, <1>6 DEF Promise!Split, Promise!BpsOf, BpsOf

LEMMA CancelIsReturn ==
    ASSUME Inv, NEW k \in PositionKey, NEW signer \in Traders, CancelPosition(signer, k)
    PROVE  Promise!Return(k)
<1>1. /\ IsOpen(k)
      /\ position'[k] \in PositionRecord
      /\ position'[k].status = STATUS_CANCELLED /\ position'[k].collateral = 0
      /\ lamports' = Credit(lamports, Owner(k), position[k].collateral)
  BY CancelEffect
<1>2. \A j \in PositionKey : j # k => position'[j] = position[j]
  BY DEF CancelPosition, Inv, PositionInv
<1>3. /\ Stage[k] = "held" /\ Stake[k] = position[k].collateral
      /\ Stage' = [Stage EXCEPT ![k] = "returned"]
      /\ Stake' = [Stake EXCEPT ![k] = 0]
  BY <1>1, <1>2, MappedAt, MappedChange, StageOfRecord
<1> QED
  BY <1>1, <1>3 DEF Promise!Return, Promise!Gets, Promise!StakeOwner, Credit, Owner

LEMMA GiftIsGiveAway ==
    ASSUME Inv, NEW k \in PositionKey, NEW w \in Traders, NEW amount \in Gifts,
           GiftToPosition(w, k, amount)
    PROVE  w \in Wallets /\ Promise!GiveAway(w)
<1>1. /\ UNCHANGED <<Stage, Stake>>
      /\ lamports[w] >= amount
      /\ lamports' = [lamports EXCEPT ![w] = lamports[w] - amount]
  BY MappedSame DEF GiftToPosition
<1>2. w \in Wallets /\ lamports[w] \in U64 /\ amount \in U64
  BY DEF Inv, PositionInv
<1>3. /\ amount \in 0..lamports[w]
      /\ lamports[w] - amount = lamports[w] + (-amount)
  BY <1>1, <1>2 DEF U64
<1> QED
  BY <1>1, <1>2, <1>3 DEF Promise!GiveAway, Promise!Gets

\* Re-arming, ticks that do not fire and delegation are no steps of the escrow.
LEMMA QuietStep ==
    ASSUME Inv, NEW k \in PositionKey, Quiet(k)
    PROVE  UNCHANGED <<Stage, Stake, lamports>>
<1>1. PICK r \in PositionRecord :
          /\ r.status = STATUS_OPEN /\ r.collateral = position[k].collateral
          /\ position' = [position EXCEPT ![k] = r]
  BY QuietEffect
<1>2. IsOpen(k) /\ lamports' = lamports
  BY QuietEffect
<1> QED
  BY <1>1, <1>2, QuietChange

-----------------------------------------------------------------------------
LEMMA EscrowStart == Init => Promise!EscrowInit
<1> SUFFICES ASSUME Init
             PROVE  Promise!EscrowInit
    OBVIOUS
<1>1. \A k \in PositionKey : position[k] = None
  BY DEF Init
<1>2. lamports \in [Wallets -> U64]
  BY DEF Init
<1> QED
  BY <1>1, <1>2 DEF Promise!EscrowInit, Promise!Stakes, Promise!U64, U64, PositionKey,
                    Stage, Stake, StageOf, StakeOf

LEMMA EscrowStep ==
    ASSUME Inv, [Next]_vars
    PROVE  [Promise!EscrowNext]_(Promise!escrowVars)
<1>1. CASE AdminOps \/ UNCHANGED vars
  <2>1. position' = position /\ lamports' = lamports
    BY <1>1, AdminOpsAreFeedSteps DEF vars, positionVars
  <2> QED
    BY <2>1, MappedSame DEF Promise!escrowVars
<1>2. ASSUME NEW k \in PositionKey, PositionOps(k)
      PROVE  [Promise!EscrowNext]_(Promise!escrowVars)
  <2>1. k \in Promise!Stakes
    BY DEF Promise!Stakes, PositionKey
  <2>2. CASE Opens(k)
    BY <2>1, <2>2, OpenIsPutIn DEF Promise!EscrowNext
  <2>3. CASE \E keeper \in Keepers : TickFire(keeper, k)
    BY <2>1, <2>3, FireIsSplit DEF Promise!EscrowNext
  <2>4. CASE \E w \in Traders : CancelPosition(w, k)
    BY <2>1, <2>4, CancelIsReturn DEF Promise!EscrowNext
  <2>5. CASE \E w \in Traders, amount \in Gifts : GiftToPosition(w, k, amount)
    BY <2>5, GiftIsGiveAway DEF Promise!EscrowNext
  <2>6. CASE Quiet(k)
    BY <2>6, QuietStep DEF Promise!escrowVars
  <2> QED
    BY <1>2, <2>2, <2>3, <2>4, <2>5, <2>6, PositionOpsSplit
<1> QED
  BY <1>1, <1>2 DEF Next

\* The program keeps the promise of Escrow: a stake goes in once and comes
\* out once and whole, returned or split within the caps.
THEOREM EscrowImplemented == Spec => EscrowIsKept
<1>1. Inv /\ [Next]_vars => [Promise!EscrowNext]_(Promise!escrowVars)
  BY EscrowStep
<1> QED
  BY <1>1, EscrowStart, Invariance, PTL DEF Spec, EscrowIsKept, Promise!EscrowSpec
=============================================================================
