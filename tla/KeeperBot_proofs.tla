-------------------------- MODULE KeeperBot_proofs --------------------------
(***************************************************************************)
(* The program beside its keeper bots: the types of what bots keep and     *)
(* send, and that what a bot does to the program, through ticks lost,      *)
(* late or sent for a position that has changed, is what the program       *)
(* allows anyone.  The theorems about the program's behaviours so hold     *)
(* with any number of bots beside it.                                      *)
(*                                                                         *)
(* What RunningBotSettles rests on is proved here as far as it is safety:  *)
(* nothing refuses a pending tick that is ready to fire (PendingTicksFit), *)
(* and landing it settles (LandingSettles).                                *)
(*                                                                         *)
(* A running bot has a fee receiver (Informed): it is why every tick it    *)
(* sends names a wallet, though a stopped bot has none.                    *)
(***************************************************************************)
EXTENDS KeeperBot, HwalEscrow_proofs, HwalLedger_proofs

USE BotAssumption

Informed == \A b \in Bots : bot[b].phase # "down" => bot[b].fee_receiver \in Wallets

BotInv == Inv /\ BotTypeOK /\ Informed

\* Every step of the composition is one of the program or leaves it alone.
LEMMA ProgramStep ==
    ASSUME BotTypeOK, [KeeperNext]_keeperVars
    PROVE  [Next]_vars
<1>1. ASSUME NEW b \in Bots, StartKeeper(b) \/ LoopSteps(b) \/ StopKeeper(b)
      PROVE  UNCHANGED vars
  BY <1>1 DEF LoopSteps, StartKeeper, FetchOpen, SubmitTick, AnswerTick, StopKeeper
<1>2. ASSUME NEW tx \in pending, LandTick(tx)
      PROVE  Next
  <2>1. tx.keeper \in Keepers /\ tx.key \in PositionKey
    BY DEF BotTypeOK, TickTx
  <2> QED
    BY <1>2, <2>1 DEF LandTick, Next, PositionOps, Ticks
<1>3. ASSUME NEW tx \in pending, LoseTick(tx)
      PROVE  UNCHANGED vars
  BY <1>3 DEF LoseTick
<1> QED
  BY <1>1, <1>2, <1>3 DEF KeeperNext, keeperVars

\* What a bot does keeps the types, and its fee receiver while it runs.
LEMMA BotStep ==
    ASSUME BotInv, NEW b \in Bots, StartKeeper(b) \/ LoopSteps(b) \/ StopKeeper(b)
    PROVE  BotTypeOK' /\ Informed'
<1> USE DEF BotInv, BotTypeOK, Informed
<1>1. bot[b] \in BotRecord
  OBVIOUS
<1>2. ASSUME NEW r \in BotRecord, bot' = [bot EXCEPT ![b] = r],
             r.phase # "down" => r.fee_receiver \in Wallets,
             pending' \subseteq TickTx
      PROVE  BotTypeOK' /\ Informed'
  BY <1>2
<1>3. CASE StartKeeper(b)
  <2> DEFINE r == [phase |-> "idle", todo |-> {}, fee_receiver |-> config.fee_receiver]
  <2>1. config.fee_receiver \in Wallets
    BY <1>3 DEF StartKeeper, Inv, ConfigTypeOK, ConfigRecord
  <2>2. r \in BotRecord /\ r.fee_receiver \in Wallets
    BY <2>1 DEF BotRecord
  <2>3. bot' = [bot EXCEPT ![b] = r] /\ pending' \subseteq TickTx
    BY <1>3 DEF StartKeeper
  <2> HIDE DEF r
  <2> QED
    BY <1>2, <2>2, <2>3
<1>4. CASE FetchOpen(b)
  <2> DEFINE r == [bot[b] EXCEPT !.phase = "sweep", !.todo = OpenPositions]
  <2>1. r \in BotRecord /\ r.fee_receiver = bot[b].fee_receiver
    BY <1>1 DEF BotRecord, OpenPositions
  <2>2. /\ bot' = [bot EXCEPT ![b] = r] /\ pending' \subseteq TickTx
        /\ bot[b].phase = "idle"
    BY <1>4 DEF FetchOpen
  <2> HIDE DEF r
  <2> QED
    BY <1>2, <2>1, <2>2
<1>5. ASSUME NEW k \in PositionKey, SubmitTick(b, k)
      PROVE  BotTypeOK' /\ Informed'
  <2> DEFINE r == [bot[b] EXCEPT !.phase = "await", !.todo = @ \ {k}]
  <2>1. r \in BotRecord /\ r.fee_receiver = bot[b].fee_receiver
    BY <1>1 DEF BotRecord
  <2>2. bot' = [bot EXCEPT ![b] = r] /\ bot[b].phase = "sweep"
    BY <1>5 DEF SubmitTick
  <2>3. pending' \subseteq TickTx
    BY <1>5, <2>2 DEF SubmitTick, TickTx
  <2> HIDE DEF r
  <2> QED
    BY <1>2, <2>1, <2>2, <2>3
<1>6. CASE AnswerTick(b)
  <2> DEFINE r == [bot[b] EXCEPT !.phase = IF bot[b].todo = {} THEN "idle" ELSE "sweep"]
  <2>1. r \in BotRecord /\ r.fee_receiver = bot[b].fee_receiver
    BY <1>1 DEF BotRecord
  <2>2. /\ bot' = [bot EXCEPT ![b] = r] /\ pending' \subseteq TickTx
        /\ bot[b].phase = "await"
    BY <1>6 DEF AnswerTick
  <2> HIDE DEF r
  <2> QED
    BY <1>2, <2>1, <2>2
<1>7. CASE StopKeeper(b)
  <2>1. NotRunning \in BotRecord /\ NotRunning.phase = "down"
    BY DEF NotRunning, BotRecord
  <2> QED
    BY <1>2, <1>7, <2>1 DEF StopKeeper
<1> QED
  BY <1>3, <1>4, <1>5, <1>6, <1>7 DEF LoopSteps

LEMMA BotInvStep == BotInv /\ [KeeperNext]_keeperVars => BotInv'
<1> SUFFICES ASSUME BotInv, [KeeperNext]_keeperVars
             PROVE  BotInv'
  OBVIOUS
<1>1. Inv'
  BY ProgramStep, InvStep DEF BotInv
<1>2. ASSUME UNCHANGED bot, pending' \subseteq pending
      PROVE  BotTypeOK' /\ Informed'
  BY <1>2 DEF BotInv, BotTypeOK, Informed
<1>3. BotTypeOK' /\ Informed'
  <2>1. CASE Next /\ UNCHANGED botVars
    BY <1>2, <2>1 DEF botVars
  <2>2. CASE \E b \in Bots : StartKeeper(b) \/ LoopSteps(b) \/ StopKeeper(b)
    BY <2>2, BotStep
  <2>3. CASE \E tx \in pending : LandTick(tx) \/ LoseTick(tx)
    BY <1>2, <2>3 DEF LandTick, LoseTick
  <2>4. CASE UNCHANGED keeperVars
    BY <1>2, <2>4 DEF keeperVars, botVars
  <2> QED
    BY <2>1, <2>2, <2>3, <2>4 DEF KeeperNext
<1> QED
  BY <1>1, <1>3 DEF BotInv

THEOREM KeeperInvariance == KeeperSpec => []BotInv
<1>1. KeeperInit => BotInv
  <2> SUFFICES ASSUME KeeperInit PROVE BotInv
    OBVIOUS
  <2>1. Inv
    BY InvInit DEF KeeperInit
  <2>2. BotTypeOK /\ Informed
    BY DEF KeeperInit, BotInit, BotTypeOK, Informed, NotRunning, BotRecord
  <2> QED
    BY <2>1, <2>2 DEF BotInv
<1> QED
  BY <1>1, BotInvStep, PTL DEF KeeperSpec

\* What the bots hold and send always has its type: no tick is sent without a
\* fee receiver.
THEOREM BotTypeCorrect == KeeperSpec => []BotTypeOK
<1>1. BotInv => BotTypeOK
  BY DEF BotInv
<1> QED
  BY <1>1, KeeperInvariance, PTL

\* The program with bots beside it behaves as the program does: whatever ticks
\* they send, late, again or for a position that has changed.
THEOREM KeeperIsProgram == KeeperSpec => Spec
<1>1. KeeperInit => Init
  BY DEF KeeperInit
<1>2. BotInv /\ [KeeperNext]_keeperVars => [Next]_vars
  BY ProgramStep DEF BotInv
<1> QED
  BY <1>1, <1>2, KeeperInvariance, PTL DEF KeeperSpec, Spec

\* However many bots race each other and the owner, a settled position never
\* changes and is never paid again.
THEOREM SettledOnce == KeeperSpec => SettledIsTerminal
BY KeeperIsProgram, SettledPositionsAreFinal

\* However many bots race, no lamport is created or lost, and each position
\* stays an escrow.
THEOREM BotsConserve == KeeperSpec => []LamportsConserved /\ EscrowIsKept
BY KeeperIsProgram, ConservedAlways, EscrowImplemented, PTL

-----------------------------------------------------------------------------
(* What RunningBotSettles rests on *)

\* Nothing is left for which the program could refuse a pending tick that is
\* ready to fire and names the present fee receiver.
PendingTicksFit ==
    \A tx \in pending :
        (ReadyToFire(tx.key) /\ tx.fee_receiver = config.fee_receiver) =>
            SettlementFits(tx.keeper, tx.key, position[tx.key].collateral)

\* Such a tick settles its position when it lands.
LandingSettles ==
    [][\A tx \in pending :
          (ReadyToFire(tx.key) /\ LandTick(tx)) =>
              /\ position'[tx.key].status = STATUS_TRIGGERED
              /\ position'[tx.key].collateral = 0]_keeperVars

\* Late, repeated or raced by others, a bot's tick that finds its position
\* ready to fire meets no error of the settlement.
THEOREM PendingTicksAlwaysFit == KeeperSpec => []PendingTicksFit
<1>1. BotInv /\ LamportsConserved => PendingTicksFit
  <2> SUFFICES ASSUME BotInv, LamportsConserved, NEW tx \in pending, ReadyToFire(tx.key)
               PROVE  SettlementFits(tx.keeper, tx.key, position[tx.key].collateral)
      BY DEF PendingTicksFit
  <2>1. tx.keeper \in Keepers /\ tx.key \in PositionKey
    BY DEF BotInv, BotTypeOK, TickTx
  <2>2. config # None /\ IsOpen(tx.key)
    BY DEF ReadyToFire, TickReady
  <2> QED
    BY <2>1, <2>2, SettlementAlwaysFits DEF BotInv
<1> QED
  BY <1>1, KeeperInvariance, BotsConserve, PTL

\* And landing it settles the position for good, so a bot that keeps sending
\* need land only one.
THEOREM LandingAlwaysSettles == KeeperSpec => LandingSettles
<1> DEFINE Settles ==
      \A tx \in pending :
          (ReadyToFire(tx.key) /\ LandTick(tx)) =>
              /\ position'[tx.key].status = STATUS_TRIGGERED
              /\ position'[tx.key].collateral = 0
<1>1. ASSUME BotInv, NEW tx \in pending, ReadyToFire(tx.key), LandTick(tx)
      PROVE  /\ position'[tx.key].status = STATUS_TRIGGERED
             /\ position'[tx.key].collateral = 0
  <2>1. tx.keeper \in Keepers /\ tx.key \in PositionKey
    BY <1>1 DEF BotInv, BotTypeOK, TickTx
  <2>2. TickFire(tx.keeper, tx.key)
    <3>1. TickHold(tx.key) \/ TickFire(tx.keeper, tx.key)
      BY <1>1 DEF LandTick, TickPosition
    <3>2. ~TickHold(tx.key)
      BY <1>1 DEF TickHold, ReadyToFire
    <3> QED
      BY <3>1, <3>2
  <2>3. Inv
    BY <1>1 DEF BotInv
  <2> QED
    BY <2>1, <2>2, <2>3, FireEffect
<1>2. BotInv /\ [KeeperNext]_keeperVars => [Settles]_keeperVars
  BY <1>1
<1> QED
  BY <1>2, KeeperInvariance, PTL DEF KeeperSpec, LandingSettles, Settles
=============================================================================
