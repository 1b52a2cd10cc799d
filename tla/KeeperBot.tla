------------------------------ MODULE KeeperBot -----------------------------
(***************************************************************************)
(* Keeper bots (scripts/keeper-bot.ts) beside the program.  A bot reads    *)
(* Config once, then for ever fetches the positions, and sends a tick for  *)
(* each open one, waiting for the answer to each.                          *)
(*                                                                         *)
(* A transaction sent is pending until it lands or is lost.  The answer    *)
(* the bot waits for may be an error while the transaction is still on     *)
(* its way (a confirmation timeout), so a tick can land late, after        *)
(* anything else happened to its position.                                 *)
(***************************************************************************)
EXTENDS Hwal

CONSTANT Bots           \* the keepers' wallets that run the script

ASSUME BotAssumption == Bots \subseteq Keepers

VARIABLES
    bot,          \* what each process holds
    pending       \* transactions sent and neither landed nor lost

botVars == <<bot, pending>>
keeperVars == <<vars, botVars>>

\* idle: between two sweeps; sweep: about to send; await: in .rpc().
BotRecord ==
    [phase : {"down", "idle", "sweep", "await"},
     fee_receiver : Wallets \cup {None},      \* config.feeReceiver, as read at the start
     todo : SUBSET PositionKey]               \* rest of the snapshot

\* The accounts of a tick the bot chooses; the others follow from the key.
TickTx == [keeper : Bots, key : PositionKey, fee_receiver : Wallets]

BotTypeOK ==
    /\ bot \in [Bots -> BotRecord]
    /\ pending \subseteq TickTx

NotRunning == [phase |-> "down", fee_receiver |-> None, todo |-> {}]

BotInit == bot = [b \in Bots |-> NotRunning] /\ pending = {}

-----------------------------------------------------------------------------
\* Mutant of StartKeeper: the script does not exit when there is no Config.
MutStartUnconfigured(b) ==
    /\ bot[b].phase = "down"
    /\ bot' = [bot EXCEPT ![b] =
                 [phase |-> "idle", todo |-> {},
                  fee_receiver |-> IF config = None THEN None
                                   ELSE config.fee_receiver]]
    /\ UNCHANGED <<vars, pending>>

\* Without a Config the fetch throws and the process exits.
StartKeeper(b) ==
    /\ bot[b].phase = "down"
    /\ config # None
    /\ bot' = [bot EXCEPT ![b] = [phase |-> "idle", todo |-> {},
                                  fee_receiver |-> config.fee_receiver]]
    /\ UNCHANGED <<vars, pending>>

\* Mutant of OpenPositions: the filter is turned round.
MutNotOpen == {k \in PositionKey : position[k] # None /\ ~IsOpen(k)}

OpenPositions == {k \in PositionKey : IsOpen(k)}

\* A fetch that fails, or finds nothing open, leaves the bot where it is.
FetchOpen(b) ==
    /\ bot[b].phase = "idle"
    /\ OpenPositions # {}
    /\ bot' = [bot EXCEPT ![b].phase = "sweep", ![b].todo = OpenPositions]
    /\ UNCHANGED <<vars, pending>>

\* Sent with what the snapshot and the start left in memory, whatever has
\* happened to the position and to Config since.
SubmitTick(b, k) ==
    /\ bot[b].phase = "sweep"
    /\ k \in bot[b].todo
    /\ bot' = [bot EXCEPT ![b].phase = "await", ![b].todo = @ \ {k}]
    /\ pending' = pending \cup
         {[keeper |-> b, key |-> k, fee_receiver |-> bot[b].fee_receiver]}
    /\ UNCHANGED vars

\* Mutant of AnswerTick: the catch is outside the loop over the snapshot, so
\* that an error ends the sweep.
MutAnswerEndsSweep(b) ==
    /\ bot[b].phase = "await"
    /\ \/ bot' = [bot EXCEPT ![b].phase = "idle", ![b].todo = {}]
       \/ bot' = [bot EXCEPT ![b].phase = IF bot[b].todo = {} THEN "idle" ELSE "sweep"]
    /\ UNCHANGED <<vars, pending>>

\* A signature or an error: both are logged and the sweep goes on.
AnswerTick(b) ==
    /\ bot[b].phase = "await"
    /\ bot' = [bot EXCEPT ![b].phase = IF bot[b].todo = {} THEN "idle" ELSE "sweep"]
    /\ UNCHANGED <<vars, pending>>

\* The process can die at any point; what it sent stays on its way.
StopKeeper(b) ==
    /\ bot[b].phase # "down"
    /\ bot' = [bot EXCEPT ![b] = NotRunning]
    /\ UNCHANGED <<vars, pending>>

\* The program requires fee_receiver to be the one Config has now.
LandTick(tx) ==
    /\ tx \in pending
    /\ config # None /\ tx.fee_receiver = config.fee_receiver
    /\ TickPosition(tx.keeper, tx.key)
    /\ pending' = pending \ {tx}
    /\ UNCHANGED bot

\* Dropped, expired, refused in the preflight, or failed by the program.
LoseTick(tx) ==
    /\ tx \in pending
    /\ pending' = pending \ {tx}
    /\ UNCHANGED <<vars, bot>>

-----------------------------------------------------------------------------
\* The loop of a process that runs.
LoopSteps(b) ==
    \/ FetchOpen(b)
    \/ \E k \in PositionKey : SubmitTick(b, k)
    \/ AnswerTick(b)

KeeperNext ==
    \/ Next /\ UNCHANGED botVars
    \/ \E b \in Bots : StartKeeper(b) \/ LoopSteps(b) \/ StopKeeper(b)
    \/ \E tx \in pending : LandTick(tx) \/ LoseTick(tx)

KeeperInit == Init /\ BotInit

KeeperSpec == KeeperInit /\ [][KeeperNext]_keeperVars

LandTickOf(b, k) == \E tx \in pending : tx.keeper = b /\ tx.key = k /\ LandTick(tx)

\* The loop goes on as long as the process runs, and a bot that sends valid
\* ticks for a position again and again lands one of them: not every fetch
\* fails and not every transaction is lost.  Nothing makes the program, the
\* feed or the admin act, or starts a process that was stopped.
KeeperFairSpec ==
    /\ KeeperSpec
    /\ \A b \in Bots :
         /\ WF_keeperVars(LoopSteps(b))
         /\ \A k \in PositionKey : SF_keeperVars(LandTickOf(b, k))

-----------------------------------------------------------------------------
(* Properties *)

\* A tick landed now would settle the position.
ReadyToFire(k) ==
    /\ TickReady(k)
    /\ FirstTrigger(Ticked(k), PriceOf(k)) # TRIGGER_NONE

Running(b) == bot[b].phase # "down"

InStep(b) == Running(b) /\ bot[b].fee_receiver = config.fee_receiver

\* While one bot runs whose fee receiver is Config's, no position stays ready
\* to fire for ever: lost transactions, errors for other positions of the
\* sweep, ticks that land late, other keepers and owners who re-arm
\* or cancel meanwhile do not keep the loop from settling it.
\* (keeper-bot.ts:25-58)
RunningBotSettles ==
    \A b \in Bots, k \in PositionKey : []<>~(ReadyToFire(k) /\ InStep(b))

\* README.md, "Run the keeper bot": the bot submits tick_position for every
\* open position and is the L1 fallback, so a position that stays ready to
\* fire is settled as long as the bot runs.
FallbackSettles ==
    \A b \in Bots, k \in PositionKey : []<>~(ReadyToFire(k) /\ Running(b))
=============================================================================
