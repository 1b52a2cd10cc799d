------------------------------- MODULE Config -------------------------------
(***************************************************************************)
(* The Config account (state/config.rs): the admin, the fee policy and the *)
(* lifetime statistics, created once by initialize_config and changed by   *)
(* update_config.  The statistics are advanced by the position             *)
(* instructions of module Hwal.                                            *)
(*                                                                         *)
(* A failed instruction leaves no trace (the runtime discards the          *)
(* transaction), so only successful ones are steps.                        *)
(***************************************************************************)
EXTENDS HwalBase

CONSTANTS
    Wallets,      \* system accounts: every key that can sign or be paid
    Officials,    \* the wallets that act as admin, authority or fee receiver
    BpsInputs     \* the basis-point arguments callers try

ASSUME ConfigAssumption == Officials \subseteq Wallets /\ BpsInputs \subseteq Nat

VARIABLE config

ConfigRecord ==
    [admin : Wallets, fee_receiver : Wallets,
     fee_bps : 0..MAX_FEE_BPS, keeper_reward_bps : 0..MAX_KEEPER_REWARD_BPS,
     total_positions_opened : Counter, total_positions_triggered : Counter,
     total_positions_cancelled : Counter,
     total_fees_collected : U64, total_keeper_rewards_paid : U64]

ConfigTypeOK == config \in ConfigRecord \cup {None}

ConfigInit == config = None

-----------------------------------------------------------------------------
InitializeConfig(admin, receiver, fee, reward) ==
    /\ config = None
    /\ fee <= MAX_FEE_BPS
    /\ reward <= MAX_KEEPER_REWARD_BPS
    /\ config' =
         [admin |-> admin, fee_receiver |-> receiver,
          fee_bps |-> fee, keeper_reward_bps |-> reward,
          total_positions_opened |-> 0, total_positions_triggered |-> 0,
          total_positions_cancelled |-> 0,
          total_fees_collected |-> 0, total_keeper_rewards_paid |-> 0]

\* An Option argument that is None keeps the present value.
Given(new, old) == IF new = None THEN old ELSE new

\* Mutant of UpdateConfig: only initialize_config checks the caps.
MutUpdateConfigUncapped(signer, admin, receiver, fee, reward) ==
    /\ config # None
    /\ signer = config.admin
    /\ config' =
         [config EXCEPT !.admin = Given(admin, @),
                        !.fee_receiver = Given(receiver, @),
                        !.fee_bps = Given(fee, @),
                        !.keeper_reward_bps = Given(reward, @)]

UpdateConfig(signer, admin, receiver, fee, reward) ==
    /\ config # None
    /\ signer = config.admin
    /\ fee # None => fee <= MAX_FEE_BPS
    /\ reward # None => reward <= MAX_KEEPER_REWARD_BPS
    /\ config' =
         [config EXCEPT !.admin = Given(admin, @),
                        !.fee_receiver = Given(receiver, @),
                        !.fee_bps = Given(fee, @),
                        !.keeper_reward_bps = Given(reward, @)]

ConfigOps ==
    \/ \E admin, receiver \in Officials, fee, reward \in BpsInputs :
          InitializeConfig(admin, receiver, fee, reward)
    \/ \E signer \in Officials, admin, receiver \in Officials \cup {None},
          fee, reward \in BpsInputs \cup {None} :
          UpdateConfig(signer, admin, receiver, fee, reward)
=============================================================================
