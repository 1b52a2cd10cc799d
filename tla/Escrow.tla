------------------------------- MODULE Escrow -------------------------------
(***************************************************************************)
(* What the program promises the owner of a position, with no prices,      *)
(* triggers, clock, accounts or statistics: a stake is put in once, and    *)
(* then comes out once and whole, either returned to its owner or split    *)
(* between the owner, a keeper and a fee receiver whose shares are capped. *)
(* Which of these happens, and when, the promise leaves open.              *)
(***************************************************************************)
EXTENDS HwalBase

CONSTANTS Wallets, Traders, Nonces

VARIABLES
    stage,        \* of every position there can be
    stake,        \* lamports at stake in it
    balance       \* lamports of the wallets

escrowVars == <<stage, stake, balance>>

Stakes == Traders \X Nonces
StakeOwner(k) == k[1]

EscrowInit ==
    /\ stage = [k \in Stakes |-> "absent"]
    /\ stake = [k \in Stakes |-> 0]
    /\ balance \in [Wallets -> U64]

Gets(balances, w, amount) == [balances EXCEPT ![w] = @ + amount]

\* The owner may pay more than is at stake (rent), never less.
PutIn(k) ==
    /\ stage[k] = "absent"
    /\ stage' = [stage EXCEPT ![k] = "held"]
    /\ \E cost \in 0..balance[StakeOwner(k)] :
         /\ balance' = Gets(balance, StakeOwner(k), -cost)
         /\ \E amount \in 0..cost : stake' = [stake EXCEPT ![k] = amount]

Split(k) ==
    /\ stage[k] = "held"
    /\ stage' = [stage EXCEPT ![k] = "fired"]
    /\ stake' = [stake EXCEPT ![k] = 0]
    /\ \E receiver, keeper \in Wallets,
          fee \in 0..BpsOf(stake[k], MAX_FEE_BPS),
          reward \in 0..BpsOf(stake[k], MAX_KEEPER_REWARD_BPS) :
         balance' = Gets(Gets(Gets(balance, receiver, fee), keeper, reward),
                         StakeOwner(k), stake[k] - fee - reward)

Return(k) ==
    /\ stage[k] = "held"
    /\ stage' = [stage EXCEPT ![k] = "returned"]
    /\ stake' = [stake EXCEPT ![k] = 0]
    /\ balance' = Gets(balance, StakeOwner(k), stake[k])

\* Any wallet can give lamports away, to an address that is no wallet.
GiveAway(w) ==
    /\ UNCHANGED <<stage, stake>>
    /\ \E amount \in 0..balance[w] : balance' = Gets(balance, w, -amount)

EscrowNext ==
    \/ \E k \in Stakes : PutIn(k) \/ Split(k) \/ Return(k)
    \/ \E w \in Wallets : GiveAway(w)

EscrowSpec == EscrowInit /\ [][EscrowNext]_escrowVars
=============================================================================
