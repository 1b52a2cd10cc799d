----------------------------- MODULE HwalLedger -----------------------------
(***************************************************************************)
(* The lamports of the whole program taken together: what its accounts     *)
(* hold in all, and what its statistics say they were paid.  These         *)
(* properties sum over all accounts, so they have a module of their own,   *)
(* which takes the fold over a set from the community modules.             *)
(***************************************************************************)
EXTENDS Hwal, FiniteSetsExt

Total(balances, accounts) == MapThenSumSet(LAMBDA a : balances[a], accounts)

\* The total supply of lamports is a u64, so no account can overflow.
ASSUME SupplyAssumption == Total(Funds, Wallets) \in U64

\* No lamport is created or lost by any instruction, by the three rounded
\* shares of a settlement or by payees that are the same account.
LamportsConserved ==
    Total(lamports, Wallets) + Total(vault, PositionKey) = Total(Funds, Wallets)

Apart(A, B) == A \cap B = {}

\* Where officials, keepers and traders are different wallets, the wallets
\* hold exactly what Config's statistics say was paid to them, over any
\* number of settlements, policy changes and changes of the fee receiver.
BooksMatchWallets ==
    (/\ config # None
     /\ Apart(Officials, Traders) /\ Apart(Officials, Keepers) /\ Apart(Keepers, Traders))
    => /\ Total(lamports, Officials)
            = Total(Funds, Officials) + config.total_fees_collected
       /\ Total(lamports, Keepers)
            = Total(Funds, Keepers) + config.total_keeper_rewards_paid
=============================================================================
