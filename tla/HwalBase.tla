------------------------------ MODULE HwalBase ------------------------------
(***************************************************************************)
(* Program-wide limits (constants.rs) and the checked u64 arithmetic of    *)
(* utils.rs.  The limits are parameters, so that TLC can run both with the *)
(* shipped values and with scaled ones in which overflow is within reach.  *)
(*                                                                         *)
(* A u64 is a member of U64.  An operation the code checks (checked_add,   *)
(* checked_sub, try_from) is written here with its mathematical value, and *)
(* the action that uses it has "the value is in U64" among its guards: the *)
(* code returns an error there and the runtime discards the transaction.   *)
(***************************************************************************)
EXTENDS Integers

CONSTANTS
    U64_MAX,                \* largest u64 (2^64 - 1 in the build)
    COUNTER_MAX,            \* where the u64 event counters saturate
    BPS_DENOMINATOR,
    MAX_FEE_BPS,
    MAX_KEEPER_REWARD_BPS,
    None                    \* an account that does not exist, an Option not given

ASSUME LimitsAssumption ==
    /\ U64_MAX \in Nat /\ COUNTER_MAX \in Nat
    /\ BPS_DENOMINATOR \in Nat \ {0}
    /\ MAX_FEE_BPS \in Nat /\ MAX_KEEPER_REWARD_BPS \in Nat
    /\ MAX_FEE_BPS + MAX_KEEPER_REWARD_BPS <= BPS_DENOMINATOR

U64 == 0..U64_MAX

Counter == 0..COUNTER_MAX

SaturatingAdd(a, b, max) == IF a + b > max THEN max ELSE a + b

\* Event counters only ever grow by one.
Bump(n) == SaturatingAdd(n, 1, COUNTER_MAX)

\* Mutant of BpsOf: basis points taken for percent.
MutBpsAsPercent(amount, bps) == (amount * bps) \div 100

\* Multiplied in u128, where it cannot overflow, and rounded down.
BpsOf(amount, bps) == (amount * bps) \div BPS_DENOMINATOR
=============================================================================
