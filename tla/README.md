# Hwal in TLA+

A verification project for the Hwal program (`src/programs/hwal`): an Anchor
program on Solana that holds a collateral in escrow for a trader and pays it
out when an on-chain price reaches a stop-loss, a take-profit or a trailing
stop. Anyone may tick a position; whoever lands the tick that fires earns a
share of the collateral.

The modules are translated from the source. Where a document of the repository
says something else, the source decides, and the difference is a finding.

## The system

| part | state it keeps | operations | source |
| --- | --- | --- | --- |
| Config | admin, fee receiver, two basis-point rates, lifetime statistics | `initialize_config`, `update_config` | `state/config.rs`, `instructions/*_config.rs` |
| Price feeds | price, time stamp, authority, source (authority or Lazer), Lazer id and channel | `initialize_price_feed`, `update_price_feed`, `register_lazer_feed`, `update_price_feed_from_lazer` | `state/price_feed.rs`, `instructions/*feed*.rs` |
| Positions | side, status, collateral, entry price, three triggers, trailing extreme, times, delegation flag; the account's lamports are the escrow | `open_position`, `update_triggers`, `tick_position`, `cancel_position`, `delegate_position`, `undelegate_position` | `state/position.rs`, `instructions/*` |
| Arithmetic, limits | none | `bps_of`, `checked_*`, `transfer_lamports_from_pda` | `utils.rs`, `constants.rs` |
| Keeper bot | the fee receiver read at start, a snapshot of positions | a loop of ticks | `scripts/keeper-bot.ts` |
| Devnet setup | a key file per host; the phase of each run | check-then-initialise of Config and the feed | `scripts/setup-devnet.ts` |
| Price pusher | reads the key file | one transaction | `scripts/push-price.ts` |
| Delegation program, Lazer, ed25519 program, clock, runtime | external | called, or read | not in the repository |

How they interact. All parts share accounts. `open_position` reads a feed for
the entry price; `tick_position` reads the feed and the Config, changes the
position, moves lamports from the position account to up to three wallets and
advances the statistics. Config is changed by the admin and feeds are changed
by an authority, by the admin and by anyone with a signed Lazer payload, while
positions are open. Transactions are serialised and atomic: a failed
instruction leaves no trace. So concurrency here is the order of whole
instructions of many actors, and what one of them read earlier (a keeper's
snapshot, an owner's view of the price, a payload's age) being out of date.

What is hard:

* **Time and order of prices.** Payloads arrive late, twice and in any order;
  the feed is stamped with the clock, not with the payload's time; readers
  check the stamp. How old can the price behind a settlement be?
* **A trailing stop is about the past**, and the program keeps one number,
  changed by two instructions. Does that number stand for the history?
* **Limits of u64.** The threshold is computed with checked arithmetic, and a
  failure fails the tick. Can it block a position?
* **Money.** Separately rounded shares, payees that are the same account,
  lamports sent to the escrow from outside, a fee policy that changes while a
  position is open.
* **Terminal states.** Settled accounts are never closed; nothing may revive,
  change or pay them.
* **Failure in the middle.** The handler of `tick_position` moves lamports before
  it writes the status, and every transfer can fail; afterwards the runtime may
  still refuse the balances it is left with.
* **Scripts that are killed.** The setup writes a key, checks, sends and waits;
  any of it can stop half way, and a second host may be doing the same.

`PROJECT.json` lists each hazard with its line and the properties that watch it.

## Modules

| module | models | extends |
| --- | --- | --- |
| `HwalBase` | limits (parameters), u64, saturating counters, `BpsOf` | |
| `Triggers` | validation, extreme, thresholds and precedence as operators | `HwalBase` |
| `Config` | the Config account | `HwalBase` |
| `PriceFeed` | the feeds, the clock, and `published`, a history variable: when the price served was made, or a Lazer payload claims it was | `Config` |
| `Hwal` | positions, their lamports, all instructions together | `PriceFeed`, `Triggers` |
| `HwalLedger` | sums over all accounts (properties only) | `Hwal` |
| `TrailingHistory` | `Hwal` beside the history of ticked prices | `Hwal` |
| `Escrow` | the abstract promise: a stake goes in once, comes out once and whole | `HwalBase` |
| `HwalEscrow` | the refinement mapping from `Hwal` to `Escrow` | `Hwal` |
| `TickHandler` | `tick_position` statement by statement, under the runtime that commits or discards; refines `Hwal` | `Hwal` |
| `KeeperBot` | `scripts/keeper-bot.ts`, its pending transactions, beside `Hwal` | `Hwal` |
| `Devnet` | `scripts/setup-devnet.ts` and `scripts/push-price.ts` on several hosts, their pending transactions, beside the feeds | `PriceFeed` |
| `MCPriceFeed`, `MCHwal`, `MCTickHandler`, `MCTrailingHistory`, `MCHwalEscrow`, `MCKeeperBot`, `MCDevnet` | values for TLC | |
| `PriceFeed_proofs`, `Hwal_proofs`, `HwalLedger_proofs`, `HwalEscrow_proofs`, `TrailingHistory_proofs`, `TickHandler_proofs`, `KeeperBot_proofs`, `Devnet_proofs` | theorems about the module of that name | |

Correspondence. An action is one successful instruction, with the whole handler
and the account constraints in it: guards are the `require!`s, the `address`,
`seeds` and `init` constraints and every checked operation; primed variables
are the account writes and lamport moves. An account that does not exist is
`None`. A position is known by its PDA seeds, so the key `<<owner, nonce>>`
stands for the fields `owner`, `nonce`, `vault` and `bump`; a feed by its
symbol. `vault[k]` is the balance of the position account (rent and collateral:
`open_position` makes the account its own vault) and `lamports[w]` that of a
wallet. `update_triggers` and `open_position` validate triggers by the same
rules, written twice per side in the code; `NoBetter(side, a, b)` carries the
symmetry, so that each rule is one line.

`KeeperBot` is different in kind: a process with memory of its own. `bot[b]`
holds what the script keeps between its awaits (the fee receiver it read, the
rest of its snapshot, whether it waits for an answer), and `pending` the
transactions on their way. `StartKeeper` is the code before the loop,
`FetchOpen` the fetch and filter, `SubmitTick` the call of `.rpc()`, `AnswerTick`
its return or the catch; `LandTick` is the program's `tick_position` with the
accounts the bot chose, `LoseTick` a transaction that is dropped, expires or
fails. An error may be answered while the transaction still lands later.
The snapshot is swept in any order.

`TickHandler` opens the one step `TickPosition` up. `exec` is the transaction
being executed: its own copies of the position, Config and the balances, the
locals of the handler, and the statement it is at. `BeginTick` loads the accounts
under the constraints of the `Accounts` struct; one action per statement group
follows (`CheckAndAdvance`, `EvaluateTriggers`, `SplitCollateral`, `PayFee`,
`PayKeeper`, `PayOwner`, `WriteSettled`), each of which may take its error return;
`LandTick` writes the copies back, and `RefuseTick` and `DiscardTick` throw them
away. The runtime's rule about balances (an account ends empty or rent-exempt)
is applied to all instructions of this module; `Hwal` leaves it out, so `Hwal`
allows every landing that `TickHandler` does. `HandlerIsAtomic` is that
refinement, with the accounts mapped to themselves. No other instruction runs
meanwhile: one that writes an account of the tick waits for the runtime's lock on
it (every opening, tick and cancel writes Config), and one that shares none, the
re-arming of another position, commutes with it. The clock is that of the slot.

`Devnet` is about operators. `keyfile[h]` is the authority's key file on host `h`:
absent, torn (created and not yet written) or holding a key; `setup[h]` is the
run in progress, by the statement it is at; `inits` the transactions on their
way. `writeFileSync` is two steps, because a process can be killed between
them. A `fetch` that throws is taken by the script for an absent account, so
`SendConfig` and `SendFeed` are possible whatever the accounts hold, while
`FindConfig` and `FindFeed` need the account. `ExitSetup` is a kill, or the error
that `main().catch` ends with, a confirmation timeout for a transaction that
lands later included. `PushPrice` is one step: a key file never changes once it
holds a key (`KeyFilesStay`), so pushing late is the same as starting late.
Beside the scripts, anyone may create Config, the admin of the day may hand over
and may make the feed with an authority of their own choice (`FeedOps` of
`PriceFeed`); officials' wallets are none of the generated keys. `SomeHostCanPush`
says of every feed that its authority is such a wallet or a key in a host's file.

`Escrow` says what an owner is promised and nothing else: no prices, clock,
Config or statistics. `HwalEscrow` maps a position's status to its stage and its
collateral to the stake; wallets are the same on both sides.

Abstractions. Account keys, bumps and seeds beyond identity, events, logging,
symbols and decimals are left out. A Lazer payload is a record of the fields the
code reads from it. The ed25519 check is modelled as what it asks of the
instruction before this one: that it is the ed25519 program's and contains the
payload. The code does not look at whose signature that instruction verified, so
the time of a Lazer price in `published` is what its payload claims, and
`PriceAgeBounded`, `BoundedRollback` and `TickedPriceIsRecent` are about claimed
times. Rent paid for Config and feed accounts, and
transaction fees, are left out: they go to no account the properties speak of.
Fee receivers are wallets. The delegation program either fails, and the
instruction with it, or succeeds; what it keeps on its side is external.

## Runs and what they show

| run | question | bounds |
| --- | --- | --- |
| `feed` | how old can a served price be, how far can it roll back, is registration final; does a stale feed recover while its authority pushes | two officials, one feed, time 0..4, payload age 1, ids and channels right and wrong, payloads from the future and too old |
| `settlement` | does the handler, with its failures, do what one step does or nothing; why can a tick fail; can a settlement ever be stuck; is every account solvent, is a lamport created or lost, does the owner get the floor | every role can be the same wallet, one payee funded, one empty, an owner who can give all she has away; shipped basis-point limits, policies at and beyond the caps, changed at any time; collaterals that round; rent of the position account above two wallets' |
| `books` | do the statistics equal what was paid | two traders with a position each, two policies, fee receiver and admin rotated, fixed levels only (a trailing stop settles the same way), counters up to 2 |
| `time` | is a ticked price recent | time 0..4, staleness 2, payload age 1 |
| `trailing_history` | do triggers stay anchored; can arithmetic block a tick; can both levels hit; does a settled position stay as it is; does the extreme stand for the history; does a price that jumps past a level fire like one on it | one position, prices 0..4, levels and offsets 0..5, u64 limit 5, so that the overflow of a short is within reach; re-arming at any time |
| `escrow` | is the program an escrow: one deposit, one whole payout, capped shares | two positions, the trader may be the keeper, u64 limit 11, caps 4 and 3 of 10, a policy beyond a cap |
| `keeper` | does a running bot settle what is ready to fire | one bot, one position, two fee receivers, the feed stale after one clock step |
| `keeper_sweep` | can one position of a sweep starve the other | one bot, two positions, levels above the price |
| `setup` | can the feed be left with a key nobody has, or a key file lose its key; is completion claimed too early; does a diligent operator's setup complete, and a stale feed revive | two hosts of one admin, one of them diligent, another wallet that may be admin, two keys, either wallet as the authority of a feed made without the scripts, no Lazer payloads (they change no authority; the theorems allow them), feed stale after one clock step |

Why the bounds are enough. The rules compare prices with at most four numbers
(entry, extreme, stop, take-profit) and their differences; four price levels
give every order of these, with room to retreat by an offset after an advance.
The clock needs one second inside, on and outside each of the two windows.
Lamport properties relate one position to the wallets, or (counters, sums) two
positions to each other. `MIN_COLLATERAL_LAMPORTS` is scaled from 1 000 000 to
100 000 and the rent minima with it, keeping their order with what the caps
leave of it (`WalletRentAssumption`), because TLC's integers have 32 bits; the
basis points are the shipped ones. `escrow` and the `keeper` runs scale further, because the abstract steps
range over all amounts and liveness needs the whole graph; they ask nothing of
rounding. `setup` needs two keys and no more: a third generated key meets the
same two files. `COUNTER_MAX` is 0 where no property asks for counters (all passing
runs but `feed`, `books` and `time`): counters are saturated from the start,
which merges states that differ only in them. In `books` it is 2, the number of
positions, so that a position counted twice shows; that the counters agree where
they do saturate is left to the theorem (`CountersAlwaysAgree`). The theorems below hold for all
values.

Named bounds: `MaxTime` (clock), `COUNTER_MAX` (where counters saturate; 2^64 - 1
in the build), `MaxSurplus` (gifts to one account). Symmetry is used for traders
and officials in `books`, which has no liveness property. Deadlock
is checked in every run.

Fairness. `feed` assumes weak fairness of the authority's
`update_price_feed`, the operator's duty by `docs/architecture.md`, "Failure
modes", and nothing of Lazer, keepers or owners. The `keeper` runs assume that
the bot's process takes its next step (a loop with a timer, whose errors are
caught: weak fairness), and that of valid ticks it sends for a position again
and again one lands (strong fairness: a network that loses some transactions,
not all). Weak fairness is of the loop alone (`LoopSteps`, a fetch that succeeds in
the end included): `StartKeeper` is owed nothing, so a process that was stopped
may stay down, and nothing makes the feed, the owner or the admin act.
`RunningBotSettles` therefore speaks of a bot that runs and is in step with
Config: without the second half it is `FallbackSettles`, which fails.

The `setup` run assumes diligent operators, who start the setup and the pusher
again and again, and of each point where a run may fail that it does not fail
there for ever: not every run is killed at the same statement, not every fetch
errs and not every transaction is lost or wrongly reported (strong fairness of
the step that succeeds, since a kill can disable it in between). `.rpc()` returns
in the end, with a signature or a timeout (weak fairness of `Return`). The other
host, the other admin and the clock are owed nothing. `SetupCompletes` names the
two states a diligent operator cannot leave by running the script again: a torn
key file, of which `JSON.parse` throws on every run until somebody removes it,
and a Config of another admin with no feed.

Every property of a passing run has a mutant, an operator `Mut...` beside the
definition it changes, under which the run finds the property violated.

## Findings

Each is a run that TLC must find violated.

* `vault_drained_doc`: `docs/architecture.md` gives the owner the vault's balance
  less the shares; the code pays from the recorded collateral, and lamports sent
  to the account stay there.
* `keeper_fallback_doc`: the README calls the bot the fallback that ticks every
  open position; the bot names the fee receiver it read at its start, and after
  `update_config` changes that, every tick it sends is refused until someone
  restarts it.
* `setup_authority_doc`: a setup that finds the feed does not look at its
  authority, and reports its own key as the feed's; the pushes that `DEPLOY.md`
  has the operator make next are refused.

Differences seen and without a run: the threat model (line 45) has the
staleness check strict, the code accepts a price at exactly
`MAX_FEED_STALENESS_SECS`; a comment of `initialize_config.rs` (line 12) lets the
fee receiver be any account, while one without lamports fails every tick whose
fee is below a wallet's rent (`TicksFailOnlyForEmptyPayees`);
`docs/architecture.md` line 71 advances the extreme on each tick, the code only while a trailing stop is armed; the threat
model (line 47) relies on Lazer prices landing with their own timestamp, the
code stamps the clock (what that costs is `PriceAgeBounded` and
`BoundedRollback`); `docs/instructions.md` lists a
`vault` and a `system_program` account and a read-only Config for
`tick_position`; `docs/architecture.md` and the threat model describe CPI
transfers and a status written before them, where the program moves lamports
directly and writes the status after; a "zero feed" is listed as a failure mode
though no instruction can make one.

## Proofs

The eight proof modules hold for all values of the constants, from the named
assumptions `LimitsAssumption` (the two caps add up to at most the denominator),
`ConfigAssumption`, `FeedAssumption` and `HwalAssumption` (the inputs callers
try are of the argument types), `NoneAssumption` (a missing account is not a
record), `WalletRentAssumption` (the caps leave the owner a wallet's rent),
`BotAssumption` and `DevnetAssumption` (bots are keepers; generated keys are wallets,
and none of the officials'; markers are no wallets). What sums or counts accounts also uses `FinitenessAssumption` (there are
finitely many wallets and nonces: keys have 32 bytes, a nonce is a u64), and where
a balance must not overflow, `SupplyAssumption` (the wallets' lamports add up to a
u64, as the total supply does).

* `PriceFeed_proofs`: the inductive invariant `FeedInv` is the types with
  `PriceAgeBounded`, which is inductive by itself. `BoundedRollback` follows from
  it: the price replaced was not made after now, the new one at most the allowed
  age before. `UnregisteredFeedIsStamped` is inductive together with it. The
  step lemmas speak of `FeedNext`, and what the feeds see of the whole program is
  such a step or none (`FeedsOwnStep` in `Hwal_proofs`), so that they hold there
  too (`ProgramRegistrationFinal`, `ProgramRollbackBounded`).
* `Hwal_proofs`: `Inv` is the types, `FeedInv`, `TriggersAnchored` and `Solvent`.
  `TickArithmeticSafe` and `StopAndTakeProfitDisjoint` are not inductive: that a
  threshold cannot underflow needs the extreme on the winning side of the entry
  price and the offset below it, in every state, which is `TriggersAnchored`.
  `Solvent` is needed so that a settlement keeps the rent. Every instruction on a
  position replaces one record; `OneReplaced` says what that record and the
  account must satisfy, and each instruction has a lemma showing that it does.
  The action properties follow from `Inv` and from three lemmas saying which
  instructions take lamports out of an account (`FireEffect`, `CancelEffect`)
  and that no other does (`OtherEffects`). `JumpsStillFire` needs the anchoring for
  its second half (beyond a take-profit no stop is hit) and for its first that a
  price which fires a trailing stop never advances the extreme, nor does a worse
  one (`StopsBeyond`). Settlements rest on rounding: `SharesFit` says that shares
  whose rates add up to at most the whole fit into the amount, from
  `q * D <= x` for `q = x \div D`. `DrainedUnlessGiven` bounds a finding: with no
  gifts, an account holds exactly its collateral and its rent (`NoSurplus`), and
  the documents' "vault drained" is true.
* `HwalLedger_proofs`: first the theory of totals. A total is a fold over a set
  of accounts, and no induction theorem of the library can be used (they take
  operators); what it computes is proved by the smallest counterexample instead:
  the family of sets of accounts for which a claim fails, were it not empty, would
  have a smallest member (`SmallestSubset`, from the well-foundedness of the strict
  subsets of a finite set), and taking one account out of it contradicts its
  being one. So the fold is a sum in any order (`TotalWithout`), a change of one
  balance changes the total by as much (`TotalChange`), and no balance exceeds the
  total (`BalanceWithinTotal`).
  `LamportsConserved` is inductive beside `Inv`: each instruction that moves
  lamports is a transfer between one account and wallets (`OpenMoves`, `FireMoves`,
  `CancelMoves`, `GiftMoves`), and the three shares add up to the collateral whoever
  the payees are (`PayoutTotal`). `NeverStuck` follows: a wallet and an account
  together hold at most the supply (`RoomInWallets`), so no credit overflows
  (`PayoutBounded`), and `Solvent` and the caps do the rest.
  `CountersAgree` becomes inductive with `NothingBeforeConfig` (no position exists
  before Config does, or counters that start at zero would miss it); a cardinality
  that saturates and a counter that saturates then advance alike (`CappedGains`).
  `BooksMatchWallets` needs the fee receiver to be an official in every state, the
  two halves stated as equations of totals (`FeesBooked`, `RewardsBooked`), and
  that the statistics never saturate: what they count is in the wallets, which hold
  at most the supply (`BooksDoNotSaturate`, from conservation).
* `HwalEscrow_proofs`: `EscrowImplemented`, that every behaviour of `Spec` is one
  of `Escrow`. Each instruction has a lemma naming its abstract step: opening is
  `PutIn`, a fired tick `Split`, a cancel `Return`, a gift `GiveAway`; re-arming,
  ticks that do not fire, delegation and everything the admin and the feeds do
  are stutters. `Split` needs the caps on the policy in force (`ConfigTypeOK`)
  and `BpsMonotone`.
* `TrailingHistory_proofs`: `HistoryInv` ties every open position to its history:
  armed, its extreme is the best of `seen`; disarmed, it is the entry price. The
  second half is what an arming needs, which starts the history anew at the
  entry price while `update_triggers` leaves the extreme as it is unless the
  offset changes. `TrailingFiresOnRetreat` then needs that comparing the price with
  one threshold is comparing it with every price seen (`AdvancedIsBest` and the
  lemmas on `Retreat`).
* `TickHandler_proofs`: the inductive invariant says for every statement what the
  transaction's copies hold (`ExecInv`), in terms of the operators of `Hwal`
  applied to the accounts themselves, which do not change meanwhile. So the
  landing of the copies is `TickHold` or `TickFire` (`Held`, `Fired`), every other
  step a stutter, and the invariant `Inv` of `Hwal` carries over.
  `EmptyPayeesOnly` is proved in two parts. That a tick which is possible as one
  step fails only for a payee's rent (`PossibleTicksFailForPayees`) is inductive with
  `CollateralFloor` (an open position's collateral is at least the minimum), by which
  the owner's part always exceeds a wallet's rent; each step that can fail has a
  lemma naming the reason. That a tick of an open position with a fresh feed is
  possible comes from the whole program: its threshold is a u64 (`ThresholdSafe`)
  and its settlement fits (`SettlementAlwaysFits`, from conservation), which hold of
  the handler because it implements the program (`HandlerImplementsTick`). The
  same way conservation, `NeverStuck` and the escrow hold between its statements.
* `KeeperBot_proofs`: a step of a bot or the network is a step of the program or
  leaves it alone (`KeeperIsProgram`), for which a pending tick must be signed by
  a keeper: hence the invariant with the types and a fee receiver in every running
  bot. All theorems about `Spec` hold beside any number of bots; `SettledOnce` and
  `BotsConserve` spell some out. Of `RunningBotSettles` the safety half is proved:
  a pending tick that is ready to fire meets no error of the settlement
  (`PendingTicksFit`), and landing it settles the position (`LandingSettles`).
* `Devnet_proofs`: `DevnetInv` follows a key from its generation: a run past the
  writing of the file holds the file's key (`KeysKept`), every key that a
  transaction names is in some file (`Sent`), and no step overwrites a file that
  holds a key (`KeysStay`, which is also `KeyFilesStay`). `SomeHostCanPush` is not inductive without `Sent`: a
  transaction can land long after the run that sent it. What others do to a feed
  keeps its authority, or makes a new feed with an official's (`FeedOpsAuthority`).

Only model-checked: liveness (`StaleFeedRecovers`, `RunningBotSettles`,
`SetupCompletes`, `PusherRevivesFeed`), since the provers have no rule for fairness
and `ENABLED`, and the three violations, which are counterexamples. Every invariant
and every action property of a passing run is proved.

## Not modelled

Events and errors: nothing reads them, and a failed instruction is no step. The
Ephemeral Rollup and the delegation program: external; the program's part is the
two instructions and the flag, and what they keep of the position on their side
is not in the repository. Two setups at once on one host: the script is run by
hand, and a host stands for one operator's machine. The IDL, build files, the
smoke test and examples: generated, or fixed scenarios of calls made here in
every order.

## Plan

1. Done: limits, triggers, Config, feeds, positions and lamports; the abstract
   escrow and its refinement; the keeper bot with liveness; the handler of a
   tick with its failures; the devnet scripts; invariants, action properties
   and refinements proved.
2. Done: totals over accounts, conservation, the statistics, and that no
   settlement is ever stuck, carried over to the handler and the keepers.
3. Left: the step from one landing to the next in the liveness arguments, as
   lemmas without `ENABLED` (what a diligent operator's step leaves behind, what
   a push does to a stale feed); the abstract escrow's own invariants.
