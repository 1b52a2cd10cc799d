----------------------------- MODULE PriceFeed ------------------------------
(***************************************************************************)
(* The PriceFeed accounts (state/price_feed.rs), one per symbol, with the  *)
(* four instructions that write them and the validator clock they read.    *)
(*                                                                         *)
(* published[s] is a history variable: when the price now in feed s was    *)
(* made, that is the clock for a price the authority or the admin wrote    *)
(* and the time that the payload claims for a Lazer price: the code asks   *)
(* that the payload was signed, not which Lazer signer signed it.  The     *)
(* account does not store it: last_updated is the clock at the write in    *)
(* every case.                                                             *)
(***************************************************************************)
EXTENDS Config

CONSTANTS
    Symbols,
    Prices,                       \* the prices callers try, 0 among them
    LazerIds,
    Channels,                     \* channel numbers callers try, beyond 2 too
    MaxTime,                      \* bound on the clock
    MAX_FEED_STALENESS_SECS,
    MAX_LAZER_PAYLOAD_AGE_SECS

ASSUME FeedAssumption ==
    /\ Prices \subseteq U64
    /\ LazerIds \subseteq U64 /\ Channels \subseteq Nat
    /\ MaxTime \in Nat
    /\ MAX_FEED_STALENESS_SECS \in Nat
    /\ MAX_LAZER_PAYLOAD_AGE_SECS \in Nat

VARIABLES
    now,          \* Clock::get()?.unix_timestamp, which never goes back
    feed,
    published

feedVars == <<now, feed, published>>

FEED_SOURCE_AUTHORITY == 0
FEED_SOURCE_LAZER     == 1
LAZER_CHANNEL_200MS   == 2

Time == 0..MaxTime

PriceFeedRecord ==
    [authority : Wallets, price : U64 \ {0}, last_updated : Time,
     update_count : Counter,
     source : {FEED_SOURCE_AUTHORITY, FEED_SOURCE_LAZER},
     lazer_channel : 0..LAZER_CHANNEL_200MS, lazer_feed_id : U64]

FeedTypeOK ==
    /\ now \in Time
    /\ feed \in [Symbols -> PriceFeedRecord \cup {None}]
    /\ published \in [Symbols -> Int]

FeedInit ==
    /\ now = 0
    /\ feed = [s \in Symbols |-> None]
    /\ published = [s \in Symbols |-> 0]

-----------------------------------------------------------------------------
\* Mutant of Fresh: a price never goes stale.
MutFreshIfPriced(s) == feed[s].price > 0

\* Every reader of a feed makes this check.  last_updated is never ahead of
\* the clock, so the saturating subtraction is a plain one.
Fresh(s) ==
    /\ feed[s].price > 0
    /\ now - feed[s].last_updated <= MAX_FEED_STALENESS_SECS

\* What both price updates write; made is the time the price was made.
WritePrice(s, price, made) ==
    /\ feed' = [feed EXCEPT ![s].price = price,
                            ![s].last_updated = now,
                            ![s].update_count = Bump(@)]
    /\ published' = [published EXCEPT ![s] = made]
    /\ UNCHANGED <<config, now>>

\* Mutant of InitializePriceFeed: a feed may start without a price.
MutInitializeUnpriced(signer, authority, s, price) ==
    /\ config # None
    /\ signer = config.admin
    /\ feed[s] = None
    /\ feed' = [feed EXCEPT ![s] =
         [authority |-> authority, price |-> price, last_updated |-> now,
          update_count |-> 0, source |-> FEED_SOURCE_AUTHORITY,
          lazer_channel |-> 0, lazer_feed_id |-> 0]]
    /\ published' = [published EXCEPT ![s] = now]
    /\ UNCHANGED <<config, now>>

InitializePriceFeed(signer, authority, s, price) ==
    /\ config # None
    /\ signer = config.admin
    /\ feed[s] = None
    /\ price > 0
    /\ feed' = [feed EXCEPT ![s] =
         [authority |-> authority, price |-> price, last_updated |-> now,
          update_count |-> 0, source |-> FEED_SOURCE_AUTHORITY,
          lazer_channel |-> 0, lazer_feed_id |-> 0]]
    /\ published' = [published EXCEPT ![s] = now]
    /\ UNCHANGED <<config, now>>

\* Mutants of UpdatePriceFeed: a zero price is accepted; the authority loses
\* the feed once it is registered with Lazer.
MutUpdateToZero(signer, s, price) ==
    /\ feed[s] # None
    /\ signer = feed[s].authority
    /\ WritePrice(s, price, now)

MutUpdateBeforeLazerOnly(signer, s, price) ==
    /\ feed[s] # None
    /\ signer = feed[s].authority
    /\ feed[s].source = FEED_SOURCE_AUTHORITY
    /\ price > 0
    /\ WritePrice(s, price, now)

\* The source of the feed is not looked at: the authority may override a
\* feed that takes its prices from Lazer.
UpdatePriceFeed(signer, s, price) ==
    /\ feed[s] # None
    /\ signer = feed[s].authority
    /\ price > 0
    /\ WritePrice(s, price, now)

\* Mutant of RegisterLazerFeed: a registered feed can be registered again.
MutReregister(signer, s, id, channel) ==
    /\ config # None
    /\ signer = config.admin
    /\ feed[s] # None
    /\ channel <= LAZER_CHANNEL_200MS
    /\ feed' = [feed EXCEPT ![s].source = FEED_SOURCE_LAZER,
                            ![s].lazer_feed_id = id,
                            ![s].lazer_channel = channel]
    /\ UNCHANGED <<config, now, published>>

RegisterLazerFeed(signer, s, id, channel) ==
    /\ config # None
    /\ signer = config.admin
    /\ feed[s] # None
    /\ channel <= LAZER_CHANNEL_200MS
    /\ feed[s].source = FEED_SOURCE_AUTHORITY
    /\ feed' = [feed EXCEPT ![s].source = FEED_SOURCE_LAZER,
                            ![s].lazer_feed_id = id,
                            ![s].lazer_channel = channel]
    /\ UNCHANGED <<config, now, published>>
-----------------------------------------------------------------------------
\* A Lazer payload names the feed, the time, the price and the channel;
\* a payload too short to hold them is rejected and is no step.
LazerPayload ==
    [feed_id : LazerIds, timestamp : -1 .. MaxTime + 1,
     price : Prices, channel : Channels]

\* The instruction just before this one in the same transaction, as the
\* instructions sysvar reports it: none, or a program and the payloads its
\* data contains.
PriorInstructions(payload) ==
    {None} \cup [program_id : {"ed25519", "other"}, data : SUBSET {payload}]

SignaturePresent(prior, payload) ==
    /\ prior # None
    /\ prior.program_id = "ed25519"
    /\ payload \in prior.data

\* Mutants of PayloadTimely: one end of the window is not checked.
MutAnyAge(payload) == now - payload.timestamp >= 0

MutFromTheFuture(payload) ==
    now - payload.timestamp <= MAX_LAZER_PAYLOAD_AGE_SECS

\* The saturating i64 subtraction differs from this one only for ages far
\* outside the window.
PayloadTimely(payload) ==
    LET age == now - payload.timestamp
    IN  age >= 0 /\ age <= MAX_LAZER_PAYLOAD_AGE_SECS

\* Mutant of PayloadMatchesFeed: an unregistered feed takes payloads too.
MutAnySource(s, payload) ==
    /\ payload.price > 0
    /\ payload.feed_id = feed[s].lazer_feed_id
    /\ payload.channel = feed[s].lazer_channel

\* What the program requires of the payload for this feed.
PayloadMatchesFeed(s, payload) ==
    /\ feed[s].source = FEED_SOURCE_LAZER
    /\ payload.price > 0
    /\ payload.feed_id = feed[s].lazer_feed_id
    /\ payload.channel = feed[s].lazer_channel

\* Anyone may post; nothing relates the payload's timestamp to that of the
\* price it replaces.
UpdatePriceFeedFromLazer(s, payload, prior) ==
    /\ feed[s] # None
    /\ PayloadMatchesFeed(s, payload)
    /\ PayloadTimely(payload)
    /\ SignaturePresent(prior, payload)
    /\ WritePrice(s, payload.price, payload.timestamp)

\* The validator moves the Clock sysvar; many transactions can share one
\* second, and a step of one second stands for any delay.
AdvanceClock ==
    /\ now < MaxTime
    /\ now' = now + 1
    /\ UNCHANGED <<config, feed, published>>

-----------------------------------------------------------------------------
LazerOps ==
    \/ \E signer \in Officials, s \in Symbols, id \in LazerIds, channel \in Channels :
          RegisterLazerFeed(signer, s, id, channel)
    \/ \E s \in Symbols, payload \in LazerPayload :
          \E prior \in PriorInstructions(payload) :
             UpdatePriceFeedFromLazer(s, payload, prior)

FeedOps ==
    \/ \E signer, authority \in Officials, s \in Symbols, price \in Prices :
          InitializePriceFeed(signer, authority, s, price)
    \/ \E signer \in Officials, s \in Symbols, price \in Prices :
          UpdatePriceFeed(signer, s, price)
    \/ LazerOps
    \/ AdvanceClock

FeedNext == FeedOps \/ (ConfigOps /\ UNCHANGED feedVars)

FeedStart == ConfigInit /\ FeedInit

FeedSpec == FeedStart /\ [][FeedNext]_<<config, feedVars>>

\* The feed authority keeps pushing when its feed has gone stale
\* (docs/architecture.md, "Failure modes": the feed authority needs to push
\* a price).  Nothing else is assumed to happen: Lazer may stay silent.
AuthorityPush(s) ==
    \E signer \in Officials, price \in Prices : UpdatePriceFeed(signer, s, price)

FeedFairSpec ==
    FeedSpec /\ \A s \in Symbols : WF_<<config, feedVars>>(AuthorityPush(s))

-----------------------------------------------------------------------------
(* Properties *)

\* The price a feed serves was made at most MAX_LAZER_PAYLOAD_AGE_SECS before
\* the time stamped on it and never after it, whichever of the three writers
\* wrote it and in whatever order late and repeated payloads arrived.
\* (update_price_feed_from_lazer.rs stamps the clock, not the payload time.)
PriceAgeBounded ==
    \A s \in Symbols : feed[s] # None =>
        /\ published[s] <= feed[s].last_updated
        /\ feed[s].last_updated - published[s] <= MAX_LAZER_PAYLOAD_AGE_SECS
        /\ feed[s].last_updated <= now

\* Until the admin registers a feed with Lazer only its authority has priced
\* it: the price is as old as its stamp says.
UnregisteredFeedIsStamped ==
    \A s \in Symbols :
        (feed[s] # None /\ feed[s].source = FEED_SOURCE_AUTHORITY)
            => published[s] = feed[s].last_updated

\* Payloads posted late or out of order can replace a newer price by an older
\* one, but never by one more than MAX_LAZER_PAYLOAD_AGE_SECS older.
BoundedRollback ==
    [][\A s \in Symbols : feed[s] # None =>
          published'[s] >= published[s] - MAX_LAZER_PAYLOAD_AGE_SECS]_<<config, feedVars>>

\* Registration is final: no instruction, in any order and by any admin of
\* the day, unregisters a Lazer feed or points it at another Lazer id or
\* channel, so positions opened on it keep their price source.
LazerRegistrationIsFinal ==
    [][\A s \in Symbols :
          (feed[s] # None /\ feed[s].source = FEED_SOURCE_LAZER) =>
             /\ feed'[s].source = FEED_SOURCE_LAZER
             /\ feed'[s].lazer_feed_id = feed[s].lazer_feed_id
             /\ feed'[s].lazer_channel = feed[s].lazer_channel]_<<config, feedVars>>

\* A Lazer outage does not freeze a feed: while its authority keeps pushing,
\* a stale feed becomes fresh again, also when the feed takes its prices from
\* Lazer (ROADMAP.md, "Fallback path").
StaleFeedRecovers ==
    \A s \in Symbols :
        (feed[s] # None /\ ~Fresh(s)) ~> (feed[s] # None /\ Fresh(s))
=============================================================================
