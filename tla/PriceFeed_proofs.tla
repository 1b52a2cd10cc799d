-------------------------- MODULE PriceFeed_proofs --------------------------
(***************************************************************************)
(* Theorems about Config and PriceFeed, for all values of the constants.   *)
(*                                                                         *)
(* The step lemmas speak of FeedNext alone, so that the proofs about Hwal, *)
(* whose administrative steps are FeedNext steps, can cite them.           *)
(***************************************************************************)
EXTENDS PriceFeed, TLAPS

feedSpecVars == <<config, feedVars>>

USE LimitsAssumption, ConfigAssumption, FeedAssumption

-----------------------------------------------------------------------------
LEMMA BumpIsCounter == \A n \in Counter : Bump(n) \in Counter
BY DEF Counter, Bump, SaturatingAdd

\* A new Config, whoever creates it.
LEMMA ConfigCreated ==
    ASSUME NEW admin \in Wallets, NEW receiver \in Wallets,
           NEW fee \in Nat, NEW reward \in Nat,
           InitializeConfig(admin, receiver, fee, reward)
    PROVE  config' \in ConfigRecord
BY DEF InitializeConfig, ConfigRecord, Counter, U64

LEMMA ConfigUpdated ==
    ASSUME ConfigTypeOK, NEW signer,
           NEW admin \in Wallets \cup {None}, NEW receiver \in Wallets \cup {None},
           NEW fee \in Nat \cup {None}, NEW reward \in Nat \cup {None},
           UpdateConfig(signer, admin, receiver, fee, reward)
    PROVE  config' \in ConfigRecord
<1>1. config \in ConfigRecord
  BY DEF UpdateConfig, ConfigTypeOK
<1>2. /\ Given(admin, config.admin) \in Wallets
      /\ Given(receiver, config.fee_receiver) \in Wallets
  BY <1>1 DEF Given, ConfigRecord
<1>3. Given(fee, config.fee_bps) \in 0..MAX_FEE_BPS
  BY <1>1 DEF Given, ConfigRecord, UpdateConfig
<1>4. Given(reward, config.keeper_reward_bps) \in 0..MAX_KEEPER_REWARD_BPS
  BY <1>1 DEF Given, ConfigRecord, UpdateConfig
<1> QED
  BY <1>1, <1>2, <1>3, <1>4 DEF UpdateConfig, ConfigRecord

LEMMA ConfigTypeStep == ConfigTypeOK /\ ConfigOps => ConfigTypeOK'
<1> SUFFICES ASSUME ConfigTypeOK, ConfigOps
             PROVE  ConfigTypeOK'
    OBVIOUS
<1>1. ASSUME NEW admin \in Officials, NEW receiver \in Officials,
             NEW fee \in BpsInputs, NEW reward \in BpsInputs,
             InitializeConfig(admin, receiver, fee, reward)
      PROVE  ConfigTypeOK'
  BY <1>1, ConfigCreated DEF ConfigTypeOK
<1>2. ASSUME NEW signer \in Officials,
             NEW admin \in Officials \cup {None}, NEW receiver \in Officials \cup {None},
             NEW fee \in BpsInputs \cup {None}, NEW reward \in BpsInputs \cup {None},
             UpdateConfig(signer, admin, receiver, fee, reward)
      PROVE  ConfigTypeOK'
  BY <1>2, ConfigUpdated DEF ConfigTypeOK
<1> QED
  BY <1>1, <1>2 DEF ConfigOps
-----------------------------------------------------------------------------
FeedInv == FeedTypeOK /\ PriceAgeBounded

\* The two ways a feed record is rewritten keep its type.
LEMMA RepricedRecord ==
    ASSUME NEW r \in PriceFeedRecord, NEW price \in U64 \ {0}, NEW t \in Time,
           NEW c \in Counter
    PROVE  [r EXCEPT !.price = price, !.last_updated = t, !.update_count = c]
              \in PriceFeedRecord
BY DEF PriceFeedRecord

LEMMA RegisteredRecord ==
    ASSUME NEW r \in PriceFeedRecord, NEW id \in U64,
           NEW channel \in 0..LAZER_CHANNEL_200MS
    PROVE  [r EXCEPT !.source = FEED_SOURCE_LAZER, !.lazer_feed_id = id,
                     !.lazer_channel = channel] \in PriceFeedRecord
BY DEF PriceFeedRecord

LEMMA WritePriceStep ==
    ASSUME FeedInv, NEW s \in Symbols, feed[s] # None,
           NEW price \in U64, price > 0,
           NEW made \in Int, made <= now, now - made <= MAX_LAZER_PAYLOAD_AGE_SECS,
           WritePrice(s, price, made)
    PROVE  FeedInv'
<1> USE DEF FeedInv
<1>1. feed[s] \in PriceFeedRecord /\ now' = now /\ now \in Time
  BY DEF WritePrice, FeedTypeOK
<1>2. /\ price \in U64 \ {0}
      /\ Bump(feed[s].update_count) \in Counter
  BY <1>1, BumpIsCounter DEF PriceFeedRecord, U64
<1>3. feed'[s] \in PriceFeedRecord /\ feed'[s].last_updated = now
  <2> DEFINE r == [feed[s] EXCEPT !.price = price, !.last_updated = now,
                                  !.update_count = Bump(feed[s].update_count)]
  <2>1. feed'[s] = r
    BY DEF WritePrice, FeedTypeOK
  <2>2. r \in PriceFeedRecord
    BY <1>1, <1>2, RepricedRecord
  <2>3. r.last_updated = now
    BY <1>1 DEF PriceFeedRecord
  <2> QED
    BY <2>1, <2>2, <2>3
<1>4. FeedTypeOK'
  <2>1. feed' = [feed EXCEPT ![s] = feed'[s]]
    BY DEF WritePrice, FeedTypeOK
  <2> QED
    BY <1>1, <1>3, <2>1 DEF FeedTypeOK, WritePrice
<1>5. PriceAgeBounded'
  BY <1>1, <1>3 DEF PriceAgeBounded, WritePrice, FeedTypeOK, Time
<1> QED
  BY <1>4, <1>5

\* A new feed, whichever wallet is its authority.
LEMMA FeedCreated ==
    ASSUME FeedInv, NEW signer, NEW authority \in Wallets, NEW s \in Symbols,
           NEW price \in U64, InitializePriceFeed(signer, authority, s, price)
    PROVE  FeedInv'
<1> USE DEF FeedInv
<1>1. FeedTypeOK'
  <2>0. price > 0 /\ price \in U64
    BY DEF InitializePriceFeed
  <2>1. price \in U64 \ {0} /\ 0 \in U64
    BY <2>0 DEF U64
  <2>2. 0 \in Counter /\ now \in Time
    BY DEF FeedTypeOK, Counter
  <2>4. /\ 0 \in 0..LAZER_CHANNEL_200MS
        /\ FEED_SOURCE_AUTHORITY \in {FEED_SOURCE_AUTHORITY, FEED_SOURCE_LAZER}
    BY DEF LAZER_CHANNEL_200MS
  <2>3. [authority |-> authority, price |-> price, last_updated |-> now,
         update_count |-> 0, source |-> FEED_SOURCE_AUTHORITY,
         lazer_channel |-> 0, lazer_feed_id |-> 0] \in PriceFeedRecord
    BY <2>1, <2>2, <2>4 DEF PriceFeedRecord
  <2>5. feed' \in [Symbols -> PriceFeedRecord \cup {None}]
    BY <2>3 DEF InitializePriceFeed, FeedTypeOK
  <2>6. now' = now /\ published' \in [Symbols -> Int]
    BY DEF InitializePriceFeed, FeedTypeOK, Time
  <2> QED
    BY <2>5, <2>6 DEF FeedTypeOK
<1>2. now' = now /\ feed'[s].last_updated = now /\ published'[s] = now
  BY DEF InitializePriceFeed, FeedTypeOK
<1>3. \A t \in Symbols : t # s => feed'[t] = feed[t] /\ published'[t] = published[t]
  BY DEF InitializePriceFeed, FeedTypeOK
<1>4. PriceAgeBounded'
  BY <1>2, <1>3 DEF FeedTypeOK, PriceAgeBounded, Time
<1> QED
  BY <1>1, <1>4

LEMMA FeedOpsStep == FeedInv /\ ConfigTypeOK /\ FeedOps => FeedInv'
<1> SUFFICES ASSUME FeedInv, ConfigTypeOK, FeedOps
             PROVE  FeedInv'
    OBVIOUS
<1> USE DEF FeedInv
<1>1. ASSUME NEW signer \in Officials, NEW authority \in Officials,
             NEW s \in Symbols, NEW price \in Prices,
             InitializePriceFeed(signer, authority, s, price)
      PROVE  FeedInv'
  BY <1>1, FeedCreated
<1>2. ASSUME NEW signer \in Officials, NEW s \in Symbols, NEW price \in Prices,
             UpdatePriceFeed(signer, s, price)
      PROVE  FeedInv'
  BY <1>2, WritePriceStep DEF UpdatePriceFeed, FeedTypeOK, Time
<1>3. ASSUME NEW signer \in Officials, NEW s \in Symbols,
             NEW id \in LazerIds, NEW channel \in Channels,
             RegisterLazerFeed(signer, s, id, channel)
      PROVE  FeedInv'
  <2>1. /\ feed[s] \in PriceFeedRecord
        /\ now' = now /\ published' = published
    BY <1>3 DEF RegisterLazerFeed, FeedTypeOK
  <2>2. id \in U64 /\ channel \in 0..LAZER_CHANNEL_200MS
    BY <1>3 DEF RegisterLazerFeed, LAZER_CHANNEL_200MS
  <2> DEFINE r == [feed[s] EXCEPT !.source = FEED_SOURCE_LAZER, !.lazer_feed_id = id,
                                  !.lazer_channel = channel]
  <2>3. /\ feed'[s] \in PriceFeedRecord
        /\ feed'[s].last_updated = feed[s].last_updated
        /\ feed' = [feed EXCEPT ![s] = feed'[s]]
    <3>1. feed'[s] = r /\ feed' = [feed EXCEPT ![s] = feed'[s]]
      BY <1>3 DEF RegisterLazerFeed, FeedTypeOK
    <3>2. r \in PriceFeedRecord
      BY <2>1, <2>2, RegisteredRecord
    <3>3. r.last_updated = feed[s].last_updated
      BY <2>1 DEF PriceFeedRecord
    <3> QED
      BY <3>1, <3>2, <3>3
  <2>5. FeedTypeOK'
    BY <2>1, <2>3 DEF FeedTypeOK
  <2>4. PriceAgeBounded'
    BY <1>3, <2>1, <2>3 DEF PriceAgeBounded, FeedTypeOK, RegisterLazerFeed
  <2> QED
    BY <2>4, <2>5
<1>4. ASSUME NEW s \in Symbols, NEW payload \in LazerPayload,
             NEW prior \in PriorInstructions(payload),
             UpdatePriceFeedFromLazer(s, payload, prior)
      PROVE  FeedInv'
  <2>1. /\ feed[s] # None
        /\ payload.price \in U64 /\ payload.price > 0
        /\ WritePrice(s, payload.price, payload.timestamp)
    BY <1>4 DEF UpdatePriceFeedFromLazer, PayloadMatchesFeed, LazerPayload
  <2>2. /\ payload.timestamp \in Int /\ payload.timestamp <= now
        /\ now - payload.timestamp <= MAX_LAZER_PAYLOAD_AGE_SECS
    BY <1>4 DEF UpdatePriceFeedFromLazer, PayloadTimely, LazerPayload, FeedTypeOK, Time
  <2> QED
    BY <2>1, <2>2, WritePriceStep
<1>5. ASSUME AdvanceClock
      PROVE  FeedInv'
  <2>1. FeedTypeOK'
    BY <1>5 DEF AdvanceClock, FeedTypeOK, Time
  <2>2. PriceAgeBounded'
    BY <1>5 DEF AdvanceClock, FeedTypeOK, PriceAgeBounded, Time, PriceFeedRecord
  <2> QED
    BY <2>1, <2>2
<1> QED
  BY <1>1, <1>2, <1>3, <1>4, <1>5 DEF FeedOps, LazerOps

LEMMA FeedInit0 == FeedStart => ConfigTypeOK /\ FeedInv
BY DEF FeedStart, ConfigInit, FeedInit, ConfigTypeOK, FeedInv, FeedTypeOK, PriceAgeBounded, Time

LEMMA FeedStep ==
    ConfigTypeOK /\ FeedInv /\ [FeedNext]_feedSpecVars => ConfigTypeOK' /\ FeedInv'
<1> SUFFICES ASSUME ConfigTypeOK, FeedInv, [FeedNext]_feedSpecVars
             PROVE  ConfigTypeOK' /\ FeedInv'
    OBVIOUS
<1>1. CASE FeedOps
  <2>1. config' = config
    BY <1>1 DEF FeedOps, LazerOps, InitializePriceFeed, UpdatePriceFeed, RegisterLazerFeed,
                UpdatePriceFeedFromLazer, AdvanceClock, WritePrice
  <2> QED
    BY <1>1, <2>1, FeedOpsStep DEF ConfigTypeOK
<1>2. CASE ConfigOps /\ UNCHANGED feedVars
  BY <1>2, ConfigTypeStep
     DEF feedVars, FeedInv, FeedTypeOK, PriceAgeBounded
<1>3. CASE UNCHANGED feedSpecVars
  BY <1>3 DEF feedSpecVars, feedVars, ConfigTypeOK, FeedInv, FeedTypeOK, PriceAgeBounded
<1> QED
  BY <1>1, <1>2, <1>3 DEF FeedNext

THEOREM FeedInvariant == FeedSpec => [](ConfigTypeOK /\ FeedInv)
<1>1. FeedStart => ConfigTypeOK /\ FeedInv
  BY FeedInit0
<1>2. (ConfigTypeOK /\ FeedInv) /\ [FeedNext]_<<config, feedVars>>
        => (ConfigTypeOK /\ FeedInv)'
  BY FeedStep DEF feedSpecVars
<1> QED
  BY <1>1, <1>2, PTL DEF FeedSpec

\* The accounts always have their types: a feed that exists has a price above
\* zero, whichever instruction wrote it last.
THEOREM FeedTypeCorrect == FeedSpec => [](ConfigTypeOK /\ FeedTypeOK)
<1>1. ConfigTypeOK /\ FeedInv => ConfigTypeOK /\ FeedTypeOK
  BY DEF FeedInv
<1> QED
  BY <1>1, FeedInvariant, PTL

\* The price a feed serves is at most MAX_LAZER_PAYLOAD_AGE_SECS older than
\* the time stamped on it (update_price_feed_from_lazer.rs:50-62).
THEOREM PriceAgeIsBounded == FeedSpec => []PriceAgeBounded
<1>1. ConfigTypeOK /\ FeedInv => PriceAgeBounded
  BY DEF FeedInv
<1> QED
  BY <1>1, FeedInvariant, PTL

-----------------------------------------------------------------------------
LEMMA RollbackStep ==
    ASSUME FeedInv, [FeedNext]_feedSpecVars, NEW s \in Symbols, feed[s] # None
    PROVE  published'[s] >= published[s] - MAX_LAZER_PAYLOAD_AGE_SECS
<1> USE DEF FeedInv
<1>1. /\ published[s] \in Int /\ now \in Int
      /\ published[s] <= now
  BY DEF FeedTypeOK, PriceAgeBounded, Time, PriceFeedRecord
<1>2. ASSUME NEW t \in Symbols, NEW made \in Int, NEW price,
             now - made <= MAX_LAZER_PAYLOAD_AGE_SECS,
             WritePrice(t, price, made)
      PROVE  published'[s] >= published[s] - MAX_LAZER_PAYLOAD_AGE_SECS
  <2>1. published'[s] = IF s = t THEN made ELSE published[s]
    BY <1>2 DEF WritePrice, FeedTypeOK
  <2> QED
    BY <1>1, <1>2, <2>1
<1>3. ASSUME published' = published
      PROVE  published'[s] >= published[s] - MAX_LAZER_PAYLOAD_AGE_SECS
  BY <1>1, <1>3
<1>4. ASSUME NEW signer \in Officials, NEW authority \in Officials,
             NEW t \in Symbols, NEW price \in Prices,
             InitializePriceFeed(signer, authority, t, price)
      PROVE  published'[s] >= published[s] - MAX_LAZER_PAYLOAD_AGE_SECS
  <2>1. s # t /\ published' = [published EXCEPT ![t] = now]
    BY <1>4 DEF InitializePriceFeed
  <2>2. published'[s] = published[s]
    BY <2>1 DEF FeedTypeOK
  <2> QED
    BY <1>1, <2>2
<1>5. ASSUME NEW signer \in Officials, NEW t \in Symbols, NEW price \in Prices,
             UpdatePriceFeed(signer, t, price)
      PROVE  published'[s] >= published[s] - MAX_LAZER_PAYLOAD_AGE_SECS
  <2>1. WritePrice(t, price, now) /\ now - now <= MAX_LAZER_PAYLOAD_AGE_SECS
    BY <1>1, <1>5 DEF UpdatePriceFeed
  <2> QED
    BY <1>1, <1>2, <2>1
<1>6. ASSUME NEW t \in Symbols, NEW payload \in LazerPayload,
             NEW prior \in PriorInstructions(payload),
             UpdatePriceFeedFromLazer(t, payload, prior)
      PROVE  published'[s] >= published[s] - MAX_LAZER_PAYLOAD_AGE_SECS
  <2>1. /\ payload.timestamp \in Int
        /\ now - payload.timestamp <= MAX_LAZER_PAYLOAD_AGE_SECS
        /\ WritePrice(t, payload.price, payload.timestamp)
    BY <1>6 DEF UpdatePriceFeedFromLazer, PayloadTimely, LazerPayload
  <2> QED
    BY <1>2, <2>1
<1>7. CASE FeedOps
  <2>1. ASSUME NEW signer \in Officials, NEW t \in Symbols,
               NEW id \in LazerIds, NEW channel \in Channels,
               RegisterLazerFeed(signer, t, id, channel)
        PROVE  published' = published
    BY <2>1 DEF RegisterLazerFeed
  <2>2. AdvanceClock => published' = published
    BY DEF AdvanceClock
  <2> QED
    BY <1>3, <1>4, <1>5, <1>6, <1>7, <2>1, <2>2 DEF FeedOps, LazerOps
<1> QED
  BY <1>3, <1>7 DEF FeedNext, feedSpecVars, feedVars

\* A late payload can replace a newer price, but the price served never goes
\* back in time by more than MAX_LAZER_PAYLOAD_AGE_SECS in one step.
THEOREM RollbackIsBounded == FeedSpec => BoundedRollback
<1>1. /\ ConfigTypeOK /\ FeedInv
      /\ [FeedNext]_<<config, feedVars>>
      => [\A s \in Symbols : feed[s] # None =>
            published'[s] >= published[s] - MAX_LAZER_PAYLOAD_AGE_SECS]_<<config, feedVars>>
  BY RollbackStep DEF feedSpecVars
<1> QED
  BY <1>1, FeedInvariant, PTL DEF FeedSpec, BoundedRollback

-----------------------------------------------------------------------------
LEMMA RegistrationStep ==
    ASSUME FeedInv, [FeedNext]_feedSpecVars, NEW s \in Symbols,
           feed[s] # None, feed[s].source = FEED_SOURCE_LAZER
    PROVE  /\ feed'[s].source = FEED_SOURCE_LAZER
           /\ feed'[s].lazer_feed_id = feed[s].lazer_feed_id
           /\ feed'[s].lazer_channel = feed[s].lazer_channel
<1> DEFINE Kept == /\ feed'[s].source = FEED_SOURCE_LAZER
                   /\ feed'[s].lazer_feed_id = feed[s].lazer_feed_id
                   /\ feed'[s].lazer_channel = feed[s].lazer_channel
<1>1. feed \in [Symbols -> PriceFeedRecord \cup {None}] /\ feed[s] \in PriceFeedRecord
  BY DEF FeedInv, FeedTypeOK
<1>2. ASSUME feed'[s] = feed[s]
      PROVE  Kept
  BY <1>2
<1>3. ASSUME NEW t \in Symbols, NEW price, NEW made, WritePrice(t, price, made)
      PROVE  Kept
  <2>1. CASE s # t
    BY <1>1, <1>2, <1>3, <2>1 DEF WritePrice
  <2>2. CASE s = t
    <3> DEFINE r == [feed[s] EXCEPT !.price = price, !.last_updated = now,
                                    !.update_count = Bump(feed[s].update_count)]
    <3>1. feed'[s] = r
      BY <1>1, <1>3, <2>2 DEF WritePrice
    <3>2. /\ r.source = feed[s].source
          /\ r.lazer_feed_id = feed[s].lazer_feed_id
          /\ r.lazer_channel = feed[s].lazer_channel
      BY <1>1 DEF PriceFeedRecord
    <3> QED
      BY <3>1, <3>2
  <2> QED
    BY <2>1, <2>2
<1>4. ASSUME NEW signer \in Officials, NEW authority \in Officials,
             NEW t \in Symbols, NEW price \in Prices,
             InitializePriceFeed(signer, authority, t, price)
      PROVE  Kept
  <2>1. s # t
    BY <1>4 DEF InitializePriceFeed
  <2> QED
    BY <1>1, <1>2, <1>4, <2>1 DEF InitializePriceFeed
<1>5. ASSUME NEW signer \in Officials, NEW t \in Symbols,
             NEW id \in LazerIds, NEW channel \in Channels,
             RegisterLazerFeed(signer, t, id, channel)
      PROVE  Kept
  <2>1. s # t
    BY <1>5 DEF RegisterLazerFeed, FEED_SOURCE_AUTHORITY, FEED_SOURCE_LAZER
  <2> QED
    BY <1>1, <1>2, <1>5, <2>1 DEF RegisterLazerFeed
<1>6. ASSUME NEW t \in Symbols, NEW payload \in LazerPayload,
             NEW prior \in PriorInstructions(payload),
             UpdatePriceFeedFromLazer(t, payload, prior)
      PROVE  Kept
  BY <1>3, <1>6 DEF UpdatePriceFeedFromLazer
<1>7. ASSUME NEW signer \in Officials, NEW t \in Symbols, NEW price \in Prices,
             UpdatePriceFeed(signer, t, price)
      PROVE  Kept
  BY <1>3, <1>7 DEF UpdatePriceFeed
<1>8. AdvanceClock => Kept
  BY <1>2 DEF AdvanceClock
<1>9. UNCHANGED feedVars => Kept
  BY <1>2 DEF feedVars
<1> HIDE DEF Kept
<1>10. FeedOps => Kept
  BY <1>4, <1>5, <1>6, <1>7, <1>8 DEF FeedOps, LazerOps
<1>11. Kept
  BY <1>9, <1>10 DEF FeedNext, feedSpecVars
<1> QED
  BY <1>11 DEF Kept

\* A feed once registered with Lazer keeps its source, id and channel.
THEOREM RegistrationIsFinal == FeedSpec => LazerRegistrationIsFinal
<1>1. /\ ConfigTypeOK /\ FeedInv
      /\ [FeedNext]_<<config, feedVars>>
      => [\A s \in Symbols :
            (feed[s] # None /\ feed[s].source = FEED_SOURCE_LAZER) =>
               /\ feed'[s].source = FEED_SOURCE_LAZER
               /\ feed'[s].lazer_feed_id = feed[s].lazer_feed_id
               /\ feed'[s].lazer_channel = feed[s].lazer_channel]_<<config, feedVars>>
  BY RegistrationStep DEF feedSpecVars
<1> QED
  BY <1>1, FeedInvariant, PTL DEF FeedSpec, LazerRegistrationIsFinal

-----------------------------------------------------------------------------
\* What both price updates write besides the price and its count.
LEMMA WriteEffect ==
    ASSUME FeedTypeOK, NEW s \in Symbols, feed[s] # None,
           NEW price, NEW made, WritePrice(s, price, made)
    PROVE  /\ feed'[s].source = feed[s].source
           /\ feed'[s].last_updated = now
           /\ published'[s] = made
           /\ \A t \in Symbols : t # s => feed'[t] = feed[t] /\ published'[t] = published[t]
<1>1. feed[s] \in PriceFeedRecord
  BY DEF FeedTypeOK
<1> DEFINE r == [feed[s] EXCEPT !.price = price, !.last_updated = now,
                                !.update_count = Bump(feed[s].update_count)]
<1>2. r.source = feed[s].source /\ r.last_updated = now
  BY <1>1 DEF PriceFeedRecord
<1>3. feed'[s] = r
  BY DEF WritePrice, FeedTypeOK
<1> QED
  BY <1>2, <1>3 DEF WritePrice, FeedTypeOK

LEMMA StampedStep ==
    ASSUME FeedInv, UnregisteredFeedIsStamped, [FeedNext]_feedSpecVars
    PROVE  UnregisteredFeedIsStamped'
<1> DEFINE Stamped(s) ==
        (feed[s] # None /\ feed[s].source = FEED_SOURCE_AUTHORITY)
            => published[s] = feed[s].last_updated
<1> SUFFICES ASSUME NEW s \in Symbols
             PROVE  Stamped(s)'
    BY DEF UnregisteredFeedIsStamped
<1>1. FeedTypeOK /\ Stamped(s)
  BY DEF FeedInv, UnregisteredFeedIsStamped
<1>2. ASSUME feed'[s] = feed[s], published'[s] = published[s]
      PROVE  Stamped(s)'
  BY <1>1, <1>2
<1>3. ASSUME NEW signer \in Officials, NEW authority \in Officials,
             NEW t \in Symbols, NEW price \in Prices,
             InitializePriceFeed(signer, authority, t, price)
      PROVE  Stamped(s)'
  BY <1>1, <1>2, <1>3 DEF InitializePriceFeed, FeedTypeOK
<1>4. ASSUME NEW signer \in Officials, NEW t \in Symbols, NEW price \in Prices,
             UpdatePriceFeed(signer, t, price)
      PROVE  Stamped(s)'
  <2>1. feed[t] # None /\ WritePrice(t, price, now)
    BY <1>4 DEF UpdatePriceFeed
  <2> QED
    BY <1>1, <1>2, <2>1, WriteEffect
<1>5. ASSUME NEW t \in Symbols, NEW payload \in LazerPayload,
             NEW prior \in PriorInstructions(payload),
             UpdatePriceFeedFromLazer(t, payload, prior)
      PROVE  Stamped(s)'
  <2>1. /\ feed[t] # None /\ feed[t].source = FEED_SOURCE_LAZER
        /\ WritePrice(t, payload.price, payload.timestamp)
    BY <1>5 DEF UpdatePriceFeedFromLazer, PayloadMatchesFeed
  <2> QED
    BY <1>1, <1>2, <2>1, WriteEffect DEF FEED_SOURCE_AUTHORITY, FEED_SOURCE_LAZER
<1>6. ASSUME NEW signer \in Officials, NEW t \in Symbols,
             NEW id \in LazerIds, NEW channel \in Channels,
             RegisterLazerFeed(signer, t, id, channel)
      PROVE  Stamped(s)'
  <2>1. published' = published /\ (s # t => feed'[s] = feed[s])
    BY <1>1, <1>6 DEF RegisterLazerFeed, FeedTypeOK
  <2>2. feed'[t].source = FEED_SOURCE_LAZER
    <3> DEFINE r == [feed[t] EXCEPT !.source = FEED_SOURCE_LAZER, !.lazer_feed_id = id,
                                    !.lazer_channel = channel]
    <3>1. feed[t] \in PriceFeedRecord /\ feed'[t] = r
      BY <1>1, <1>6 DEF RegisterLazerFeed, FeedTypeOK
    <3> QED
      BY <3>1 DEF PriceFeedRecord
  <2> QED
    BY <1>2, <2>1, <2>2 DEF FEED_SOURCE_AUTHORITY, FEED_SOURCE_LAZER
<1>7. AdvanceClock => Stamped(s)'
  BY <1>2 DEF AdvanceClock
<1>8. UNCHANGED feedVars => Stamped(s)'
  BY <1>2 DEF feedVars
<1> HIDE DEF Stamped
<1>9. FeedOps => Stamped(s)'
  BY <1>3, <1>4, <1>5, <1>6, <1>7 DEF FeedOps, LazerOps
<1> QED
  BY <1>8, <1>9 DEF FeedNext, feedSpecVars

\* Until its registration with Lazer a feed's price is as old as its stamp
\* says, whatever payloads are posted.
THEOREM UnregisteredIsStamped == FeedSpec => []UnregisteredFeedIsStamped
<1>1. FeedStart => UnregisteredFeedIsStamped
  BY DEF FeedStart, FeedInit, UnregisteredFeedIsStamped
<1>2. /\ ConfigTypeOK /\ FeedInv
      /\ UnregisteredFeedIsStamped /\ [FeedNext]_<<config, feedVars>>
      => UnregisteredFeedIsStamped'
  BY StampedStep DEF feedSpecVars
<1> QED
  BY <1>1, <1>2, FeedInvariant, PTL DEF FeedSpec

\* Config always has its type: no sequence of policy changes passes the caps.
THEOREM ConfigTypeCorrect == FeedSpec => []ConfigTypeOK
BY FeedInvariant, PTL
=============================================================================
