---------------------------- MODULE Devnet_proofs ---------------------------
(***************************************************************************)
(* No run of the setup orphans the feed or replaces a key, and none        *)
(* reports completion without the accounts, for any number of hosts and    *)
(* keys.                                                                   *)
(*                                                                         *)
(* The inductive invariant follows a key from the moment it is generated:  *)
(* a process past the writing of the file holds the key of the file        *)
(* (KeysKept), and every key that a transaction names is in some file      *)
(* (Sent), where nothing overwrites it (KeysStay).                         *)
(***************************************************************************)
EXTENDS Devnet, PriceFeed_proofs

USE DevnetAssumption, LimitsAssumption, ConfigAssumption, FeedAssumption

Started(h) == Phase(h) \notin {"off", "write"}

HasFile(key) == \E h \in Hosts : keyfile[h] = key

\* Somebody can sign with it.
Known(authority) == authority \in Officials \/ HasFile(authority)

Typed ==
    /\ ConfigTypeOK /\ FeedInv
    /\ keyfile \in [Hosts -> Keys \cup {None, Torn}]
    /\ setup \in [Hosts -> SetupRecord]
    /\ inits \subseteq InitTx

KeysKept ==
    \A h \in Hosts :
        /\ Started(h) => setup[h].key \in Keys /\ keyfile[h] = setup[h].key
        /\ Phase(h) = "write" => setup[h].key \in Keys /\ keyfile[h] = Torn

Sent ==
    \A tx \in inits :
        /\ tx.sender # None => Started(tx.sender)
        /\ tx.authority # None => HasFile(tx.authority)

Ready ==
    \A h \in Hosts :
        /\ Phase(h) \in {"config_landed", "check_feed", "feed_sent", "feed_landed", "done"}
             => config # None
        /\ Phase(h) \in {"feed_landed", "done"} => feed[Sol] # None

DevnetInv == Typed /\ KeysKept /\ Sent /\ Ready /\ SomeHostCanPush

-----------------------------------------------------------------------------
(* Ways a step can go *)

\* Only a file that holds no key is written.
KeysStay == \A h \in Hosts : keyfile[h] \in Keys => keyfile'[h] = keyfile[h]

\* The scripts and the network leave the accounts alone.
LEMMA ScriptsMove ==
    ASSUME DevnetInv, UNCHANGED <<config, feedVars>>,
           keyfile' \in [Hosts -> Keys \cup {None, Torn}],
           setup' \in [Hosts -> SetupRecord], inits' \subseteq InitTx,
           KeysStay, KeysKept', Ready',
           \A tx \in inits' : tx.sender # None => Started(tx.sender)',
           \A tx \in inits' : tx.authority # None =>
               \E h \in Hosts : keyfile[h] = tx.authority
    PROVE  DevnetInv'
<1>1. Typed'
  BY DEF DevnetInv, Typed, ConfigTypeOK, FeedInv, FeedTypeOK, PriceAgeBounded, feedVars
<1>2. ASSUME NEW key \in Keys, HasFile(key)
      PROVE  HasFile(key)'
  BY <1>2 DEF HasFile, KeysStay
<1>3. Sent'
  <2>1. \A tx \in inits' : tx.authority \in Keys \cup {None}
    BY DEF InitTx
  <2> QED
    BY <1>2, <2>1 DEF Sent, HasFile
<1>4. SomeHostCanPush'
  <2> SUFFICES ASSUME feed[Sol] # None
               PROVE  \/ feed[Sol].authority \in Officials
                      \/ \E h \in Hosts : keyfile'[h] = feed[Sol].authority
      BY DEF SomeHostCanPush, feedVars
  <2> SUFFICES ASSUME feed[Sol].authority \notin Officials
               PROVE  \E h \in Hosts : keyfile'[h] = feed[Sol].authority
      OBVIOUS
  <2>1. PICK h \in Hosts : keyfile[h] = feed[Sol].authority
    BY DEF DevnetInv, SomeHostCanPush
  <2>2. feed[Sol].authority \in Wallets
    BY DEF DevnetInv, Typed, FeedInv, FeedTypeOK, PriceFeedRecord
  <2>3. keyfile[h] \in Keys
    BY <2>1, <2>2 DEF DevnetInv, Typed
  <2> QED
    BY <2>1, <2>3 DEF KeysStay
<1> QED
  BY <1>1, <1>3, <1>4 DEF DevnetInv

\* A phase changes, and nothing else of the process.
LEMMA PhaseFacts ==
    ASSUME DevnetInv, NEW h \in Hosts, NEW phase \in Phases, InPhase(h, phase)
    PROVE  /\ setup' \in [Hosts -> SetupRecord]
           /\ setup'[h].phase = phase /\ setup'[h].key = setup[h].key
           /\ \A g \in Hosts : g # h => setup'[g] = setup[g]
BY DEF InPhase, DevnetInv, Typed, SetupRecord

\* A started process goes on to a phase that the accounts bear out.
LEMMA PhaseMoves ==
    ASSUME DevnetInv, UNCHANGED <<config, feedVars, keyfile>>,
           NEW h \in Hosts, Started(h),
           NEW phase \in Phases \ {"off", "write"}, InPhase(h, phase),
           phase \in {"config_landed", "check_feed", "feed_sent", "feed_landed", "done"}
             => config # None,
           phase \in {"feed_landed", "done"} => feed[Sol] # None,
           inits' \subseteq InitTx,
           \A tx \in inits' : tx \in inits \/ (/\ tx.sender = h
                                             /\ tx.authority \in {None, setup[h].key})
    PROVE  DevnetInv'
<1>1. /\ setup' \in [Hosts -> SetupRecord]
      /\ setup'[h].phase = phase /\ setup'[h].key = setup[h].key
      /\ \A g \in Hosts : g # h => setup'[g] = setup[g]
  BY PhaseFacts
<1>2. setup[h].key \in Keys /\ keyfile[h] = setup[h].key
  BY DEF DevnetInv, KeysKept
<1>3. KeysKept'
  BY <1>1, <1>2 DEF DevnetInv, KeysKept, Started, Phase
<1>4. Ready'
  BY <1>1 DEF DevnetInv, Ready, Phase, feedVars
<1>5. KeysStay
  BY DEF KeysStay
<1>6. ASSUME NEW tx \in inits'
      PROVE  /\ tx.sender # None => Started(tx.sender)'
             /\ tx.authority # None => \E g \in Hosts : keyfile[g] = tx.authority
  <2>1. tx.sender \in Hosts \cup {None}
    BY DEF InitTx
  <2>2. CASE tx \in inits
    <3>1. /\ tx.sender # None => Started(tx.sender)
          /\ tx.authority # None => HasFile(tx.authority)
      BY <2>2 DEF DevnetInv, Sent
    <3> QED
      BY <1>1, <2>1, <3>1 DEF Started, Phase, HasFile
  <2>3. CASE tx.sender = h /\ tx.authority \in {None, setup[h].key}
    BY <1>1, <1>2, <2>3 DEF Started, Phase
  <2> QED
    BY <2>2, <2>3
<1>7. keyfile' \in [Hosts -> Keys \cup {None, Torn}]
  BY DEF DevnetInv, Typed
<1> QED
  BY <1>1, <1>3, <1>4, <1>5, <1>6, <1>7, ScriptsMove

\* An account changes, and at most a process that was waiting for it.
LEMMA AccountsMove ==
    ASSUME DevnetInv, ConfigTypeOK', FeedInv', UNCHANGED keyfile,
           config # None => config' # None,
           feed[Sol] # None => feed'[Sol] # None,
           feed'[Sol] # None => \/ feed'[Sol].authority \in Officials
                                \/ HasFile(feed'[Sol].authority),
           inits' \subseteq inits, setup' \in [Hosts -> SetupRecord],
           \A h \in Hosts :
               \/ setup'[h] = setup[h]
               \/ /\ Started(h) /\ setup'[h].key = setup[h].key
                  /\ setup'[h].phase \in {"config_landed", "feed_landed"}
                  /\ config' # None
                  /\ setup'[h].phase = "feed_landed" => feed'[Sol] # None
    PROVE  DevnetInv'
<1>1. Typed'
  BY DEF DevnetInv, Typed
<1>2. KeysKept'
  BY DEF DevnetInv, KeysKept, Started, Phase
<1>3. Ready'
  BY DEF DevnetInv, Ready, Phase
<1>4. Sent'
  <2> SUFFICES ASSUME NEW tx \in inits'
               PROVE  /\ tx.sender # None => Started(tx.sender)'
                      /\ tx.authority # None => HasFile(tx.authority)'
      BY DEF Sent
  <2>1. /\ tx.sender # None => Started(tx.sender)
        /\ tx.authority # None => HasFile(tx.authority)
        /\ tx.sender \in Hosts \cup {None}
    BY DEF DevnetInv, Sent, Typed, InitTx
  <2> QED
    BY <2>1 DEF Started, Phase, HasFile
<1>5. SomeHostCanPush'
  BY DEF SomeHostCanPush, HasFile
<1> QED
  BY <1>1, <1>2, <1>3, <1>4, <1>5 DEF DevnetInv

\* The authority of a feed that is there.
LEMMA AuthorityKnown ==
    ASSUME DevnetInv, feed[Sol] # None
    PROVE  Known(feed[Sol].authority)
BY DEF DevnetInv, SomeHostCanPush, Known, HasFile

-----------------------------------------------------------------------------
(* setup-devnet.ts *)

LEMMA KeyStep ==
    ASSUME DevnetInv, NEW h \in Hosts, ReadKey(h) \/ GenerateKey(h) \/ WriteKey(h)
    PROVE  DevnetInv'
<1>1. UNCHANGED <<config, feedVars, inits>>
  BY DEF ReadKey, GenerateKey, WriteKey
<1>2. \A tx \in inits : /\ tx.sender \in Hosts \cup {None}
                        /\ tx.sender # None => Started(tx.sender)
                        /\ tx.authority # None => HasFile(tx.authority)
  BY DEF DevnetInv, Typed, InitTx, Sent
<1>3. ASSUME NEW p, p \in SetupRecord, setup' = [setup EXCEPT ![h] = p],
             keyfile' \in [Hosts -> Keys \cup {None, Torn}],
             \A g \in Hosts : g # h => keyfile'[g] = keyfile[g],
             keyfile[h] \in Keys => keyfile'[h] = keyfile[h],
             \/ /\ p.phase = "write" /\ p.key \in Keys
                /\ keyfile'[h] = Torn /\ ~Started(h)
             \/ /\ p.phase = "check_config" /\ p.key \in Keys
                /\ keyfile'[h] = p.key
      PROVE  DevnetInv'
  <2>1. /\ setup' \in [Hosts -> SetupRecord] /\ setup'[h] = p
        /\ \A g \in Hosts : g # h => setup'[g] = setup[g]
    BY <1>3 DEF DevnetInv, Typed
  <2>2. KeysKept'
    BY <1>3, <2>1 DEF DevnetInv, KeysKept, Started, Phase
  <2>3. Ready'
    BY <1>1, <1>3, <2>1 DEF DevnetInv, Ready, Phase, feedVars
  <2>4. KeysStay
    BY <1>3 DEF KeysStay
  <2>5. \A tx \in inits' : tx.sender # None => Started(tx.sender)'
    BY <1>1, <1>2, <1>3, <2>1 DEF Started, Phase
  <2>6. \A tx \in inits' : tx.authority # None => \E g \in Hosts : keyfile[g] = tx.authority
    BY <1>1, <1>2 DEF HasFile
  <2>7. inits' \subseteq InitTx
    BY <1>1 DEF DevnetInv, Typed
  <2> QED
    BY <1>1, <1>3, <2>1, <2>2, <2>3, <2>4, <2>5, <2>6, <2>7, ScriptsMove
<1>4. CASE ReadKey(h)
  <2> DEFINE p == [phase |-> "check_config", key |-> keyfile[h]]
  <2>1. /\ p \in SetupRecord /\ p.phase = "check_config" /\ p.key = keyfile[h]
        /\ keyfile[h] \in Keys /\ setup' = [setup EXCEPT ![h] = p]
        /\ keyfile' = keyfile /\ keyfile \in [Hosts -> Keys \cup {None, Torn}]
    BY <1>4 DEF ReadKey, SetupRecord, Phases, DevnetInv, Typed
  <2> HIDE DEF p
  <2> QED
    BY <1>3, <2>1
<1>5. CASE GenerateKey(h)
  <2>1. PICK key \in FreshKeys :
            setup' = [setup EXCEPT ![h] = [phase |-> "write", key |-> key]]
    BY <1>5 DEF GenerateKey
  <2> DEFINE p == [phase |-> "write", key |-> key]
  <2>2. /\ NotStarted(h) /\ keyfile[h] = None
        /\ keyfile' = [keyfile EXCEPT ![h] = Torn]
        /\ keyfile \in [Hosts -> Keys \cup {None, Torn}]
    BY <1>5 DEF GenerateKey, DevnetInv, Typed
  <2>3. ~Started(h)
    BY <2>2 DEF NotStarted, Started, DevnetInv, KeysKept
  <2>4. /\ p \in SetupRecord /\ p.phase = "write" /\ p.key \in Keys
        /\ setup' = [setup EXCEPT ![h] = p]
    BY <2>1 DEF FreshKeys, SetupRecord, Phases
  <2> HIDE DEF p
  <2> QED
    BY <1>3, <2>2, <2>3, <2>4
<1>6. CASE WriteKey(h)
  <2> DEFINE p == [setup[h] EXCEPT !.phase = "check_config"]
  <2>1. /\ setup[h] \in SetupRecord /\ setup[h].key \in Keys /\ keyfile[h] = Torn
        /\ keyfile' = [keyfile EXCEPT ![h] = setup[h].key]
        /\ keyfile \in [Hosts -> Keys \cup {None, Torn}]
    BY <1>6 DEF WriteKey, DevnetInv, Typed, KeysKept
  <2>2. /\ p \in SetupRecord /\ p.phase = "check_config" /\ p.key = setup[h].key
    BY <2>1 DEF SetupRecord, Phases
  <2>3. setup' = [setup EXCEPT ![h] = p]
    BY <1>6 DEF WriteKey, InPhase
  <2> HIDE DEF p
  <2> QED
    BY <1>3, <2>1, <2>2, <2>3
<1> QED
  BY <1>4, <1>5, <1>6

LEMMA FetchStep ==
    ASSUME DevnetInv, NEW h \in Hosts,
           FindConfig(h) \/ SendConfig(h) \/ FindFeed(h) \/ SendFeed(h) \/ Confirm(h)
    PROVE  DevnetInv'
<1> USE DEF Phases, Started
<1>1. inits \subseteq InitTx /\ AdminOf[h] \in Wallets
  BY DEF DevnetInv, Typed
<1>2. CASE FindConfig(h)
  BY <1>1, <1>2, PhaseMoves DEF FindConfig
<1>3. CASE SendConfig(h)
  <2> DEFINE tx == [sender |-> h, admin |-> AdminOf[h], authority |-> None]
  <2>1. inits' = inits \cup {tx} /\ tx \in InitTx /\ tx.sender = h /\ tx.authority = None
    BY <1>1, <1>3 DEF SendConfig, Send, InitTx
  <2> HIDE DEF tx
  <2> QED
    BY <1>1, <1>3, <2>1, PhaseMoves DEF SendConfig
<1>4. CASE FindFeed(h)
  <2>1. config # None
    BY <1>4 DEF FindFeed, DevnetInv, Ready
  <2> QED
    BY <1>1, <1>4, <2>1, PhaseMoves DEF FindFeed
<1>5. CASE SendFeed(h)
  <2> DEFINE tx == [sender |-> h, admin |-> AdminOf[h], authority |-> setup[h].key]
  <2>1. setup[h].key \in Keys /\ config # None
    BY <1>5 DEF SendFeed, DevnetInv, KeysKept, Ready
  <2>2. /\ inits' = inits \cup {tx} /\ tx \in InitTx
        /\ tx.sender = h /\ tx.authority = setup[h].key
    BY <1>1, <1>5, <2>1 DEF SendFeed, Send, InitTx
  <2> HIDE DEF tx
  <2> QED
    BY <1>1, <1>5, <2>1, <2>2, PhaseMoves DEF SendFeed
<1>6. CASE Confirm(h)
  <2>1. /\ config # None
        /\ Phase(h) = "feed_landed" => feed[Sol] # None
    BY <1>6 DEF Confirm, DevnetInv, Ready
  <2> QED
    BY <1>1, <1>6, <2>1, PhaseMoves DEF Confirm
<1> QED
  BY <1>2, <1>3, <1>4, <1>5, <1>6

LEMMA ExitStep ==
    ASSUME DevnetInv, NEW h \in Hosts, ExitSetup(h)
    PROVE  DevnetInv'
<1> DEFINE Orphan(tx) == IF tx.sender = h THEN [tx EXCEPT !.sender = None] ELSE tx
<1>1. /\ UNCHANGED <<config, feedVars, keyfile>>
      /\ setup' = [setup EXCEPT ![h] = Off]
      /\ inits' = {Orphan(tx) : tx \in inits}
  BY DEF ExitSetup
<1>2. /\ Off \in SetupRecord /\ Off.phase = "off"
      /\ setup' \in [Hosts -> SetupRecord] /\ setup'[h] = Off
      /\ \A g \in Hosts : g # h => setup'[g] = setup[g]
  BY <1>1 DEF Off, SetupRecord, Phases, DevnetInv, Typed
<1>3. ASSUME NEW tx \in inits'
      PROVE  /\ tx \in InitTx
             /\ tx.sender # None => Started(tx.sender)'
             /\ tx.authority # None => \E g \in Hosts : keyfile[g] = tx.authority
  <2>1. PICK old \in inits : tx = Orphan(old)
    BY <1>1, <1>3
  <2>2. /\ old \in InitTx
        /\ old.sender # None => Started(old.sender)
        /\ old.authority # None => \E g \in Hosts : keyfile[g] = old.authority
    BY DEF DevnetInv, Typed, Sent, HasFile
  <2>3. /\ tx \in InitTx /\ tx.authority = old.authority
        /\ tx.sender = IF old.sender = h THEN None ELSE old.sender
    BY <2>1, <2>2 DEF InitTx
  <2>4. tx.sender # None => tx.sender \in Hosts /\ tx.sender # h /\ tx.sender = old.sender
    BY <2>2, <2>3 DEF InitTx
  <2>5. tx.sender # None => Started(tx.sender)'
    BY <1>2, <2>2, <2>4 DEF Started, Phase
  <2> QED
    BY <2>2, <2>3, <2>5
<1>4. KeysKept'
  BY <1>1, <1>2 DEF DevnetInv, KeysKept, Started, Phase
<1>5. Ready'
  BY <1>1, <1>2 DEF DevnetInv, Ready, Phase, feedVars
<1>6. KeysStay /\ keyfile' \in [Hosts -> Keys \cup {None, Torn}]
  BY <1>1 DEF KeysStay, DevnetInv, Typed
<1> QED
  BY <1>1, <1>2, <1>3, <1>4, <1>5, <1>6, ScriptsMove

-----------------------------------------------------------------------------
(* The network and the accounts *)

LEMMA LandedFacts ==
    ASSUME DevnetInv, NEW tx \in inits, NEW phase \in {"config_landed", "feed_landed"},
           Landed(tx, phase)
    PROVE  /\ UNCHANGED keyfile /\ inits' \subseteq inits
           /\ setup' \in [Hosts -> SetupRecord]
           /\ \A h \in Hosts :
                 \/ setup'[h] = setup[h]
                 \/ Started(h) /\ setup'[h].key = setup[h].key /\ setup'[h].phase = phase
<1>1. /\ tx.sender \in Hosts \cup {None}
      /\ tx.sender # None => Started(tx.sender)
      /\ setup \in [Hosts -> SetupRecord]
  BY DEF DevnetInv, Typed, InitTx, Sent
<1>2. CASE tx.sender = None
  BY <1>1, <1>2 DEF Landed
<1>3. CASE tx.sender # None
  <2>1. setup' = [setup EXCEPT ![tx.sender].phase = phase]
    BY <1>3 DEF Landed
  <2> QED
    BY <1>1, <1>3, <2>1 DEF Landed, SetupRecord, Phases
<1> QED
  BY <1>2, <1>3

LEMMA LandConfigStep ==
    ASSUME DevnetInv, NEW tx \in inits, LandConfig(tx)
    PROVE  DevnetInv'
<1>1. /\ tx.admin \in Wallets /\ UNCHANGED feedVars
      /\ Landed(tx, "config_landed")
  BY DEF LandConfig, DevnetInv, Typed, InitTx
<1>2. config' \in ConfigRecord
  BY <1>1, ConfigCreated DEF LandConfig
<1>3. ConfigTypeOK' /\ config' # None
  BY <1>2 DEF ConfigTypeOK
<1>4. FeedInv' /\ feed' = feed
  BY <1>1 DEF DevnetInv, Typed, FeedInv, FeedTypeOK, PriceAgeBounded, feedVars
<1>5. feed'[Sol] # None => \/ feed'[Sol].authority \in Officials
                           \/ HasFile(feed'[Sol].authority)
  BY <1>4, AuthorityKnown DEF Known
<1>6. /\ UNCHANGED keyfile /\ inits' \subseteq inits
      /\ setup' \in [Hosts -> SetupRecord]
      /\ \A h \in Hosts :
            \/ setup'[h] = setup[h]
            \/ /\ Started(h) /\ setup'[h].key = setup[h].key
               /\ setup'[h].phase = "config_landed"
  BY <1>1, LandedFacts
<1> QED
  BY <1>3, <1>4, <1>5, <1>6, AccountsMove

LEMMA LandFeedStep ==
    ASSUME DevnetInv, NEW tx \in inits, LandFeed(tx)
    PROVE  DevnetInv'
<1>1. /\ tx.authority \in Keys /\ HasFile(tx.authority)
      /\ Landed(tx, "feed_landed")
      /\ InitializePriceFeed(tx.admin, tx.authority, Sol, SETUP_PRICE)
  BY DEF LandFeed, DevnetInv, Typed, InitTx, Sent
<1>2. FeedInv' /\ config # None /\ config' = config
  BY <1>1, FeedCreated DEF DevnetInv, Typed, InitializePriceFeed
<1>3. ConfigTypeOK'
  BY <1>2 DEF DevnetInv, Typed, ConfigTypeOK
<1>4. feed'[Sol] # None /\ feed'[Sol].authority = tx.authority
  <2> DEFINE r == [authority |-> tx.authority, price |-> SETUP_PRICE, last_updated |-> now,
                   update_count |-> 0, source |-> FEED_SOURCE_AUTHORITY,
                   lazer_channel |-> 0, lazer_feed_id |-> 0]
  <2>1. feed'[Sol] = r /\ r.authority = tx.authority
    BY <1>1 DEF InitializePriceFeed, DevnetInv, Typed, FeedInv, FeedTypeOK
  <2>2. feed'[Sol] # None
    <3>1. SETUP_PRICE \in U64 \ {0} /\ 0 \in U64 /\ 0 \in Counter /\ now \in Time
      BY <1>1 DEF InitializePriceFeed, U64, Counter, DevnetInv, Typed, FeedInv, FeedTypeOK
    <3>2. r \in PriceFeedRecord
      BY <1>1, <3>1 DEF PriceFeedRecord, FEED_SOURCE_AUTHORITY, LAZER_CHANNEL_200MS
    <3> QED
      BY <2>1, <3>2
  <2> QED
    BY <2>1, <2>2
<1>5. /\ UNCHANGED keyfile /\ inits' \subseteq inits
      /\ setup' \in [Hosts -> SetupRecord]
      /\ \A h \in Hosts :
            \/ setup'[h] = setup[h]
            \/ /\ Started(h) /\ setup'[h].key = setup[h].key
               /\ setup'[h].phase = "feed_landed"
  BY <1>1, LandedFacts
<1> QED
  BY <1>1, <1>2, <1>3, <1>4, <1>5, AccountsMove

\* Steps of the accounts alone: a feed keeps its authority, and a new one has
\* an official's.
LEMMA AccountStep ==
    ASSUME DevnetInv, ConfigTypeOK', FeedInv', UNCHANGED <<keyfile, setup>>,
           inits' \subseteq inits,
           config # None => config' # None,
           feed'[Sol] # None => \/ /\ feed[Sol] # None
                                   /\ feed'[Sol].authority = feed[Sol].authority
                                \/ feed'[Sol].authority \in Officials,
           feed[Sol] # None => feed'[Sol] # None
    PROVE  DevnetInv'
<1>1. feed'[Sol] # None => \/ feed'[Sol].authority \in Officials
                           \/ HasFile(feed'[Sol].authority)
  BY AuthorityKnown DEF Known
<1>2. setup' \in [Hosts -> SetupRecord]
  BY DEF DevnetInv, Typed
<1> QED
  BY <1>1, <1>2, AccountsMove

\* A price update leaves the feed its authority.
LEMMA Repriced ==
    ASSUME FeedInv, NEW s \in Symbols, feed[s] # None,
           NEW price \in U64 \ {0}, NEW made, WritePrice(s, price, made)
    PROVE  /\ feed'[s] # None /\ feed'[s].authority = feed[s].authority
           /\ \A t \in Symbols : t # s => feed'[t] = feed[t]
<1> DEFINE r == [feed[s] EXCEPT !.price = price, !.last_updated = now,
                                !.update_count = Bump(feed[s].update_count)]
<1>1. feed[s] \in PriceFeedRecord /\ now \in Time
  BY DEF FeedInv, FeedTypeOK
<1>2. feed'[s] = r /\ \A t \in Symbols : t # s => feed'[t] = feed[t]
  BY DEF WritePrice, FeedInv, FeedTypeOK
<1>3. r.authority = feed[s].authority
  BY <1>1 DEF PriceFeedRecord
<1>4. r \in PriceFeedRecord
  <2>1. Bump(feed[s].update_count) \in Counter
    BY <1>1, BumpIsCounter DEF PriceFeedRecord
  <2> QED
    BY <1>1, <2>1, RepricedRecord
<1> QED
  BY <1>2, <1>3, <1>4

LEMMA PushStep ==
    ASSUME DevnetInv, NEW h \in Hosts, NEW price \in Prices, PushPrice(h, price)
    PROVE  DevnetInv'
<1>1. /\ feed[Sol] # None /\ price \in U64 \ {0} /\ FeedInv
      /\ WritePrice(Sol, price, now) /\ UNCHANGED scriptVars
  BY DEF PushPrice, UpdatePriceFeed, DevnetInv, Typed, U64
<1>2. FeedInv'
  <2>1. now \in Int /\ now <= now /\ now - now <= MAX_LAZER_PAYLOAD_AGE_SECS
    BY DEF DevnetInv, Typed, FeedInv, FeedTypeOK, Time
  <2> QED
    BY <1>1, <2>1, WritePriceStep DEF DevnetInv, Typed, U64
<1>3. config' = config /\ ConfigTypeOK'
  BY <1>1 DEF WritePrice, DevnetInv, Typed, ConfigTypeOK
<1>4. feed'[Sol] # None /\ feed'[Sol].authority = feed[Sol].authority
  BY <1>1, Repriced
<1> QED
  BY <1>1, <1>2, <1>3, <1>4, AccountStep DEF scriptVars

LEMMA AdministerStep ==
    ASSUME DevnetInv, Administer, UNCHANGED <<feedVars, scriptVars>>
    PROVE  DevnetInv'
<1>1. config' \in ConfigRecord
  <2>1. ASSUME NEW admin \in Officials,
               InitializeConfig(admin, admin, SETUP_FEE_BPS, SETUP_KEEPER_REWARD_BPS)
        PROVE  config' \in ConfigRecord
    BY <2>1, ConfigCreated
  <2>2. ASSUME NEW signer \in Officials, NEW admin \in Officials,
               UpdateConfig(signer, admin, None, None, None)
        PROVE  config' \in ConfigRecord
    BY <2>2, ConfigUpdated DEF DevnetInv, Typed
  <2> QED
    BY <2>1, <2>2 DEF Administer
<1>2. ConfigTypeOK' /\ config' # None
  BY <1>1 DEF ConfigTypeOK
<1>3. FeedInv' /\ feed' = feed
  BY DEF DevnetInv, Typed, FeedInv, FeedTypeOK, PriceAgeBounded, feedVars
<1> QED
  BY <1>2, <1>3, AccountStep DEF scriptVars

\* What others do to a feed: none is removed or given another authority, and
\* a new one gets an official's.
LEMMA FeedOpsAuthority ==
    ASSUME FeedInv, FeedOps, NEW s \in Symbols
    PROVE  /\ feed'[s] # None => \/ /\ feed[s] # None
                                    /\ feed'[s].authority = feed[s].authority
                                 \/ feed'[s].authority \in Officials
           /\ feed[s] # None => feed'[s] # None
<1>1. ASSUME NEW signer \in Officials, NEW authority \in Officials,
             NEW t \in Symbols, NEW price \in Prices,
             InitializePriceFeed(signer, authority, t, price)
      PROVE  /\ feed'[s] = feed[s] \/ (feed[s] = None /\ feed'[s].authority \in Officials)
  BY <1>1 DEF InitializePriceFeed, FeedInv, FeedTypeOK
<1>2. ASSUME NEW t \in Symbols, NEW price \in U64 \ {0}, NEW made,
             feed[t] # None, WritePrice(t, price, made)
      PROVE  \/ feed'[s] = feed[s]
             \/ feed'[s] # None /\ feed[s] # None /\ feed'[s].authority = feed[s].authority
  BY <1>2, Repriced
<1>3. ASSUME NEW signer \in Officials, NEW t \in Symbols, NEW price \in Prices,
             UpdatePriceFeed(signer, t, price)
      PROVE  \/ feed'[s] = feed[s]
             \/ feed'[s] # None /\ feed[s] # None /\ feed'[s].authority = feed[s].authority
  BY <1>2, <1>3 DEF UpdatePriceFeed, U64
<1>4. ASSUME NEW t \in Symbols, NEW payload \in LazerPayload,
             NEW prior \in PriorInstructions(payload),
             UpdatePriceFeedFromLazer(t, payload, prior)
      PROVE  \/ feed'[s] = feed[s]
             \/ feed'[s] # None /\ feed[s] # None /\ feed'[s].authority = feed[s].authority
  <2>1. /\ payload.price \in U64 /\ payload.price > 0 /\ feed[t] # None
        /\ WritePrice(t, payload.price, payload.timestamp)
    BY <1>4 DEF UpdatePriceFeedFromLazer, PayloadMatchesFeed, LazerPayload
  <2>2. payload.price \in U64 \ {0}
    BY <2>1 DEF U64
  <2> QED
    BY <1>2, <2>1, <2>2
<1>5. ASSUME NEW signer \in Officials, NEW t \in Symbols,
             NEW id \in LazerIds, NEW channel \in Channels,
             RegisterLazerFeed(signer, t, id, channel)
      PROVE  \/ feed'[s] = feed[s]
             \/ feed'[s] # None /\ feed[s] # None /\ feed'[s].authority = feed[s].authority
  <2> DEFINE r == [feed[t] EXCEPT !.source = FEED_SOURCE_LAZER, !.lazer_feed_id = id,
                                  !.lazer_channel = channel]
  <2>1. /\ feed[t] \in PriceFeedRecord /\ feed' = [feed EXCEPT ![t] = r]
        /\ id \in U64 /\ channel \in 0..LAZER_CHANNEL_200MS
    <3>1. /\ feed[t] \in PriceFeedRecord
          /\ feed' = [feed EXCEPT ![t] = r]
      BY <1>5 DEF RegisterLazerFeed, FeedInv, FeedTypeOK
    <3>2. id \in U64 /\ channel \in Nat
      OBVIOUS
    <3>3. channel <= LAZER_CHANNEL_200MS
      BY <1>5 DEF RegisterLazerFeed
    <3>4. channel \in 0..LAZER_CHANNEL_200MS
      BY <3>2, <3>3 DEF LAZER_CHANNEL_200MS
    <3> QED
      BY <3>1, <3>2, <3>4
  <2>2. r \in PriceFeedRecord /\ r.authority = feed[t].authority
    BY <2>1, RegisteredRecord DEF PriceFeedRecord
  <2>3. r # None
    BY <2>2
  <2>4. feed[t] # None /\ feed \in [Symbols -> PriceFeedRecord \cup {None}]
    BY <1>5 DEF RegisterLazerFeed, FeedInv, FeedTypeOK
  <2> HIDE DEF r
  <2>5. CASE s = t
    BY <2>1, <2>2, <2>3, <2>4, <2>5
  <2>6. CASE s # t
    BY <2>1, <2>4, <2>6
  <2> QED
    BY <2>5, <2>6
<1>6. ASSUME AdvanceClock
      PROVE  feed'[s] = feed[s]
  BY <1>6 DEF AdvanceClock
<1> QED
  BY <1>1, <1>3, <1>4, <1>5, <1>6 DEF FeedOps, LazerOps

LEMMA FeedOpsMove ==
    ASSUME DevnetInv, FeedOps, UNCHANGED scriptVars
    PROVE  DevnetInv'
<1>1. FeedInv'
  BY FeedOpsStep DEF DevnetInv, Typed
<1>2. config' = config
  BY DEF FeedOps, LazerOps, InitializePriceFeed, UpdatePriceFeed, RegisterLazerFeed,
         UpdatePriceFeedFromLazer, AdvanceClock, WritePrice
<1>3. ConfigTypeOK'
  BY <1>2 DEF DevnetInv, Typed, ConfigTypeOK
<1>4. /\ feed'[Sol] # None => \/ /\ feed[Sol] # None
                                 /\ feed'[Sol].authority = feed[Sol].authority
                              \/ feed'[Sol].authority \in Officials
      /\ feed[Sol] # None => feed'[Sol] # None
  BY FeedOpsAuthority DEF DevnetInv, Typed
<1> QED
  BY <1>1, <1>2, <1>3, <1>4, AccountStep DEF scriptVars

LEMMA LoseStep ==
    ASSUME DevnetInv, NEW tx \in inits, LoseInit(tx)
    PROVE  DevnetInv'
<1>1. /\ UNCHANGED <<config, feedVars, keyfile, setup>>
      /\ inits' \subseteq inits
  BY DEF LoseInit
<1>2. ConfigTypeOK' /\ FeedInv' /\ feed' = feed
  BY <1>1 DEF DevnetInv, Typed, ConfigTypeOK, FeedInv, FeedTypeOK, PriceAgeBounded, feedVars
<1> QED
  BY <1>1, <1>2, AccountStep

-----------------------------------------------------------------------------
LEMMA DevnetStart == DevnetInit => DevnetInv
<1> SUFFICES ASSUME DevnetInit
             PROVE  DevnetInv
    OBVIOUS
<1>1. ConfigTypeOK /\ FeedInv
  BY FeedInit0 DEF DevnetInit, FeedStart
<1>2. Off \in SetupRecord /\ Off.phase = "off"
  BY DEF Off, SetupRecord, Phases
<1>3. /\ setup = [h \in Hosts |-> Off] /\ keyfile = [h \in Hosts |-> None]
      /\ inits = {} /\ feed[Sol] = None
  BY DEF DevnetInit, FeedInit
<1> QED
  BY <1>1, <1>2, <1>3
     DEF DevnetInv, Typed, KeysKept, Sent, Ready, Started, Phase, SomeHostCanPush

LEMMA DevnetStep == DevnetInv /\ [DevnetNext]_devnetVars => DevnetInv'
<1> SUFFICES ASSUME DevnetInv, [DevnetNext]_devnetVars
             PROVE  DevnetInv'
    OBVIOUS
<1>1. CASE UNCHANGED devnetVars
  <2>1. ConfigTypeOK' /\ FeedInv' /\ feed' = feed /\ config' = config
    BY <1>1 DEF devnetVars, DevnetInv, Typed, ConfigTypeOK, FeedInv, FeedTypeOK,
                PriceAgeBounded, feedVars
  <2> QED
    BY <1>1, <2>1, AccountStep DEF devnetVars, scriptVars
<1> QED
  BY <1>1, KeyStep, FetchStep, ExitStep, PushStep, LandConfigStep, LandFeedStep,
     LoseStep, AdministerStep, FeedOpsMove DEF DevnetNext, SetupSteps

THEOREM DevnetInvariance == DevnetSpec => []DevnetInv
BY DevnetStart, DevnetStep, PTL DEF DevnetSpec

-----------------------------------------------------------------------------
(* Theorems *)

\* The accounts, the files, the processes and the transactions always have
\* their types.
THEOREM DevnetTypeCorrect == DevnetSpec => []DevnetTypeOK
<1>1. DevnetInv => DevnetTypeOK
  BY DEF DevnetInv, Typed, FeedInv, DevnetTypeOK
<1> QED
  BY <1>1, DevnetInvariance, PTL

\* No crash, race or late transaction leaves the feed with an authority that is
\* neither a wallet an admin named without the scripts nor a key in some host's
\* file.
THEOREM FeedNeverOrphaned == DevnetSpec => []SomeHostCanPush
<1>1. DevnetInv => SomeHostCanPush
  BY DEF DevnetInv
<1> QED
  BY <1>1, DevnetInvariance, PTL

\* A setup that reports completion leaves both accounts behind.
THEOREM CompletionIsTrue == DevnetSpec => []CompleteMeansReady
<1>1. DevnetInv => CompleteMeansReady
  BY DEF DevnetInv, Ready, CompleteMeansReady
<1> QED
  BY <1>1, DevnetInvariance, PTL

\* Only two statements write a key file: the one that creates it and the one
\* that fills what it created.
LEMMA KeyFileWrites ==
    ASSUME [DevnetNext]_devnetVars, keyfile' # keyfile
    PROVE  \E h \in Hosts : GenerateKey(h) \/ WriteKey(h)
<1>1. ASSUME NEW h \in Hosts, SetupSteps(h) \/ ExitSetup(h)
      PROVE  GenerateKey(h) \/ WriteKey(h)
  BY <1>1 DEF SetupSteps, ExitSetup, ReadKey, FindConfig, SendConfig, FindFeed,
              SendFeed, Confirm
<1>2. ASSUME NEW h \in Hosts, NEW price \in Prices, PushPrice(h, price)
      PROVE  FALSE
  BY <1>2 DEF PushPrice, scriptVars
<1>3. ASSUME NEW tx \in inits, LandConfig(tx) \/ LandFeed(tx) \/ LoseInit(tx)
      PROVE  FALSE
  BY <1>3 DEF LandConfig, LandFeed, LoseInit, Landed
<1> QED
  BY <1>1, <1>2, <1>3 DEF DevnetNext, devnetVars, scriptVars

\* A key file that holds a key keeps it: a file is created only where there is
\* none, and a process fills only the file it has just created, which is torn.
THEOREM KeysAreKept == DevnetSpec => KeyFilesStay
<1>1. ASSUME DevnetInv, [DevnetNext]_devnetVars
      PROVE  KeysStay
  <2> SUFFICES ASSUME NEW g \in Hosts, keyfile[g] \in Keys, keyfile' # keyfile
               PROVE  keyfile'[g] = keyfile[g]
      BY DEF KeysStay
  <2>1. PICK h \in Hosts : GenerateKey(h) \/ WriteKey(h)
    BY <1>1, KeyFileWrites
  <2>2. keyfile[h] \in {None, Torn}
    BY <1>1, <2>1 DEF GenerateKey, WriteKey, DevnetInv, KeysKept
  <2>3. None \notin Keys /\ Torn \notin Keys
    OBVIOUS
  <2>4. g # h
    BY <2>2, <2>3
  <2> QED
    BY <1>1, <2>1, <2>4 DEF GenerateKey, WriteKey, DevnetInv, Typed
<1>2. DevnetInv /\ [DevnetNext]_devnetVars => [KeysStay]_devnetVars
  BY <1>1
<1> QED
  BY <1>2, DevnetInvariance, PTL DEF DevnetSpec, KeyFilesStay, KeysStay
=============================================================================
