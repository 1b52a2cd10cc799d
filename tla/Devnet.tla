------------------------------- MODULE Devnet -------------------------------
(***************************************************************************)
(* The operators' scripts on devnet beside the price feeds:                *)
(* scripts/setup-devnet.ts, which makes the key of the feed authority, the *)
(* Config and the SOL feed unless they are there, and                      *)
(* scripts/push-price.ts, which signs a price with that key.               *)
(*                                                                         *)
(* A host is a machine with a key file and a wallet; its operator runs the *)
(* setup again and again, one at a time, and pushes prices.  The admin of  *)
(* the day, whoever that is, may make the feed without the scripts, with   *)
(* any authority of theirs, and others push or post to it.  A script can   *)
(* be killed anywhere, a transaction can land after its sender is gone, or *)
(* never, and what a fetch says of an account may be out of date, or       *)
(* "absent" only because the request failed.                               *)
(***************************************************************************)
EXTENDS PriceFeed

CONSTANTS
    Hosts,
    Diligent,            \* those whose operators do not give up
    AdminOf,             \* the wallet each host signs with
    Keys,                \* keypairs Keypair.generate() may return
    Torn,                \* a key file created and not yet written
    Sol,                 \* the symbol
    SETUP_FEE_BPS, SETUP_KEEPER_REWARD_BPS, SETUP_PRICE

ASSUME DevnetAssumption ==
    /\ Diligent \subseteq Hosts
    /\ Keys \subseteq Wallets /\ AdminOf \in [Hosts -> Wallets]
    /\ Keys \cap Officials = {}            \* officials use wallets of their own
    /\ None \notin Wallets \cup Hosts /\ Torn \notin Wallets \cup {None}
    /\ None \notin ConfigRecord \cup PriceFeedRecord
    /\ Sol \in Symbols
    /\ SETUP_FEE_BPS \in Nat /\ SETUP_KEEPER_REWARD_BPS \in Nat
    /\ SETUP_PRICE \in U64

VARIABLES
    keyfile,      \* ~/.config/solana/hwal-feed-authority.json of each host
    setup,        \* the setup process of each host
    inits         \* its transactions, neither landed nor lost

scriptVars == <<keyfile, setup, inits>>
devnetVars == <<config, feedVars, scriptVars>>

Phases == {"off", "write", "check_config", "config_sent", "config_landed",
           "check_feed", "feed_sent", "feed_landed", "done"}

SetupRecord == [phase : Phases, key : Keys \cup {None}]

\* initialize_config where there is no authority, else initialize_price_feed;
\* no sender is left when the process that sent it is gone.
InitTx == [sender : Hosts \cup {None}, admin : Wallets, authority : Keys \cup {None}]

DevnetTypeOK ==
    /\ ConfigTypeOK /\ FeedTypeOK
    /\ keyfile \in [Hosts -> Keys \cup {None, Torn}]
    /\ setup \in [Hosts -> SetupRecord]
    /\ inits \subseteq InitTx

Off == [phase |-> "off", key |-> None]

DevnetInit ==
    /\ ConfigInit /\ FeedInit
    /\ keyfile = [h \in Hosts |-> None]
    /\ setup = [h \in Hosts |-> Off]
    /\ inits = {}

-----------------------------------------------------------------------------
(* setup-devnet.ts *)

Phase(h) == setup[h].phase
InPhase(h, phase) == setup' = [setup EXCEPT ![h].phase = phase]
NotStarted(h) == Phase(h) \in {"off", "done"}

\* A generated key is one nobody has; a key that was lost before anyone saw
\* it may stand for a new one.
FreshKeys ==
    {key \in Keys :
        /\ \A h \in Hosts : key # keyfile[h] /\ key # setup[h].key
        /\ \A tx \in inits : key # tx.authority
        /\ \A s \in Symbols : feed[s] # None => key # feed[s].authority}

\* Mutant of ReadKey: whatever is in the file is taken for a key.
MutReadAnyKey(h) ==
    /\ NotStarted(h)
    /\ keyfile[h] # None
    /\ setup' = [setup EXCEPT ![h] = [phase |-> "check_config", key |-> keyfile[h]]]
    /\ UNCHANGED <<config, feedVars, keyfile, inits>>

\* The file holds a key.  Of a torn file JSON.parse throws, and the process
\* exits as it came.
ReadKey(h) ==
    /\ NotStarted(h)
    /\ keyfile[h] \in Keys
    /\ setup' = [setup EXCEPT ![h] = [phase |-> "check_config", key |-> keyfile[h]]]
    /\ UNCHANGED <<config, feedVars, keyfile, inits>>

\* Mutant of GenerateKey: a new key whether there is a file or not.
MutGenerateAlways(h) ==
    /\ NotStarted(h)
    /\ \E key \in FreshKeys :
          setup' = [setup EXCEPT ![h] = [phase |-> "write", key |-> key]]
    /\ keyfile' = [keyfile EXCEPT ![h] = Torn]
    /\ UNCHANGED <<config, feedVars, inits>>

\* No file: writeFileSync creates it, and then writes.
GenerateKey(h) ==
    /\ NotStarted(h)
    /\ keyfile[h] = None
    /\ \E key \in FreshKeys :
          setup' = [setup EXCEPT ![h] = [phase |-> "write", key |-> key]]
    /\ keyfile' = [keyfile EXCEPT ![h] = Torn]
    /\ UNCHANGED <<config, feedVars, inits>>

WriteKey(h) ==
    /\ Phase(h) = "write"
    /\ keyfile' = [keyfile EXCEPT ![h] = setup[h].key]
    /\ InPhase(h, "check_config")
    /\ UNCHANGED <<config, feedVars, inits>>

\* Mutant of FindConfig: the check is turned round.
MutFindNoConfig(h) ==
    /\ Phase(h) = "check_config"
    /\ config = None
    /\ InPhase(h, "check_feed")
    /\ UNCHANGED <<config, feedVars, keyfile, inits>>

FindConfig(h) ==
    /\ Phase(h) = "check_config"
    /\ config # None
    /\ InPhase(h, "check_feed")
    /\ UNCHANGED <<config, feedVars, keyfile, inits>>

Send(h, authority) ==
    inits' = inits \cup
        {[sender |-> h, admin |-> AdminOf[h], authority |-> authority]}

\* The fetch threw: there is no Config, or the request failed.
SendConfig(h) ==
    /\ Phase(h) = "check_config"
    /\ Send(h, None)
    /\ InPhase(h, "config_sent")
    /\ UNCHANGED <<config, feedVars, keyfile>>

FindFeed(h) ==
    /\ Phase(h) = "check_feed"
    /\ feed[Sol] # None
    /\ InPhase(h, "done")
    /\ UNCHANGED <<config, feedVars, keyfile, inits>>

SendFeed(h) ==
    /\ Phase(h) = "check_feed"
    /\ Send(h, setup[h].key)
    /\ InPhase(h, "feed_sent")
    /\ UNCHANGED <<config, feedVars, keyfile>>

\* Mutant of Confirm: what was sent is taken for done.
MutConfirmUnlanded(h) ==
    /\ \/ Phase(h) = "config_sent" /\ InPhase(h, "check_feed")
       \/ Phase(h) = "feed_sent" /\ InPhase(h, "done")
    /\ UNCHANGED <<config, feedVars, keyfile, inits>>

\* The signature of a transaction that landed.
Confirm(h) ==
    /\ \/ Phase(h) = "config_landed" /\ InPhase(h, "check_feed")
       \/ Phase(h) = "feed_landed" /\ InPhase(h, "done")
    /\ UNCHANGED <<config, feedVars, keyfile, inits>>

\* Mutant of ExitSetup: main().catch removes the key file.
MutExitCleansUp(h) ==
    /\ ~NotStarted(h)
    /\ setup' = [setup EXCEPT ![h] = Off]
    /\ inits' = {IF tx.sender = h THEN [tx EXCEPT !.sender = None] ELSE tx : tx \in inits}
    /\ keyfile' = [keyfile EXCEPT ![h] = None]
    /\ UNCHANGED <<config, feedVars>>

\* Killed, or an error that main does not catch: an answer the transaction
\* may yet belie.  What was sent stays on its way.
ExitSetup(h) ==
    /\ ~NotStarted(h)
    /\ setup' = [setup EXCEPT ![h] = Off]
    /\ inits' = {IF tx.sender = h THEN [tx EXCEPT !.sender = None] ELSE tx : tx \in inits}
    /\ UNCHANGED <<config, feedVars, keyfile>>

-----------------------------------------------------------------------------
(* The network *)

\* A sender that is still there waits for just this transaction.
Landed(tx, phase) ==
    /\ setup' = IF tx.sender = None THEN setup
                ELSE [setup EXCEPT ![tx.sender].phase = phase]
    /\ inits' = inits \ {tx}
    /\ UNCHANGED keyfile

LandConfig(tx) ==
    /\ tx \in inits /\ tx.authority = None
    /\ InitializeConfig(tx.admin, tx.admin, SETUP_FEE_BPS, SETUP_KEEPER_REWARD_BPS)
    /\ Landed(tx, "config_landed")
    /\ UNCHANGED feedVars

LandFeed(tx) ==
    /\ tx \in inits /\ tx.authority # None
    /\ InitializePriceFeed(tx.admin, tx.authority, Sol, SETUP_PRICE)
    /\ Landed(tx, "feed_landed")

\* Dropped, expired, or failed by the program.
LoseInit(tx) ==
    /\ tx \in inits
    /\ inits' = inits \ {tx}
    /\ UNCHANGED <<config, feedVars, keyfile, setup>>

-----------------------------------------------------------------------------
(* push-price.ts *)

\* Mutant of PushPrice: the wallet signs, not the key.
MutPushAsAdmin(h, price) ==
    /\ keyfile[h] \in Keys
    /\ UpdatePriceFeed(AdminOf[h], Sol, price)
    /\ UNCHANGED scriptVars

\* One transaction, signed with the key in the file; without a key in it the
\* script throws.  A key file never changes once it holds a key, so a push
\* that lands late is one sent later.
PushPrice(h, price) ==
    /\ keyfile[h] \in Keys
    /\ UpdatePriceFeed(keyfile[h], Sol, price)
    /\ UNCHANGED scriptVars

-----------------------------------------------------------------------------
SetupSteps(h) ==
    \/ ReadKey(h) \/ GenerateKey(h) \/ WriteKey(h)
    \/ FindConfig(h) \/ SendConfig(h)
    \/ FindFeed(h) \/ SendFeed(h)
    \/ Confirm(h)

\* Others: anyone may be first to create Config, and the admin of the day may
\* hand over.  What else update_config changes no script reads.
Administer ==
    \/ \E admin \in Officials :
          InitializeConfig(admin, admin, SETUP_FEE_BPS, SETUP_KEEPER_REWARD_BPS)
    \/ \E signer, admin \in Officials : UpdateConfig(signer, admin, None, None, None)

\* FeedOps is what others do to the feed, and the clock: the admin of the day
\* may create it with another authority and register it with Lazer, and that
\* authority and Lazer's payloads price it.
DevnetNext ==
    \/ \E h \in Hosts : SetupSteps(h) \/ ExitSetup(h)
    \/ \E h \in Hosts, price \in Prices : PushPrice(h, price)
    \/ \E tx \in inits : LandConfig(tx) \/ LandFeed(tx) \/ LoseInit(tx)
    \/ Administer /\ UNCHANGED <<feedVars, scriptVars>>
    \/ FeedOps /\ UNCHANGED scriptVars

DevnetSpec == DevnetInit /\ [][DevnetNext]_devnetVars

LandOf(h) ==
    \E tx \in inits : tx.sender = h /\ (LandConfig(tx) \/ LandFeed(tx))

\* A fetch that tells the truth.
FetchConfig(h) == FindConfig(h) \/ (config = None /\ SendConfig(h))
FetchFeed(h) == FindFeed(h) \/ (feed[Sol] = None /\ SendFeed(h))

\* .rpc() comes back in the end, if only with a timeout.
Return(h) == Confirm(h) \/ (Phase(h) \in {"config_sent", "feed_sent"} /\ ExitSetup(h))

\* Diligent operators run the scripts again and again.  Runs may fail, but not
\* for ever at the same statement: not every run is killed there, not every
\* fetch fails, not every transaction is lost or reported as failed.  The
\* other operators may stop at any time.
DevnetFairSpec ==
    /\ DevnetSpec
    /\ \A h \in Diligent :
         /\ WF_devnetVars(ReadKey(h) \/ GenerateKey(h))
         /\ SF_devnetVars(FetchConfig(h)) /\ SF_devnetVars(FetchFeed(h))
         /\ SF_devnetVars(LandOf(h)) /\ SF_devnetVars(Confirm(h))
         /\ WF_devnetVars(Return(h))
         /\ SF_devnetVars(\E price \in Prices : PushPrice(h, price))

-----------------------------------------------------------------------------
(* Properties *)

\* No crash, race of two hosts or late transaction orphans the feed: its
\* authority is a wallet an admin named without the scripts, or a key that is
\* in some host's file, because it is written there before a transaction that
\* names it is sent, and never overwritten.  (setup-devnet.ts:34-46, 99-106)
SomeHostCanPush ==
    feed[Sol] # None =>
        \/ feed[Sol].authority \in Officials
        \/ \E h \in Hosts : keyfile[h] = feed[Sol].authority

\* A key file that holds a key keeps it, through crashes, torn writes and runs
\* repeated over what earlier ones left: no run replaces a key that a price
\* push, or a transaction on its way, may rely on.  (setup-devnet.ts:34-46)
KeyFilesStay ==
    [][\A h \in Hosts : keyfile[h] \in Keys => keyfile'[h] = keyfile[h]]_devnetVars

\* A setup that reports completion has seen both accounts, though a failed
\* fetch looks like an absent account and an answer may be wrong.
CompleteMeansReady ==
    \A h \in Hosts : Phase(h) = "done" => config # None /\ feed[Sol] # None

\* Whatever state interrupted runs left behind, a diligent operator's setup
\* completes in the end, with two exceptions: a run was killed between creating
\* the key file and writing it, or there is no feed yet and Config has another
\* admin.  (setup-devnet.ts:53-110)
SetupCompletes ==
    \A h \in Diligent :
        []<>(\/ Phase(h) = "done"
             \/ keyfile[h] = Torn
             \/ config # None /\ config.admin # AdminOf[h] /\ feed[Sol] = None)

\* A stale feed whose authority's key a diligent operator has does not stay
\* stale, whichever run or host created it.
PusherRevivesFeed ==
    \A h \in Diligent :
        []<>((feed[Sol] # None /\ feed[Sol].authority = keyfile[h]) => Fresh(Sol))

-----------------------------------------------------------------------------
(* What the repository says and the code does not do *)

\* setup-devnet.ts:112-115: a setup that reports completion names the feed's
\* authority, and DEPLOY.md has the operator push with its key.
SetupNamesAuthority ==
    \A h \in Hosts : Phase(h) = "done" => setup[h].key = feed[Sol].authority
=============================================================================
