CONSTANTS
    None = None
    Wallets = {a1, a2}
    Officials = {a1, a2}
    BpsInputs = {0, 1, 2}
    U64_MAX = 2
    COUNTER_MAX = 1
    BPS_DENOMINATOR = 10
    MAX_FEE_BPS = 1
    MAX_KEEPER_REWARD_BPS = 0
    Symbols = {sol}
    Prices <- MCPrices
    LazerIds = {0, 1}
    Channels = {0, 2, 3}
    MaxTime = 4
    MAX_FEED_STALENESS_SECS = 2
    MAX_LAZER_PAYLOAD_AGE_SECS = 1
SPECIFICATION FeedFairSpec
INVARIANTS
    ConfigTypeOK
    FeedTypeOK
    PriceAgeBounded
    UnregisteredFeedIsStamped
PROPERTIES
    BoundedRollback
    LazerRegistrationIsFinal
    StaleFeedRecovers
