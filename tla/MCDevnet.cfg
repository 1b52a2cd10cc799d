CONSTANTS
    None = None
    Torn = Torn
    op = op
    visitor = visitor
    Hosts = {h1, h2}
    Diligent = {h1}
    AdminOf <- MCOneAdmin
    Keys = {k1, k2}
    Wallets = {op, visitor, k1, k2}
    Officials = {op, visitor}
    BpsInputs = {}
    U64_MAX = 2
    COUNTER_MAX = 0
    BPS_DENOMINATOR = 10000
    MAX_FEE_BPS = 500
    MAX_KEEPER_REWARD_BPS = 200
    Symbols = {sol}
    Sol = sol
    Prices = {0, 1}
    LazerIds = {}
    Channels = {}
    MaxTime = 1
    MAX_FEED_STALENESS_SECS = 0
    MAX_LAZER_PAYLOAD_AGE_SECS = 0
    SETUP_FEE_BPS = 50
    SETUP_KEEPER_REWARD_BPS = 25
    SETUP_PRICE = 1
SPECIFICATION DevnetFairSpec
INVARIANTS
    DevnetTypeOK
    SomeHostCanPush
    CompleteMeansReady
PROPERTIES
    KeyFilesStay
    SetupCompletes
    PusherRevivesFeed
