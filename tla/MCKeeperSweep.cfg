CONSTANTS
    None = None
    Wallets = {ann, kip, a1}
    Officials = {a1}
    Traders = {ann}
    Keepers = {kip}
    Bots = {kip}
    BpsInputs = {0}
    U64_MAX = 6
    COUNTER_MAX = 0
    BPS_DENOMINATOR = 10
    MAX_FEE_BPS = 0
    MAX_KEEPER_REWARD_BPS = 0
    Symbols = {sol}
    Prices = {1, 2}
    LazerIds = {}
    Channels = {}
    MaxTime = 0
    MAX_FEED_STALENESS_SECS = 0
    MAX_LAZER_PAYLOAD_AGE_SECS = 0
    Nonces = {1, 2}
    Collaterals = {2}
    Levels = {0, 2}
    Gifts = {}
    Funds <- MCFunds
    RENT = 1
    MaxSurplus = 0
    MIN_COLLATERAL_LAMPORTS = 2
SPECIFICATION KeeperFairSpec
PROPERTIES
    RunningBotSettles
