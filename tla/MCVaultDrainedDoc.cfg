CONSTANTS
    None = None
    Wallets = {ann, fee}
    Officials = {ann, fee}
    Traders = {ann}
    Keepers = {ann, fee}
    BpsInputs = {25, 200, 500, 501}
    U64_MAX = 210000
    COUNTER_MAX = 1
    BPS_DENOMINATOR = 10000
    MAX_FEE_BPS = 500
    MAX_KEEPER_REWARD_BPS = 200
    Symbols = {sol}
    Prices = {1, 2}
    LazerIds = {}
    Channels = {}
    MaxTime = 0
    MAX_FEED_STALENESS_SECS = 2
    MAX_LAZER_PAYLOAD_AGE_SECS = 1
    Nonces = {1}
    Collaterals = {99999, 100003}
    Levels = {0, 1}
    Gifts = {20}
    Funds <- MCMoneyFunds
    RENT = 30
    MaxSurplus = 20
    MIN_COLLATERAL_LAMPORTS = 100000
SPECIFICATION Spec
PROPERTIES
    FiredTickDrainsVault
