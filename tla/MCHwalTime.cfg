CONSTANTS
    None = None
    Wallets = {ann, kim, adm}
    Officials = {adm}
    Traders = {ann}
    Keepers = {kim}
    BpsInputs = {0}
    U64_MAX = 4
    COUNTER_MAX = 1
    BPS_DENOMINATOR = 10
    MAX_FEE_BPS = 1
    MAX_KEEPER_REWARD_BPS = 0
    Symbols = {sol}
    Prices = {0, 1, 2}
    LazerIds = {0}
    Channels = {0}
    MaxTime = 4
    MAX_FEED_STALENESS_SECS = 2
    MAX_LAZER_PAYLOAD_AGE_SECS = 1
    Nonces = {1}
    Collaterals = {0, 1}
    Levels <- MCTimeLevels
    Gifts = {}
    Funds <- MCFunds
    RENT = 1
    MaxSurplus = 40
    MIN_COLLATERAL_LAMPORTS = 1
SPECIFICATION Spec
PROPERTIES
    TickedPriceIsRecent
