CONSTANTS
    None = None
    Wallets = {ann, kip, adm}
    Officials = {adm}
    Traders = {ann}
    Keepers = {ann, kip}
    BpsInputs = {3, 4}
    U64_MAX = 11
    COUNTER_MAX = 0
    BPS_DENOMINATOR = 10
    MAX_FEE_BPS = 4
    MAX_KEEPER_REWARD_BPS = 3
    Symbols = {sol}
    Prices = {1, 2}
    LazerIds = {}
    Channels = {}
    MaxTime = 0
    MAX_FEED_STALENESS_SECS = 0
    MAX_LAZER_PAYLOAD_AGE_SECS = 0
    Nonces = {1, 2}
    Collaterals = {4}
    Levels = {0, 1}
    Gifts = {1}
    Funds <- MCFunds
    RENT = 1
    MaxSurplus = 1
    MIN_COLLATERAL_LAMPORTS = 4
SPECIFICATION Spec
PROPERTIES
    EscrowIsKept
