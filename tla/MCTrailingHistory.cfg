CONSTANTS
    None = None
    Wallets = {ann, kim, adm}
    Officials = {adm}
    Traders = {ann}
    Keepers = {kim}
    BpsInputs = {0}
    U64_MAX = 5
    COUNTER_MAX = 0
    BPS_DENOMINATOR = 10
    MAX_FEE_BPS = 1
    MAX_KEEPER_REWARD_BPS = 0
    Symbols = {sol}
    Prices <- MCPrices
    LazerIds = {}
    Channels = {0}
    MaxTime = 0
    MAX_FEED_STALENESS_SECS = 2
    MAX_LAZER_PAYLOAD_AGE_SECS = 1
    Nonces = {1}
    Collaterals = {1}
    Levels <- MCLevels
    Gifts = {}
    Funds <- MCFunds
    RENT = 1
    MaxSurplus = 40
    MIN_COLLATERAL_LAMPORTS = 1
SPECIFICATION HistorySpec
INVARIANTS
    TypeOK
    TriggersAnchored
    TickArithmeticSafe
    StopAndTakeProfitDisjoint
    JumpsStillFire
    ExtremeIsBestSeen
    DisarmedExtremeIsEntry
PROPERTIES
    SettledIsTerminal
    TrailingFiresOnRetreat
