CONSTANTS
    None = None
    Wallets = {ann, bob, kim, adm, fee}
    Officials = {adm, fee}
    Traders = {ann, bob}
    Keepers = {kim}
    BpsInputs = {200, 400}
    U64_MAX = 250000
    COUNTER_MAX = 2
    BPS_DENOMINATOR = 10000
    MAX_FEE_BPS = 500
    MAX_KEEPER_REWARD_BPS = 200
    Symbols = {sol}
    Prices = {1, 2}
    LazerIds = {}
    Channels = {}
    MaxTime = 0
    MAX_FEED_STALENESS_SECS = 2
    MAX_LAZER_PAYLOAD_AGE_SECS = 1
    Nonces = {1}
    Collaterals = {99999, 100003}
    Levels = {0, 2}
    Gifts = {}
    Funds <- MCMoneyFunds
    RENT = 30
    MaxSurplus = 0
    MIN_COLLATERAL_LAMPORTS = 100000
SYMMETRY MCMoneySymmetry
SPECIFICATION Spec
INVARIANTS
    CountersAgree
    BooksMatchWallets
