CONSTANTS
    None = None
    Wallets = {ann, fee, new}
    Officials = {ann, new}
    Funded = {fee}
    Traders = {ann}
    Keepers = {ann, fee, new}
    BpsInputs = {200, 500, 1000}
    U64_MAX = 600000
    COUNTER_MAX = 0
    BPS_DENOMINATOR = 10000
    MAX_FEE_BPS = 500
    MAX_KEEPER_REWARD_BPS = 200
    Symbols = {sol}
    Prices = {1, 2}
    LazerIds = {}
    Channels = {}
    MaxTime = 0
    MAX_FEED_STALENESS_SECS = 2
    MAX_LAZER_PAYLOAD_AGE_SECS = 1
    Nonces = {1}
    Collaterals = {99999, 100003}
    Levels = {0, 1}
    Gifts = {100000}
    Funds <- MCFunds
    RENT = 228000
    WALLET_RENT = 89088
    MaxSurplus = 200000
    MIN_COLLATERAL_LAMPORTS = 100000
SPECIFICATION HandlerSpec
INVARIANTS
    HandlerTypeOK
    TicksFailOnlyForEmptyPayees
    NeverStuck
    Solvent
    LamportsConserved
PROPERTIES
    HandlerIsAtomic
    OwnerFloor
    VaultOnlyPaysOnSettlement
