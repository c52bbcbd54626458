\* Automations over two played rounds: funded, played by their executor, cancelled, refilled from claims; rounds go on.
SPECIFICATION FairSpec
CHECK_DEADLOCK FALSE
PROPERTIES
    RoundIsReset
    MinerIsReleased
    RandomPlanFills
CONSTANTS
    NumMiners = 1
    NumSquares = 2
    MaxRounds = 3
    MaxSlot = 5
    Amounts = {200}
    Masks <- MCAutoMasks
    PoolModes = {TRUE}
    Plans <- MCAutoPlans
    Deposits = {205}
    MaxBalance = 410
    Referrers = {}
    Hashes <- MCHashes
    Rates = {}
    Denominators = {0}
    Timings <- MCTimings
    Withdrawals = {}
    GoldBuys = {}
    ConfigGrown = FALSE
    LOCKED = LOCKED
    MAX_GODL_PER_ROUND = 40
    Claimants = {1}
    RngValues <- MCAutoRngs
    MAX_SUPPLY = 100
    MotherlodeOdds = 5
    None = None
    Unavailable = Unavailable
    NoOne = NoOne
    SPLIT_ADDRESS = SPLIT_ADDRESS
    POOL_ADDRESS = POOL_ADDRESS
    U64Max = 1000000
    ROUND_SLOTS = 2
    INTERMISSION_SLOTS = 1
    ONE_DAY_SLOTS = 3
    TWELVE_HOURS_SLOTS = 1
    ADMIN_FEE_BPS = 50
    SOL_MOTHERLODE_BPS = 100
    REFERRAL_BPS = 50
    DENOMINATOR_BPS = 10000
    CHECKPOINT_FEE = 7
    GodlPerRound = 40
    MotherlodeDenominator = 5
    PoolCap = 100000
