\* The sanity check of reset.rs against the fees that checkpoint.rs collects.
SPECIFICATION Spec
CHECK_DEADLOCK FALSE
INVARIANTS
    OutflowsWithinDeployed
CONSTANTS
    NumMiners = 2
    NumSquares = 2
    MaxRounds = 2
    MaxSlot = 3
    Amounts = {133, 267}
    Masks <- MCRoundMasks
    PoolModes = {FALSE}
    Plans = {}
    Deposits = {}
    MaxBalance = 0
    Referrers = {}
    Hashes = {}
    Rates = {}
    Denominators = {}
    Timings = {}
    Withdrawals = {}
    GoldBuys = {}
    ConfigGrown = TRUE
    LOCKED = LOCKED
    MAX_GODL_PER_ROUND = 40
    Claimants = {}
    RngValues <- MCRoundRngs
    MAX_SUPPLY = 100
    MotherlodeOdds = 5
    None = None
    Unavailable = Unavailable
    NoOne = NoOne
    SPLIT_ADDRESS = SPLIT_ADDRESS
    POOL_ADDRESS = POOL_ADDRESS
    U64Max = 1000000
    ROUND_SLOTS = 1
    INTERMISSION_SLOTS = 1
    ONE_DAY_SLOTS = 3
    TWELVE_HOURS_SLOTS = 1
    ADMIN_FEE_BPS = 50
    SOL_MOTHERLODE_BPS = 100
    REFERRAL_BPS = 50
    DENOMINATOR_BPS = 10000
    CHECKPOINT_FEE = 7
    GodlPerRound = 40
    MotherlodeDenominator = 5
    PoolCap = 100000
