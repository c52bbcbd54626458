\* Two rounds: settled plays, expiry, closing and pool accounts carried over.
SPECIFICATION Spec
CHECK_DEADLOCK FALSE
INVARIANTS
    WinnersCovered
    PoolAgrees
    GodlBacked
PROPERTIES
    UnsettledPlayKept
    NothingPayableLost
    ImplementsTicket
CONSTANTS
    NumMiners = 2
    NumSquares = 2
    MaxRounds = 3
    MaxSlot = 6
    Amounts = {200}
    Masks <- MCTwoMasks
    PoolModes = {TRUE, FALSE}
    Plans = {}
    Deposits = {}
    MaxBalance = 0
    Referrers = {}
    Hashes = {}
    Rates = {10}
    Denominators = {}
    Timings = {}
    Withdrawals = {}
    GoldBuys = {}
    ConfigGrown = TRUE
    LOCKED = LOCKED
    MAX_GODL_PER_ROUND = 40
    Claimants = {}
    RngValues <- MCTwoRngs
    MAX_SUPPLY = 70
    MotherlodeOdds = 5
    None = None
    Unavailable = Unavailable
    NoOne = NoOne
    SPLIT_ADDRESS = SPLIT_ADDRESS
    POOL_ADDRESS = POOL_ADDRESS
    U64Max = 1000000
    ROUND_SLOTS = 1
    INTERMISSION_SLOTS = 1
    ONE_DAY_SLOTS = 3
    TWELVE_HOURS_SLOTS = 1
    ADMIN_FEE_BPS = 50
    SOL_MOTHERLODE_BPS = 100
    REFERRAL_BPS = 50
    DENOMINATOR_BPS = 10000
    CHECKPOINT_FEE = 7
    GodlPerRound = 40
    MotherlodeDenominator = 5
    PoolCap = 100000
