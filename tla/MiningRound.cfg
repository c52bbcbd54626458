\* One round, every mix of masks, rounding amounts and pooling, every outcome.
SPECIFICATION Spec
CHECK_DEADLOCK FALSE
INVARIANTS
    TypeOK
    RangesDisjoint
    SquaresTiled
    StrictResetPossible
    ShortOfDustOnly
    BooksMatchCash
    ReferralsAreSound
PROPERTIES
    SoloWinnerIsFinal
CONSTANTS
    NumMiners = 2
    NumSquares = 2
    MaxRounds = 2
    MaxSlot = 5
    Amounts = {133, 267}
    Masks <- MCRoundMasks
    PoolModes = {TRUE, FALSE}
    Plans = {}
    Deposits = {}
    MaxBalance = 0
    Referrers = {2}
    Hashes = {}
    Rates = {}
    Denominators = {}
    Timings = {}
    Withdrawals = {400}
    GoldBuys = {8}
    ConfigGrown = TRUE
    LOCKED = LOCKED
    MAX_GODL_PER_ROUND = 40
    Claimants = {1}
    RngValues <- MCRoundRngs
CONSTANTS
    None = None
    Unavailable = Unavailable
    NoOne = NoOne
    SPLIT_ADDRESS = SPLIT_ADDRESS
    POOL_ADDRESS = POOL_ADDRESS
    U64Max = 1000000
    ROUND_SLOTS = 1
    INTERMISSION_SLOTS = 1
    ONE_DAY_SLOTS = 3
    TWELVE_HOURS_SLOTS = 1
    ADMIN_FEE_BPS = 50
    SOL_MOTHERLODE_BPS = 100
    REFERRAL_BPS = 50
    DENOMINATOR_BPS = 10000
    CHECKPOINT_FEE = 7
    MAX_SUPPLY = 45
    GodlPerRound = 40
    MotherlodeDenominator = 5
    MotherlodeOdds = 5
    PoolCap = 300
