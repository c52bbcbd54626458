CONSTANTS
    NumStakes = 3
    Owner <- SweepOwners
    NumAuthorities = 1
    Genesis <- SweepGenesis
    GenesisV1 <- SweepV1
    Savings <- SweepSavings
    GenesisDrift = 2
    Phantoms = {3}
    Executors = {Keeper}
    OtherTokens = 0
    Assets = 0
    Locks = {1}
    DepositAmounts = {1}
    WithdrawAmounts = {9}
    ClaimAmounts = {9}
    Donations = {1}
    BuryAmounts = {}
    BuryTokensAmounts = {}
    MaxFactor = 0
    MaxOwed = 0
    MaxTime = 1
    MaxAttempts = 1
    Keeper = Keeper
    None = None
    STAKE_MULTIPLIER_SCALE = 1
    MAX_STAKE_MULTIPLIER = 4
    MAX_LOCK_DURATION = 2
    NFT_BOOST_NUMERATOR = 3
    NFT_BOOST_DENOMINATOR = 2
    STAKERS_BPS = 5
    DENOMINATOR_BPS = 10
    CompoundFeeDivisor = 2
    FRACTION = 8
    MaxShareLoss = 2
CHECK_DEADLOCK FALSE
SPECIFICATION FairSpec
ACTION_CONSTRAINT Quiet
PROPERTIES RebaseClearsDrift SweepEnds
