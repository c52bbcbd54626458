CONSTANTS
    NumStakes = 2
    Owner <- DeskOwners
    NumAuthorities = 2
    Genesis <- DeskGenesis
    GenesisV1 <- DeskV1
    Savings <- DeskSavings
    GenesisDrift = 1
    Phantoms = {}
    Executors = {2}
    OtherTokens = 2
    Assets = 0
    Locks = {0}
    DepositAmounts = {1}
    WithdrawAmounts = {9}
    ClaimAmounts = {9}
    Donations = {}
    BuryAmounts = {8}
    BuryTokensAmounts = {2}
    MaxFactor = 4
    MaxOwed = 4
    MaxTime = 1
    MaxAttempts = 0
    Keeper = 2
    Buyers = {2}
    Quotes <- DeskQuotes
    FundAmounts = {3}
    ONE_MONTH = 2
    None = None
    STAKE_MULTIPLIER_SCALE = 4
    MAX_STAKE_MULTIPLIER = 4
    MAX_LOCK_DURATION = 2
    NFT_BOOST_NUMERATOR = 3
    NFT_BOOST_DENOMINATOR = 2
    STAKERS_BPS = 5
    DENOMINATOR_BPS = 10
    CompoundFeeDivisor = 2
    FRACTION = 8
    MaxShareLoss = 2
CHECK_DEADLOCK FALSE
SPECIFICATION OtcSpec
INVARIANTS NeverOverDistributed YieldIsBacked DeskAddsUp BoughtStaysLocked
PROPERTIES WeightsAddUp
