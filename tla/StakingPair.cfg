CONSTANTS
    NumStakes = 2
    Owner <- OneOwner
    NumAuthorities = 1
    Genesis <- PairGenesis
    GenesisV1 <- PairV1
    Savings <- PairSavings
    GenesisDrift = 0
    Phantoms = {}
    Executors = {Keeper}
    OtherTokens = 0
    Assets = 1
    Locks = {0, 2}
    DepositAmounts = {2}
    WithdrawAmounts = {1, 9}
    ClaimAmounts = {5}
    Donations = {}
    BuryAmounts = {12}
    BuryTokensAmounts = {}
    MaxFactor = 4
    MaxOwed = 6
    MaxTime = 2
    MaxAttempts = 0
    Keeper = Keeper
    None = None
    STAKE_MULTIPLIER_SCALE = 4
    MAX_STAKE_MULTIPLIER = 4
    MAX_LOCK_DURATION = 2
    NFT_BOOST_NUMERATOR = 3
    NFT_BOOST_DENOMINATOR = 2
    STAKERS_BPS = 5
    DENOMINATOR_BPS = 10
    CompoundFeeDivisor = 2
    FRACTION = 8
    MaxShareLoss = 2
CHECK_DEADLOCK FALSE
SPECIFICATION Spec
INVARIANTS TypeOK ExitIsOpen
PROPERTIES ImplementsPool CommitmentKept
