\* Three holders share fees and gold and claim at different times.
CONSTANTS
    NumMiners = 3
    Genesis <- ShareGenesis
    GenesisExtended <- ShareExtended
    GenesisDrift = 0
    GenesisPrizes = 0
    Referred = {1}
    Players = {1}
    Claimants = {1, 2}
    RewardAmounts = {0, 2}
    InjectAmounts = {}
    BonusAmounts = {3}
    MotherlodeAmounts = {}
    XautAmounts = {2}
    SolAmounts = {}
    SolFee = 0
    MaxTokens = 13
    MaxXaut = 4
    MaxTime = 1
    MaxAttempts = 0
    AuditFrom = 0
    AuditFirst = FALSE
    None = None
    LEGACY_INSTRUCTION_EXPIRY_TS = 1
    GODL_PER_ROUND = 2
    MOTHERLODE_MINT = 1
    FeeDivisor = 2
    REFERRAL_BPS = 5
    RUSH_SOL_MOTHERLODE_BPS = 5
    DENOMINATOR_BPS = 10
    GOLD_FACTOR_SCALE = 2
    FRACTION = 4
    MaxShareLoss = 2
CHECK_DEADLOCK FALSE
SPECIFICATION Spec
INVARIANTS TypeOK ClaimIsOpen GodlBacked
PROPERTIES UnclaimedAddsUp ImplementsRefinedPool ImplementsGoldPool
