\* The rollout with an audit before the legacy instructions expire.
CONSTANTS
    NumMiners = 3
    Genesis <- RolloutGenesis
    GenesisExtended <- RolloutExtended
    GenesisDrift = 0
    GenesisPrizes = 0
    Referred = {}
    Players = {1, 2, 3}
    Claimants = {}
    RewardAmounts = {0, 2}
    InjectAmounts = {}
    BonusAmounts = {}
    MotherlodeAmounts = {}
    XautAmounts = {3}
    SolAmounts = {}
    SolFee = 0
    MaxTokens = 9
    MaxXaut = 3
    MaxTime = 1
    MaxAttempts = 1
    AuditFrom = 0
    AuditFirst = TRUE
    None = None
    LEGACY_INSTRUCTION_EXPIRY_TS = 1
    GODL_PER_ROUND = 2
    MOTHERLODE_MINT = 1
    FeeDivisor = 2
    REFERRAL_BPS = 5
    RUSH_SOL_MOTHERLODE_BPS = 5
    DENOMINATOR_BPS = 10
    GOLD_FACTOR_SCALE = 2
    FRACTION = 4
    MaxShareLoss = 2
CHECK_DEADLOCK FALSE
SPECIFICATION Spec
PROPERTY GoldMissesNobody
