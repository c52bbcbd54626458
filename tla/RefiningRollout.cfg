\* The rollout: audits and rebases after the legacy instructions have expired.
CONSTANTS
    NumMiners = 3
    Genesis <- RolloutGenesis
    GenesisExtended <- RolloutExtended
    GenesisDrift = 2
    GenesisPrizes = 0
    Referred = {}
    Players = {2, 3}
    Claimants = {1}
    RewardAmounts = {0, 2}
    InjectAmounts = {2}
    BonusAmounts = {0, 2}
    MotherlodeAmounts = {2}
    XautAmounts = {3}
    SolAmounts = {2}
    SolFee = 2
    MaxTokens = 8
    MaxXaut = 3
    MaxTime = 1
    MaxAttempts = 2
    AuditFrom = 1
    AuditFirst = TRUE
    None = None
    LEGACY_INSTRUCTION_EXPIRY_TS = 1
    GODL_PER_ROUND = 2
    MOTHERLODE_MINT = 1
    FeeDivisor = 2
    REFERRAL_BPS = 5
    RUSH_SOL_MOTHERLODE_BPS = 5
    DENOMINATOR_BPS = 10
    GOLD_FACTOR_SCALE = 2
    FRACTION = 4
    MaxShareLoss = 2
CHECK_DEADLOCK FALSE
SPECIFICATION Spec
ACTION_CONSTRAINT Quiet
PROPERTIES GoldMissesNobody RebaseClearsDrift
