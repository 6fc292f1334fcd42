SPECIFICATION RunnerSpec
CONSTANTS
    ann = ann
    bob = bob
    eve = eve
    coin = coin
    tok = tok
    s1 = s1
    htlcA = htlcA
    htlcB = htlcB
    setA = setA
    setB = setB
    eoa = eoa
    Native = coin
    Zero = coin
    TokenContracts = {tok}
    ZeroHash = ZeroHash
    MaxU64 = 15
    MaxU128 = 7
    NoLock = NoLock
    Taker = ann
    Maker = bob
    Secret = s1
    TakerLeg <- T
    MakerLeg <- M
    OtherLegs <- Decoys
    HonestSets <- BothParties
    TakerStarts <- RunnersTaker
    TakerKnowsHash = TRUE
    LostReceipts = TRUE
    MinGap = 4
    MinConf = 2
    Lag = 2
    MaxTime = 10
    AllowedChains = {1, 2}
    Configs <- MCConfigs
    Worlds <- MCWorlds
    Gas = 1
    MaxSteps = 6
CHECK_DEADLOCK FALSE
INVARIANTS
    RunnerTypeOK
    OkMeansSwapped
    StopLosesNothing
    PreflightFundsTheSwap
    PreflightForetellsTheRunner
