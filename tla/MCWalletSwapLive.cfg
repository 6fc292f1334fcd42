SPECIFICATION FairSpec
CONSTANTS
    ann = ann
    bob = bob
    eve = eve
    coin = coin
    s1 = s1
    Native = coin
    TokenContracts = {}
    ZeroHash = ZeroHash
    MaxU64 = 15
    MaxU128 = 7
    NoLock = NoLock
    Taker = ann
    Maker = bob
    Secret = s1
    TakerLeg <- T
    MakerLeg <- M
    OtherLegs <- LiveOthers
    HonestSets <- Everybody
    TakerStarts <- BothStarts
    TakerKnowsHash = TRUE
    LostReceipts = FALSE
    MinGap = 4
    MinConf = 2
    Lag = 2
    MaxTime = 10
CHECK_DEADLOCK FALSE
PROPERTIES
    TakerEnds
    MakerEnds
