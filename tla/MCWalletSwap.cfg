SPECIFICATION Spec
CONSTANTS
    ann = ann
    bob = bob
    eve = eve
    coin = coin
    s1 = s1
    Native = coin
    TokenContracts = {}
    ZeroHash = ZeroHash
    MaxU64 = 15
    MaxU128 = 7
    NoLock = NoLock
    Taker = ann
    Maker = bob
    Secret = s1
    TakerLeg <- T
    MakerLeg <- M
    OtherLegs <- AllOthers
    HonestSets <- Everybody
    TakerStarts <- BothStarts
    TakerKnowsHash = TRUE
    LostReceipts = TRUE
    MinGap = 4
    MinConf = 2
    Lag = 2
    MaxTime = 10
CHECK_DEADLOCK FALSE
INVARIANTS
    TypeOK
    SecretSafe
    MakerPaid
    ReportsAreTrue
PROPERTIES
    RevealLeavesRoom
    NeverLocksUnsafe
