SPECIFICATION FairSpec
CONSTANTS
    ann = ann
    bob = bob
    coin = coin
    s1 = s1
    Native = coin
    TokenContracts = {}
    ZeroHash = ZeroHash
    MaxU64 = 7
    MaxU128 = 7
    NoPreimage = NoPreimage
    Legs <- MCLegs
    Preimages = {s1}
    MaxTime = 2
    MaxBlocks = 3
INVARIANTS
    TypeOK
    WatchdogExact
    CorrelationExact
PROPERTY
    ExpiredLegAlarms
