SPECIFICATION FairSpec
CONSTANTS
    ann = ann
    bob = bob
    coin = coin
    s1 = s1
    Native = coin
    TokenContracts = {}
    ZeroHash = ZeroHash
    MaxU64 = 7
    MaxU128 = 7
    NoPreimage = NoPreimage
    Chain = "A"
    Secret = s1
    Ids <- MCIds
    MinConf = 2
    MaxReorg = 1
    MaxHeight = 4
INVARIANTS
    TypeOK
    ConfirmedIsFinal
    NothingMissed
PROPERTY
    SettledLockIsConfirmed
