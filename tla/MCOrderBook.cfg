SPECIFICATION Spec
CONSTANTS
    ann = ann
    bob = bob
    cat = cat
    x = x
    y = y
    MaxU64 = 31
    MaxU128 = 7
    NoLock = NoLock
    NoRequest = NoRequest
    DigestRank <- MCRank
    TakerLock = 7
    MakerLock = 4
    MinGap = 2
    Skew = 1
    Makers = {ann, bob, cat}
    Tokens = {x, y}
    ChainIds = {1, 2}
    Posts <- MCPosts
    r1 = r1
    r2 = r2
    Requests = {r1, r2}
    MaxTime = 2
SYMMETRY Symmetry
INVARIANTS
    TypeOK
    NoDuplicates
    ServedAsRanked
    DealIsSound
    DivergenceNeverReveals
