SPECIFICATION CallbackSpec
CONSTANTS
    ann = ann
    bob = bob
    kael = kael
    htlc = htlc
    coin = coin
    tok = tok
    hook = hook
    s1 = s1
    s2 = s2
    Native = coin
    TokenContracts = {tok, hook}
    CallbackTokens = {hook}
    ZeroHash = ZeroHash
    Accounts = {ann, bob}
    SettlementAddr = kael
    HtlcAddr = htlc
    Tokens = {coin, tok, hook}
    Preimages = {s1, s2}
    Ids <- MCIds
    MaxTime = 2
    Supply = 2
    MaxDepth = 3
INVARIANTS
    HtlcTypeOK
    SolventInCalls
PROPERTY
    FinalDespiteCallbacks
CHECK_DEADLOCK FALSE
