SPECIFICATION Spec
CONSTANTS
    ann = ann
    bob = bob
    kael = kael
    htlc = htlc
    coin = coin
    tok = tok
    eoa = eoa
    s1 = s1
    Native = coin
    TokenContracts = {tok}
    ZeroHash = ZeroHash
    Accounts = {ann, bob}
    SettlementAddr = kael
    HtlcAddr = htlc
    Tokens = {coin, tok, eoa}
    Preimages = {s1}
    Ids <- FewIds
    MaxTime = 2
    Supply = 1
    Orders <- MCOrders
    SignedOrders <- MCSigned
    ChainId = 1
    NoOne = NoOne
    NoOrder = NoOrder
CHECK_DEADLOCK FALSE
INVARIANT OrderBindsLeg
