SPECIFICATION Spec
CONSTANTS
    buyerWallet = buyerWallet
    sellerWallet = sellerWallet
    Wallets <- MCWallets
    Buyer = buyerWallet
    SELLER = sellerWallet
    Refs <- MCRefs
    r1 = r1
    r2 = r2
    NoEscrow = NoEscrow
    NoOrder = NoOrder
    Idle = Idle
    None = None
    Rent = 1
    MinBalance = 1
    U64Max = 10
    InitialLamports <- MCInitialLamports
    MaxTime = 2
    MAX_SOL = 4
    MinSecs = 1
    MaxSecs = 2
    Handlers = {h}
    handler = h
    MayLose = FALSE
    Sellers <- MCSellers
    s1 = s1
    s2 = s2
    Verifier = verifier
    BuyerAgent = buyer
    Prices = {1}
    BUDGET = 1
    SessionCap = 3
    DeadlineSecs = 1
    Lag = 1
    MayThrow = FALSE
    MaxRounds = 2
SYMMETRY Symmetry
INVARIANTS
    PaidOnlyForGoodWork
CHECK_DEADLOCK FALSE
