SPECIFICATION Spec
CONSTANTS
    buyerWallet = buyerWallet
    sellerWallet = sellerWallet
    Wallets <- MCWallets
    Buyer = buyerWallet
    SELLER = sellerWallet
    Refs = {r1, r2}
    NoEscrow = NoEscrow
    NoOrder = NoOrder
    Idle = Idle
    None = None
    Rent = 1
    MinBalance = 1
    U64Max = 10
    InitialLamports <- MCInitialLamports
    MaxTime = 2
    MAX_SOL = 4
    MinSecs = 1
    MaxSecs = 2
    Handlers = {h}
    handler = h
    MayLose = TRUE
    Sellers = {s1}
    Verifier = verifier
    BuyerAgent = buyer
    Prices = {1, 2}
    BUDGET = 2
    SessionCap = 3
    DeadlineSecs = 1
    Lag = 1
    MayThrow = TRUE
    MaxRounds = 2
INVARIANTS
    WorkIsFunded
    AnnouncementsAreTrue
    SessionCapHolds
PROPERTIES
    ConfirmedOrdersAreSettled
CHECK_DEADLOCK FALSE
