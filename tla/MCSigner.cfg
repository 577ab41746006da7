SPECIFICATION Spec
CONSTANTS
    buyer = buyer
    seller = seller
    Buyer = buyer
    SELLER = seller
    Wallets <- MCWallets
    r1 = r1
    r2 = r2
    r3 = r3
    h1 = h1
    h2 = h2
    Refs <- MCRefs
    NoEscrow = NoEscrow
    NoOrder = NoOrder
    Idle = Idle
    Rent = 1
    MinBalance = 1
    U64Max = 15
    InitialLamports <- MCInitialLamports
    AskedAmounts <- MCAmounts
    MaxTime = 1
    MAX_SOL = 2
    MinSecs = 1
    MaxSecs = 2
    AskedSecs = {1, 3}
    Handlers <- MCHandlers
    MayLose = TRUE
    MaxRestarts = 1
SYMMETRY Symmetry
INVARIANTS
    OvershootIsBounded
    
CHECK_DEADLOCK FALSE
