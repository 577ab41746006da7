SPECIFICATION Spec
CONSTANTS
    alice = alice
    bob = bob
    order = order
    NoEscrow = NoEscrow
    Wallets <- MCWallets
    Refs = {order}
    Rent = 3
    MinBalance = 2
    U64Max = 15
    InitialLamports <- MCInitialLamports
    Amounts = {0, 1, 4}
    Deadlines = {0, 1, 2}
    Gifts = {1, 2}
    MaxTime = 2
INVARIANTS
    Solvency
    Conservation
    NeverLocked
PROPERTIES
    KeepsPromise
CHECK_DEADLOCK FALSE
