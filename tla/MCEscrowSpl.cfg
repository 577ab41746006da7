SPECIFICATION Spec
CONSTANTS
    alice = alice
    bob = bob
    order = order
    usdc = usdc
    bonk = bonk
    NoEscrow = NoEscrow
    NoAccount = NoAccount
    Wallets <- MCWallets
    Refs = {order}
    Mints = {usdc, bonk}
    InitialTokens <- MCInitialTokens
    Amounts = {0, 1}
    Deadlines = {0, 1}
    Gifts = {1}
    MaxTime = 1
INVARIANTS
    SettleableWhenExact
PROPERTIES
    VaultsAreEmptiedInFull
    KeepsPromise
CHECK_DEADLOCK FALSE
