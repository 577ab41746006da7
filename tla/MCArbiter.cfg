SPECIFICATION Spec
CONSTANTS
    client = client
    provider = provider
    task = task
    pda = pda
    Nobody = Nobody
    NoEscrow = NoEscrow
    Parties <- MCParties
    VaultOf <- MCVaultOf
    Refs = {task}
    Rent = 3
    MinBalance = 2
    U64Max = 10
    InitialLamports <- MCInitialLamports
    Amounts = {0, 1, 2}
    Deadlines = {1}
    Gifts = {2}
    MaxTime = 1
INVARIANTS
    ArbiterCanSettle
PROPERTIES
    OnlyTheArbiterSettles
    
CHECK_DEADLOCK FALSE
