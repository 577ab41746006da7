SPECIFICATION Spec
CONSTANTS
    Fetches = {f1, f2, f3}
    Refs = {r1, r2, r3}
    MaxOpen = 2
    MaxRestarts = 1
    None = None
SYMMETRY MCSymmetry
INVARIANTS
    DeliveredOnlyForPayment
    SettlementsAreReal
    UnservedOnlyByTrouble
CHECK_DEADLOCK FALSE
