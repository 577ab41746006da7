SPECIFICATION LedgerSpec
CONSTANTS
    LastRound = 1
    MaxMessages = 2
    Polls = {p1, p2}
    Passes = {g1}
    MaxCrashes = 1
    Idle = Idle
    NoFile = NoFile
    Torn = Torn
PROPERTIES
    GradesAreOnlyRacedAway
    
