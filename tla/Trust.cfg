SPECIFICATION Spec
CONSTANTS
    Nodes <- const_Nodes
    Threads <- const_Threads
    Tokens <- const_Tokens
    PENALTY = 10
    MaxRewards = 2
    MaxGood = 1
    MaxBad = 2
    MaxSaves = 2
    MaxCrashes = 1
    MaxEarlier = 9
INVARIANTS
    
    SavedIsFound
    DistrustTakesTen
CHECK_DEADLOCK FALSE
