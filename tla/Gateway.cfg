SPECIFICATION FairSpec
CONSTANTS
    Workers <- const_Workers
    ShardIdx <- const_ShardIdx
    Width <- const_Width
    ModelName <- const_ModelName
    Deaf <- const_Deaf
    Requests <- const_Requests
    MaxWidth = 2
    Latencies = {1}
    MISS_LIMIT = 2
    MaxFaults = 3
    MaxServing = 1
INVARIANTS
    ChainWasAlive
    NoFalseShortage
    ChainIsFastest
PROPERTIES
    StoppedForgotten
    DeafIsMarked
    RunningIsUsable
    OneMissForgiven
