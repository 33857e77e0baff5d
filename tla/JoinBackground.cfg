SPECIFICATION FairSpec
CONSTANTS
    NumShards <- const_NumShards
    Procs <- const_Pair
    HostOf <- const_PairHosts
    ResultHost <- const_ResultHost
    Background <- const_First
    StaleFiles <- const_None
    MaxRuns = 2
    MaxRestarts = 0
    Faults <- const_None
PROPERTIES
    ReadyLeadsToServing
CHECK_DEADLOCK FALSE
