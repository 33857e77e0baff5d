SPECIFICATION FairSpec
CONSTANTS
    NumShards <- const_NumShards
    Procs <- const_Trio
    HostOf <- const_TrioHosts
    ResultHost <- const_ResultHost
    Background <- const_None
    StaleFiles <- const_None
    MaxRuns = 3
    MaxRestarts = 1
    Faults <- const_Timeouts
PROPERTIES
    NetworkForms
    JoinDecides
    ReadyLeadsToServing
CHECK_DEADLOCK FALSE
