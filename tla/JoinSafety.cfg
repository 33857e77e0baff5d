SPECIFICATION Spec
CONSTANTS
    NumShards <- const_NumShards
    Procs <- const_Trio
    HostOf <- const_TrioHosts
    ResultHost <- const_ResultHost
    Background <- const_First
    StaleFiles <- const_Stale
    MaxRuns = 4
    MaxRestarts = 1
    Faults <- const_AllFaults
INVARIANTS
    ShardExclusive
    WiredToSuccessor
    ReadyAfterLoad
CHECK_DEADLOCK FALSE
