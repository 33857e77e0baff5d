SPECIFICATION FairSpec
CONSTANTS
    NumShards = 2
    Launches <- const_Launches
    KindsOf <- const_KindsOf
    MaxStops = 1
    MaxFaults = 1
    Peers <- const_Peers
    Addresses <- const_Addresses
    Clients <- const_Clients
    TTL = 4
INVARIANTS
    ReadyIsCurrent
    FileMeansWorker
    ListIsExact
    ForgottenInTime
PROPERTIES
    LaunchDecides
    LaunchSucceeds
    AnsweredUnlessGarbled
CHECK_DEADLOCK FALSE
