SPECIFICATION NetSpec
CONSTANTS
    NumShards <- const_NumShards
    Hosts <- const_Hosts
    ResultHost <- const_ResultHost
    MaxLayers = 13
    MaxShards = 4
INVARIANTS
    RoutesFormChain
    CompleteIsComplete
    SameAsWholeModel
PROPERTIES
    ConfigStable
    ImplementsAllocation
    RequestIsServed
    ImplementsForward
