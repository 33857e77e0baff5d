SPECIFICATION FairSpec
CONSTANTS
    NumWorkers = 2
    MaxTokens = 2
    MaxRequests = 4
    MaxFailures = 1
    HWM = 1
    Faults <- const_All
INVARIANTS
    FlowOrdered
    PileUpBounded
PROPERTIES
    AnswersOnce
    AnswersStrictUntilTimeout
    ReturnsUnlessHeld
CHECK_DEADLOCK FALSE
