SPECIFICATION Spec
CONSTANTS
    NumWorkers = 2
    MaxTokens = 1
    MaxRequests = 2
    MaxFailures = 0
    HWM = 2
    Faults <- const_Timeout
PROPERTIES
    AnswersStrictly
CHECK_DEADLOCK FALSE
