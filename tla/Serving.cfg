SPECIFICATION FairSpec
CONSTANTS
    Users <- const_Users
    Completions <- const_Completions
    Probes <- const_Probes
    Heads <- const_Heads
    BaseHead = "base"
    MaxTokens = 2
    MaxTurns = 1
PROPERTIES
    RequestsAnswered
    RefusedByUsersOnly
CHECK_DEADLOCK FALSE
