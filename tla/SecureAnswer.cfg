SPECIFICATION FairSpec
CONSTANTS
    NumWorkers = 2
    Files <- const_OneFile
    File <- const_Shared
    MaxKeys = 1
PROPERTIES
    EncryptedChainAnswers
