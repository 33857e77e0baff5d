SPECIFICATION Spec
CONSTANTS
    NumWorkers = 3
    Files <- const_Files
    File <- const_File
    MaxKeys = 3
INVARIANTS
    KeysAgree
