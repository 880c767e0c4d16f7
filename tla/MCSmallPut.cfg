CONSTANTS
    MaxSize = 4
    RETRYCOUNT = 5
SPECIFICATION PutSpec
INVARIANTS
    ObjectIsWholeFile
    SuccessIsStored
PROPERTIES
    PutEnds
