CONSTANTS
    Chunk = 2
    Sizes <- MCSizes
    RETRYCOUNT = 2
    CommitLen = 4
    RetryableLengths <- MCRetryableLengths
SPECIFICATION Spec
INVARIANTS
    SuccessIsStored
