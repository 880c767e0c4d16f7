CONSTANTS
    MaxRetry = 5
    DryRun = {TRUE, FALSE}
    Verbose = {TRUE, FALSE}
SPECIFICATION ItemSpec
INVARIANTS
    SuccessMeansMovedMostly
PROPERTIES
    ItemEnds
