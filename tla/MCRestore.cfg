CONSTANTS
    CHUNK_SIZE = 2
    MaxLength = 5
    MaxVersion = 1
    RETRYCOUNT = 2
SPECIFICATION Spec
INVARIANTS
    RestoredExactly
    NoHoles
PROPERTIES
    RestoreEnds
