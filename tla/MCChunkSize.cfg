CONSTANTS
    CHUNK_SIZE = 1
    CHUNK_SIZE_MAX = 320
    MAX_PARTS = 10000
    MAX_SIZE = 327680
    INT_LIMIT = 128
    Sizes <- MCSizes
SPECIFICATION Spec
INVARIANTS
    PartFitsInt
    PartsCoverFile
PROPERTIES
    ChunkSizeFound
