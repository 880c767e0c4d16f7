SPECIFICATION FairSpec
CONSTANTS
    Writers = {w1, w2}
    BuffSize = 6
    MaxLineSize = 3
    LineSizes <- MCLineSizes
    Stamps = 2
CHECK_DEADLOCK FALSE
INVARIANTS
    RingHoldsPending
    SnapshotIntact
PROPERTIES
    DataWritten
    WriterProgress
