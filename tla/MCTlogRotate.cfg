CONSTANTS
    p1 = p1
    p2 = p2
    Procs = {p1, p2}
    LogSize = 0
    LogCount = 1
    LinesPerSecond = 2
    Writes <- MCWrites
    MaxFaults = 1
    MaxZips = 3
    MaxFiles = 8
SPECIFICATION FairSpec
INVARIANTS
    LinesKept
    ArchiveBound
    OldestFirst
    LockSpansRotation
PROPERTIES
    GzipReaped
