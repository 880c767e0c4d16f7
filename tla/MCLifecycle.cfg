CONSTANTS
    w1 = w1
    main = main
    logger = logger
    Workers = {w1}
    Main = main
    Logger = logger
    MaxRequests = 1
    RingSize = 1
    Daemonize = {TRUE, FALSE}
    Verbose = {TRUE, FALSE}
    Targets <- MCTargets
    MaxSignals = 1
CHECK_DEADLOCK FALSE
SPECIFICATION FairSpec
INVARIANTS
    Flushed
    NothingStale
PROPERTIES
    
    TeardownEnds
