CONSTANTS
    main = main
    logger = logger
    w1 = w1
    w2 = w2
    w3 = w3
    Main = main
    Logger = logger
    Workers <- MCWorkers
    SignalTargets <- AnyThread
    MaxRequests = 2
    MaxList = 2
    MaxSignals = 2
SPECIFICATION Spec
INVARIANTS
    SlotAccounting
    ConcurrencyLimit
    GracefulExit
PROPERTIES
    DrainComplete
    PoolSpec
    DispatchProgress
    StopExits
