CONSTANTS
    t1 = t1
    t2 = t2
    t3 = t3
    Threads <- MCThreads
    Sizes <- MCSizes
    QuotaTotal = 3
SPECIFICATION Spec
INVARIANTS
    TypeOK
    QuotaConserved
    WaitersCounted
    NoLostWakeup
PROPERTIES
    RequestReturns
