\* One worker, as deployed: the safety and liveness properties and the refinement.
SPECIFICATION FairSpec
CONSTANTS
    Route = {r1, r2}
    Price = {1, 2, 3}
    NoPrice = NoPrice
    Worker = {w1}
    NoWorker = NoWorker
    MaxRequests = 3
    MaxWrites = 3
    MaxFailures = 1
    AlertTTL = 1
    MaxClock = 1
INVARIANTS
    TypeOK
    AlertIsARealDrop
    AlertedInOrder
    NewestAlertStored
PROPERTIES
    LedgerSpec
    CatchesUp
\* The behaviours are bounded: after the last write the system is at rest.
CHECK_DEADLOCK FALSE
