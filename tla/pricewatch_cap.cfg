\* A batch whose items and one save exceed the requests a session may make.
SPECIFICATION FairSpec
CONSTANTS
    Route = {r1, r2}
    Price = {1, 2}
    NoPrice = NoPrice
    Worker = {w1}
    NoWorker = NoWorker
    MaxRequests = 2
    MaxWrites = 2
    MaxFailures = 0
    AlertTTL = 1
    MaxClock = 0
PROPERTIES
    CatchesUp
CHECK_DEADLOCK FALSE
