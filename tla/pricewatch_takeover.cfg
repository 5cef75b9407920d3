\* Two pods during a rollout or a partition, and a batch that exceeds the request cap:
\* what survives is that nothing is acknowledged without having been compared, that alerts
\* compare what was published, and that only failures repeat them.
SPECIFICATION Spec
CONSTANTS
    Route = {r1, r2}
    Price = {1, 2}
    NoPrice = NoPrice
    Worker = {w1, w2}
    NoWorker = NoWorker
    MaxRequests = 2
    MaxWrites = 3
    MaxFailures = 1
    AlertTTL = 1
    MaxClock = 1
SYMMETRY Alike
INVARIANTS
    NoVersionSkipped
    AlertComparesSeen
    RepeatedOnlyOnFailure
CHECK_DEADLOCK FALSE
