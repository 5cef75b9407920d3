\* One pod, two browsers: an alert and another one over it, on their way to both, with one
\* acknowledgement lost or one restart.
SPECIFICATION FairSpec
CONSTANTS
    Doc = {d1}
    Socket = {s1, s2}
    MaxRaised = 2
    MaxFailures = 1
INVARIANTS
    TypeOK
    NothingMissed
    RepeatedOnlyOnLoss
PROPERTIES
    SeenUnlessEnded
\* The alerts are bounded: after the last one the pod is at rest.
CHECK_DEADLOCK FALSE
