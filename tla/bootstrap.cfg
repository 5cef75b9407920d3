\* Two agents and a job; RavenDB comes and goes.
SPECIFICATION FairSpec
CONSTANTS
    Agent = {a1, a2}
    Job = {j1}
    MaxTries = 2
    NumAirports = 2
    NumRoutes = 2
    MaxDeaths = 1
INVARIANTS
    TypeOK
    EnsuredMeansThere
    AirportsComplete
    FaresKept
PROPERTIES
    GetsToWork
CHECK_DEADLOCK FALSE
