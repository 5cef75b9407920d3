\* The fast path's search result is larger than the budget of the turn.
SPECIFICATION Spec
CONSTANTS
    Size = {3, 8, 12, 40}
    Budget = 5
    Suffix = 14
    MaxIterations = 2
    MaxCalls = 1
INVARIANTS
    WholeTurnBudget
CHECK_DEADLOCK FALSE
