\* One turn, both endpoints; the sizes are below one token, a part of the budget and more
\* than the whole budget.
SPECIFICATION FairSpec
CONSTANTS
    Size = {3, 8, 12, 40}
    Budget = 5
    Suffix = 14
    MaxIterations = 4
    MaxCalls = 3
INVARIANTS
    TypeOK
    BudgetKept
    EveryCallAnswered
    OneOutcome
    StoredIsAnswered
PROPERTIES
    TurnEnds
    ContractSpec
\* A turn that is over does nothing more.
CHECK_DEADLOCK FALSE
