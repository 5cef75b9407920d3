\* The refresh of a missing fare, which the index does not have yet.
SPECIFICATION Spec
CONSTANTS
    hub1 = hub1
    hub2 = hub2
    decoy = decoy
    Dest <- MCDest
    NoDest = NoDest
    Price = {1, 2, 4}
    MinSavings = 2
    Fixture <- MCFixture
    GuessedHub <- MCGuessedHub
    Scraped <- MCScraped
    Writer = {w1}
    Request = {q1}
    MaxFound = 2
    MaxBatches = 0
INVARIANTS
    RereadsRefreshed
CHECK_DEADLOCK FALSE
