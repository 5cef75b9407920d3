\* Two seeds or scrapes, one after the other, against one search or live refresh.
SPECIFICATION Spec
CONSTANTS
    hub1 = hub1
    hub2 = hub2
    decoy = decoy
    Dest <- MCDest
    NoDest = NoDest
    Price = {1, 2, 4}
    MinSavings = 2
    Fixture <- MCFixture
    GuessedHub <- MCGuessedHub
    Scraped <- MCScraped
    Writer = {w1}
    Request = {q1}
    MaxFound = 2
    MaxBatches = 2
VIEW Seen
INVARIANTS
    TypeOK
    VerdictFitsHubs
    FinishedBatchAgrees
    BestHubKept
    StaleOnlyAfterFailure
    OffersHold
CHECK_DEADLOCK FALSE
