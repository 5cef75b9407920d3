\* The two pods of the deployment, one of which may die.
SPECIFICATION Spec
CONSTANTS
    Request = {q1, q2, q3}
    NoRequest = NoRequest
    Pod = {p1, p2}
    Word = {china, japan}
    Spelling = {upper, lower}
    FormList <- MCFormList
    MaxCrashes = 1
SYMMETRY Alike
INVARIANTS
    TypeOK
    TurnsKept
    ConstraintsKept
    LearnedKept
    TurnsAreWritten
    ListGrownFromForm
CHECK_DEADLOCK FALSE
