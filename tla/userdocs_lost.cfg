\* The two pods of the deployment: an update is lost.
SPECIFICATION Spec
CONSTANTS
    Request = {q1, q2}
    NoRequest = NoRequest
    Pod = {p1, p2}
    Word = {china, japan}
    Spelling = {upper, lower}
    FormList <- MCFormList
    MaxCrashes = 0
SYMMETRY Alike
INVARIANTS
    NeverDropped
CHECK_DEADLOCK FALSE
