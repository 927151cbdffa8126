SPECIFICATION Spec
CONSTANTS
    Pids = {p1, p2}
    USER_LIMIT = 2
    MaxTexts = 2
    MaxTerms = 1
    MaxForks = 3
    NULL = NULL
INVARIANTS
    TableMatches
    NoOrphan
PROPERTIES
    NoEcho
    StopsAfterTerm
CHECK_DEADLOCK FALSE
