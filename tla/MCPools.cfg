SPECIFICATION Spec
CONSTANTS
    m_process_number = 2
    MaxConns = 3
    MaxTerms = 1
INVARIANTS
    EndsAfterChildren
PROPERTIES
    EveryoneServed
    StopsAfterTerm
    CgiOrphansEnd
CHECK_DEADLOCK FALSE
