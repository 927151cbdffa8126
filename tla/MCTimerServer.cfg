SPECIFICATION Spec
CONSTANTS
    FDs = {fd1, fd2}
    Timers = {t1, t2}
    TIMESLOT = 2
    Delays = {6}
    MaxUnread = 1
    NULL = NULL
INVARIANTS
    TypeOK
    TimersMatch
PROPERTIES
    NoEarlyClose
    IdleIsClosed
CHECK_DEADLOCK FALSE
