SPECIFICATION Spec
CONSTANTS
    Timers = {t1, t2, t3, t4}
    Delays = {1, 2, 3}
    Timeouts = {0, 1, 2, 3, 4, 7}
    MaxTime = 3
    N = 3
    TI = 1
    Capacity = 1
    Given = 4
    NULL = NULL
INVARIANTS
    TypeOK
    Linked
    HeapOrdered
PROPERTIES
    ImplementsTimerSet
    WheelImplements
    HeapImplements
SYMMETRY Symmetry
CHECK_DEADLOCK FALSE
