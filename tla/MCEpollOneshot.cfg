SPECIFICATION Spec
CONSTANTS
    Sockets = {s1, s2}
    Threads = {t1, t2}
    NoSocket = NoSocket
    MaxUnread = 1
INVARIANTS
    OneThreadPerSocket
CHECK_DEADLOCK FALSE
