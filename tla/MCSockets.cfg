SPECIFICATION Spec
CONSTANTS
    FDs = {c1, c2, c3}
    USER_LIMIT = 2
    MaxTexts = 2
    MaxPieces = 3
    Room = 1
    NULL = NULL
INVARIANTS
    TableMatches
    NothingForgotten
PROPERTIES
    SendsTheirText
SYMMETRY Symmetry
CHECK_DEADLOCK FALSE
