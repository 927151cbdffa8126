SPECIFICATION Spec
CONSTANTS
    Inputs <- MCInputs
    ContentLength = 2
    BufferSize = 14
INVARIANTS
    TypeOK
    ProgIndependentOfPieces
    ConnIndependentOfPieces
    BodyNeverShort
CHECK_DEADLOCK FALSE
