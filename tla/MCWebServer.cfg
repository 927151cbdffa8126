SPECIFICATION Spec
CONSTANTS
    Workers = {w1, w2}
    Requests = {1, 2}
    NoRequest = NoRequest
    MaxRequests = 1
    MAX_FD = 2
    RequestPieces = 2
    BufferSize = 3
    Backlog = 1
    MaxConnects = 2
    main = main
INVARIANTS
    TypeOK
    ExactlyOneOwner
    UserCountExact
    MappingAccounted
PROPERTIES
    RequestAnswered
    ResponseSent
CHECK_DEADLOCK FALSE
