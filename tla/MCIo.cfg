SPECIFICATION IoSpec
CONSTANTS
    Characters = {"GET", "PUT", "h", "nl"}
    Streams <- MCStreams
    RIO_BUFSIZE = 3
    MAXLINE = 4
    FileSizes = {0, 1, 2}
    ErrorSize = 1
    WRITE_BUFFER_SIZE = 8
    Room = 7
    MaxReceived = 8
INVARIANTS
    ReadsStream
PROPERTIES
    ServesWhole
    ResponseFramed
CHECK_DEADLOCK FALSE
