\* Start-up with failures, service, shutdown.
CONSTANTS
    NumIo = 2
    NumWorkers = 2
    MaxSize = 1
    MaxMessages = 1
    MaxArrivals = 2
    MayFail = TRUE
SPECIFICATION Spec
INVARIANTS
    TypeOK
    PoolOutlivesIo
    FreedAfterJoin
    LeftAtEnd
    BacklogNoticed
PROPERTIES
    BacklogServed
    TeardownEnds
