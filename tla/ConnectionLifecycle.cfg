CONSTANTS
    Conns = {1, 2}
    Fds = {3, 4}
    NoFd = NoFd
    NoConn = NoConn
    Workers = {w1, w2}
    InboxCap = 1
    MaxReads = 2
    MallocFails = TRUE
    FreedReads = {FALSE}
SPECIFICATION Spec
INVARIANTS
    TypeOK
    RefsExact
    NoDanglingReference
    FdOwnership
    NoOrphan
    DeleteHitsNobody
PROPERTY
    ClosedIsFreed
CHECK_DEADLOCK FALSE
