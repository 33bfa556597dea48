\* The test of a connection its handler has released.
CONSTANTS
    Conns = {1}
    Fds = {3, 4}
    NoFd = NoFd
    NoConn = NoConn
    Workers = {w1}
    InboxCap = 1
    MaxReads = 1
    MallocFails = FALSE
    FreedReads = {FALSE}
SPECIFICATION Spec
INVARIANT
    CheckSeesConnection
CHECK_DEADLOCK FALSE
