\* Two connections handed over before the IO thread looks.
CONSTANTS
    Conns = {1, 2}
    Fds = {3, 4}
    NoFd = NoFd
    NoConn = NoConn
    Workers = {w1}
    InboxCap = 2
    MaxReads = 0
    MallocFails = FALSE
    FreedReads = {FALSE}
SPECIFICATION Spec
PROPERTY
    HandedOverIsMonitored
CHECK_DEADLOCK FALSE
