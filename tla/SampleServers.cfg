\* All three servers; fewer descriptors than clients, so that accept fails and
\* numbers are reused.
CONSTANTS
    Servers = {"basic", "multithread", "kqueue"}
    Clients = {1, 2, 3}
    Fds = {5, 6}
    WORKER_COUNT = 2
    BUFFER_SIZE = 2
    MaxSent = 3
SPECIFICATION Spec
INVARIANTS
    TypeOK
    OneOwner
    ClosedOnlyWhenGone
PROPERTY
    Noticed
CHECK_DEADLOCK FALSE
