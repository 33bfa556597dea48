\* Two IO threads, descriptors that are handed out again.
CONSTANTS
    NumIo = 2
    Workers = {w1}
    Fds = {f1, f2}
    NumSlots = 2
    MaxConns = 3
SPECIFICATION Spec
INVARIANTS
    TypeOK
    OneReader
PROPERTY
    QueuedIsServed
CHECK_DEADLOCK FALSE
