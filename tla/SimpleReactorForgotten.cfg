\* A descriptor closed, handed out again, then deleted.
CONSTANTS
    NumIo = 2
    Workers = {w1}
    Fds = {f1, f2}
    NumSlots = 2
    MaxConns = 3
SPECIFICATION Spec
INVARIANT
    HandedOverIsWatched
CHECK_DEADLOCK FALSE
