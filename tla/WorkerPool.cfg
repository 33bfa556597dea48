\* The pool as server_destroy uses it, and stopped while the IO threads submit.
CONSTANTS
    Producers = {p1, p2}
    Workers = {w1, w2}
    Tasks = {1, 2, 3, 4}
    NoTask = NoTask
    MaxSize = 2
SPECIFICATION Spec
INVARIANTS
    TypeOK
    OneHolder
    NoSleeperWhileWork
    NoBlockedWhileRoom
    NoTaskLeaked
PROPERTIES
    NoTaskVanishes
    QueueIsFifo
    ShutdownCompletes
    TaskProcessed
