CONSTANTS
    Workers = {w1, w2, w3}
    Conns = {c1, c2}
    PipeCapacity = 2
    MaxPending = 4
SPECIFICATION Spec
INVARIANTS
    EventsHaveBytes
    NoLostWakeup
    FullPipeIsArmed
PROPERTY
    Delivers
