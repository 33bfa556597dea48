\* One connection on both platforms, clients that wait and one that does not.
CONSTANTS
    Workers = {w1, w2}
    MaxRequests = 2
    Room = 1
    Platforms = {"epoll", "kqueue"}
    Clients = {"waits", "splits", "pipes"}
SPECIFICATION Spec
INVARIANTS
    TypeOK
    EchoedInOrder
    NoForgottenInput
    NoStrandedResponse
PROPERTY
    RequestServed
CHECK_DEADLOCK FALSE
