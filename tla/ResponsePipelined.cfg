\* A client on Linux that does not wait for the answer to its first request.
CONSTANTS
    Workers = {w1, w2}
    MaxRequests = 2
    Room = 1
    Platforms = {"epoll"}
    Clients = {"pipes"}
SPECIFICATION Spec
PROPERTY
    EveryRequestAnswered
CHECK_DEADLOCK FALSE
