\* Workers still at work when the IO threads are gone.
CONSTANTS
    NumIo = 2
    NumWorkers = 2
    MaxSize = 1
    MaxMessages = 1
    MaxArrivals = 2
    MayFail = FALSE
SPECIFICATION Spec
INVARIANT
    WorkerFindsIoThread
