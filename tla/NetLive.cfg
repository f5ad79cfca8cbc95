CONSTANTS
    NThreads = 2
    QueueSize = 1
    MaxFd = 1
    Clients = {c1}
    None = None
    MaxOut = 2
    MaxRequests = 2
    MaxHangups = 1
SPECIFICATION FairSpec
INVARIANT NoResponseOverwritten
PROPERTY RequestsAnswered
PROPERTY StopReturns
CHECK_DEADLOCK FALSE
