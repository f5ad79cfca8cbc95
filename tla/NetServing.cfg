CONSTANTS
    NThreads = 2
    QueueSize = 2
    MaxFd = 2
    Clients = {c1, c2}
    None = None
    MaxOut = 2
    MaxRequests = 1
    MaxHangups = 1
SPECIFICATION Spec
SYMMETRY Symmetry
INVARIANT HandledOnce
INVARIANT NoStaleConnection
INVARIANT LateClientsKept
CHECK_DEADLOCK FALSE
