SPECIFICATION FairSpec
CONSTANTS
    Ptrs = {p1, p2}
    None = None
    EventsInit = 1
    IdBound = 2
    TimerIds = {1, 2, 3}
    MaxRead = 0
    MaxWrite = 1
    AcceptPause = TRUE
    ClientOps = {"listen", "asyncConnect", "send", "close", "tick"}
    SendSizes = {3}
    MustClose = TRUE
    CallBound = 2
    SendBound = 3
    RecvBound = 0
    RoomBound = 1
    PeerBound = 1
    PeerOps = {"connect", "nofd", "reset"}
INVARIANTS
    TimersInStep
PROPERTIES
    FailureReported
    ConnectResolves
    ListenerResumes
