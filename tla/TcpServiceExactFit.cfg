SPECIFICATION Spec
CONSTANTS
    Ptrs = {p1, p2}
    None = None
    EventsInit = 1
    IdBound = 1
    TimerIds = {1, 2, 3}
    MaxRead = 2
    MaxWrite = 0
    AcceptPause = TRUE
    ClientOps = {"connect"}
    SendSizes = {}
    MustClose = TRUE
    CallBound = 1
    SendBound = 0
    RecvBound = 2
    RoomBound = 1
    PeerBound = 0
    PeerOps = {"send"}
INVARIANTS
    PeerCloseIsReal
