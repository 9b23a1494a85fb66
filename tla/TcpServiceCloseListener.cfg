SPECIFICATION Spec
CONSTANTS
    Ptrs = {p1, p2}
    None = None
    EventsInit = 1
    IdBound = 2
    TimerIds = {1, 2, 3}
    MaxRead = 0
    MaxWrite = 0
    AcceptPause = TRUE
    ClientOps = {"listen", "close", "closeListener"}
    SendSizes = {}
    MustClose = TRUE
    CallBound = 1
    SendBound = 0
    RecvBound = 0
    RoomBound = 1
    PeerBound = 1
    PeerOps = {"connect"}
INVARIANTS
    ListenerInUseIsOpen
