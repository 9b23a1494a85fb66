SPECIFICATION Spec
CONSTANTS
    Ptrs = {p1, p2, p3}
    None = None
    EventsInit = 1
    IdBound = 3
    TimerIds = {1, 2, 3, 4}
    MaxRead = 2
    MaxWrite = 0
    AcceptPause = TRUE
    ClientOps = {"listen", "read", "close"}
    SendSizes = {1}
    MustClose = TRUE
    CallBound = 1
    SendBound = 1
    RecvBound = 3
    RoomBound = 1
    PeerBound = 1
    PeerOps = {"connect", "abort", "send", "close", "reset"}
INVARIANTS
    DataBeforeClose
    PeerCloseHasCause
    ReadLimit
    CallbackIsLive
SYMMETRY PtrSymmetry
