SPECIFICATION Spec
CONSTANTS
    Ptrs = {p1, p2}
    None = None
    EventsInit = 1
    IdBound = 2
    TimerIds = {1, 2, 3}
    MaxRead = 0
    MaxWrite = 2
    AcceptPause = TRUE
    ClientOps = {"connect", "send", "sendThenClose", "broadcast", "close", "tick"}
    SendSizes = {1, 2}
    MustClose = FALSE
    CallBound = 2
    SendBound = 4
    RecvBound = 0
    RoomBound = 1
    PeerBound = 0
    PeerOps = {"reset"}
INVARIANTS
    WriteInterest
    SendStreamFifo
    WriteLimit
    NoNullCall
SYMMETRY PtrSymmetry
