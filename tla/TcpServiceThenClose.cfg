SPECIFICATION FairSpec
CONSTANTS
    Ptrs = {p1, p2}
    None = None
    EventsInit = 1
    IdBound = 1
    TimerIds = {1, 2, 3}
    MaxRead = 0
    MaxWrite = 0
    AcceptPause = TRUE
    ClientOps = {"connect", "send", "sendThenClose", "tick"}
    SendSizes = {1, 2}
    MustClose = TRUE
    CallBound = 3
    SendBound = 3
    RecvBound = 0
    RoomBound = 1
    PeerBound = 0
    PeerOps = {}
PROPERTIES
    PendingCloseKept
