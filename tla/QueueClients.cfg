SPECIFICATION ClientsSpec
CONSTANTS
    Producers = {p1, p2, p3}
    MaxSize = 2
    PipeCapacity = 2
    ReadSize = 1
    MessageBound = 2
    w1 = w1
    w2 = w2
    log_thread_ = log_thread_
    Main = Main
    Threads <- TwoWorkers
    Before <- Earlier
    Handles = {1, 2, 3}
    Lines <- LinesLogged
    QueueSize = 1
INVARIANTS
    WakeupPending
    ExactlyOnceInOrder
    LinesInOrder
    OneOwner
    NothingLeftBehind
    ReapedOnce
    JoinMeansEnded
PROPERTIES
    AllDelivered
    CallsReturn
CHECK_DEADLOCK FALSE
