SPECIFICATION MCFairSpec
CONSTANTS
    t1 = t1
    t2 = t2
    t3 = t3
    t4 = t4
    a = a
    b = b
    Threads = {t1, t2, t3, t4}
    Items = {a, b}
    NoItem = NoItem
    NoThread = NoThread
    MaxSize = 2
    SpuriousBound = 1
    Script <- MixedScript
INVARIANTS
    NoLostWakeup
PROPERTIES
    ImplementsFifo
    StrandedOnlyInVain
CHECK_DEADLOCK FALSE
