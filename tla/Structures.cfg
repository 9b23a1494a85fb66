SPECIFICATION StructuresSpec
CONSTANTS
    Bytes = {0, 1}
    Zero = 0
    InitSize = 3
    ExpandSize = 2
    Sizes = {1, 2, 3}
    ByteBound = 5
    MaxValue = 8
    MaxId = 6
    IntMod = 8
    TicksPerMs = 2
    Ticks = {1, 4}
    CallBound = 1
    Requests <- MixedRequests
INVARIANTS
    IndexesInRange
    CapacityBounded
    Balanced
    QueriesExact
    CopyIsEqual
    NextTimeoutExact
    HeapIsSound
PROPERTIES
    ImplementsByteFifo
    ImplementsSortedSet
    ImplementsTimerService
    PassEnds
