SPECIFICATION Spec
CONSTANTS
    Ptrs = {p1, p2}
    Callbacks = {f}
    None = None
    EventsInit = 1
    IdBound = 3
PROPERTY
    NoStaleDispatch
