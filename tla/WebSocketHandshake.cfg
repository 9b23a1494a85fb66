SPECIFICATION Spec
CONSTANTS
    Len7Max = 2
    Len16Max = 3
    Size64 = 3
    MaskKeys <- Keys4
    Payloads <- Payloads3
    CallBound = 0
    Scenarios <- PlainHandshake
INVARIANTS
    HandshakeAccepted
CHECK_DEADLOCK FALSE
