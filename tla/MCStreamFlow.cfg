\* Two streams that share the credit of the connection.
CONSTANTS
    Streams = {s1, s2}
    MaxBytes = 3
    MinFirst = 2
    StreamWindow = 2
    Window = 3
    MaxLost = 0
    MaxSpurious = 0
    MaxPackets = 20
    Resets = {}
    Closing = {}
SYMMETRY Symmetry
SPECIFICATION Spec
INVARIANT CreditIsHonoured
CHECK_DEADLOCK FALSE
