\* A stream whose first frame may have a single byte.
CONSTANTS
    Streams = {s1}
    MaxBytes = 4
    MinFirst = 1
    StreamWindow = 8
    Window = 8
    MaxLost = 0
    MaxSpurious = 2
    MaxPackets = 20
    Resets = {}
    Closing = {}
SPECIFICATION Spec
INVARIANT DroppedBytesWereReceived
CHECK_DEADLOCK FALSE
