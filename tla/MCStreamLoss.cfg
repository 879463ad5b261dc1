\* One stream of four bytes, cut in up to three frames, with late and repeated ones.
CONSTANTS
    Streams = {s1}
    MaxBytes = 4
    MinFirst = 2
    StreamWindow = 8
    Window = 8
    MaxLost = 0
    MaxSpurious = 2
    MaxPackets = 20
    Resets = {}
    Closing = {}
SPECIFICATION Spec
INVARIANTS InOrderDelivery NoByteForgotten FinIsKept
CHECK_DEADLOCK FALSE
