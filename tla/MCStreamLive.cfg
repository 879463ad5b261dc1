\* One stream with narrow windows: credits are needed, and they and the data
\* may be lost; the writer may reset the stream.
CONSTANTS
    Streams = {s1}
    MaxBytes = 3
    MinFirst = 2
    StreamWindow = 2
    Window = 2
    MaxLost = 2
    MaxSpurious = 0
    MaxPackets = 10
    Resets = {s1}
    Closing = {s1}
SPECIFICATION LiveSpec
INVARIANTS NoByteForgotten NoFalseAccusation
PROPERTIES EveryStreamCompletes
CHECK_DEADLOCK FALSE
