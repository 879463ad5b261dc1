\* The handshake in every set-up, with one packet lost, duplicated, overtaken
\* or repeated early; and, without faults, closes by both applications, a
\* client that refuses a callback and timers that give up at any time.
SPECIFICATION LiveSpec
CONSTANTS
    Modes = {"plain", "auth", "token", "busy", "version", "early", "rejected", "end"}
    Calm = {"early", "end"}
    ServerParts = 1
    Cwin = 10
    ChallengeRepeatMax = 3
    Closers = {"client", "server"}
    Rejecters = {"client"}
    Timeouts = TRUE
    MaxRepeats = 1
    FaultBound = 1
INVARIANTS
    CryptoNotForgotten
    HandshakeConfirmed
PROPERTIES
    EndIsFinal
    ConnectionSettles
\* The connection may end.
CHECK_DEADLOCK FALSE
