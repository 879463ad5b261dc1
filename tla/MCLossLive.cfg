SPECIFICATION FairSpec
CONSTANTS
  ClientFrames = {"stream"}
  ServerFrames = {"reply"}
  StreamFrames = {"stream"}
  Duplicates = FALSE
  MaxLosses = 1
  MaxSpurious = 0
  MaxPn = 9
  Holes = FALSE
  Probers = {}
  MaxRetransmissions = 9
  AckGap = 8
  PingGap = 64
PROPERTY
  EveryFrameDelivered
CHECK_DEADLOCK FALSE
