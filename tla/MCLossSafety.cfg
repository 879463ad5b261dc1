\* Two frames, packets delivered repeatedly and in any order, a timer that is
\* wrong once, holes in the number space and MTU probes.
SPECIFICATION Spec
CONSTANTS
  ClientFrames = {"stream", "control"}
  ServerFrames = {}
  StreamFrames = {"stream"}
  Duplicates = TRUE
  MaxLosses = 0
  MaxSpurious = 1
  MaxPn = 2
  Holes = TRUE
  Probers = {"client"}
  MaxRetransmissions = 0
  AckGap = 2
  PingGap = 2
INVARIANTS
  AcksAreTruthful
  NoFrameForgotten
  InTransitIsQueue
  TrapsSpareHonestPeers
PROPERTY
  ImplementsFrameService
CHECK_DEADLOCK FALSE
