\* Parts of the connection that are checked one at a time.
SPECIFICATION UnitSpec
CONSTANTS
  MaxRotations = 3
  MaxPn = 2
  slot1 = slot1
  slot2 = slot2
  slot3 = slot3
  NoNode = NoNode
INVARIANTS
  KeysPaired
  BoundedDrift
  PacketsDecrypt
  NumbersRecovered
  
  HeadersAreRead
  
  
  
  LinksAgree
  TreeIsSorted
  
PROPERTIES
  RepeatLosesNothing
  
  LoopsEnd
\* A transfer ends, and a datagram that was read is done.
CHECK_DEADLOCK FALSE
