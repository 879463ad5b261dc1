SPECIFICATION Spec
CONSTANTS
  MaxRotations = 2
  MaxPn = 2
PROPERTY
  PreviousRotationAcked
CHECK_DEADLOCK FALSE
