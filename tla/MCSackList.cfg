SPECIFICATION Spec
CONSTANTS
  Uses = {"packets", "stream"}
  Numbers = {0, 1, 2, 4}
  MaxAcks = 2
INVARIANTS
  LookupsExact
  PruningLosesNothing
  StampOfLargest
PROPERTIES
  ImplementsSet
  CallsReturn
