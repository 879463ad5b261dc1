CONSTANTS
  CnxidLimit = 1
  ChallengeRepeatMax = 3
  Plans <- EarlyPlans
SPECIFICATION Spec
CHECK_DEADLOCK FALSE
INVARIANT DefaultHasAddress
