CONSTANTS
  CnxidLimit = 1
  ChallengeRepeatMax = 3
  Plans <- AllPlans
SPECIFICATION LiveSpec
CHECK_DEADLOCK FALSE
INVARIANTS  VerifiedWereReached
PROPERTY DataArrives
