SPECIFICATION Spec
CONSTANTS
  Plans <- MCPlans
  MaxTime = 3
  Capacity = 2
  MaxRounds = 2
  LargeSize = 3
INVARIANTS
  DialsAuthorized
  
  Genuine

  
CHECK_DEADLOCK FALSE
