SPECIFICATION Spec
CONSTANTS
  Sisters <- MCSisters
  Calls <- MCCalls
  MaxSessions = 2
  MaxStreams = 1
  Plans <- MCPlans
INVARIANTS
  MutualIdentity
  NotWedged
PROPERTIES
  CallsEnd
  SlotsReturn
CHECK_DEADLOCK FALSE
