SPECIFICATION Spec
CONSTANTS
  Sisters <- MCSisters
  Calls <- MCCalls
  MaxSessions = 2
  MaxStreams = 1
  Plans <- MCPlans
PROPERTY
  StreamsIndependent
CHECK_DEADLOCK FALSE
