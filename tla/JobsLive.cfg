SPECIFICATION LiveSpec
CONSTANTS
  Sisters = {s1, s2}
  JobIds = {j1}
  Tasks = {t1}
  Insecure = {s1}
  NoAuth = NoAuth
  CompatVia = FALSE
  MaxQueue = 1
  MaxFaults = 0
PROPERTIES
  
  QueuedMovesOn
CHECK_DEADLOCK FALSE
