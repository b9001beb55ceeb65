SPECIFICATION Spec
CONSTANTS
  Sisters = {s1, s2}
  JobIds = {j1}
  Tasks = {t1, t2}
  Insecure = {s1}
  NoAuth = NoAuth
  CompatVia = FALSE
  MaxQueue = 2
  MaxFaults = 1
SYMMETRY Symmetry
INVARIANTS
  AuthorizedNotStolen
  NonceBeforeQueue
  AtMostOnceWhileValid
  ResultIsGenuine
  WaiterReachable
PROPERTY
  FinalStatusStable
CHECK_DEADLOCK FALSE
