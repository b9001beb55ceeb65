SPECIFICATION Spec
CONSTANTS
  Sisters = {s1, s2, s3}
  JobIds = {j1}
  Tasks = {t1}
  Insecure = {}
  NoAuth = NoAuth
  CompatVia = TRUE
  MaxQueue = 2
  MaxFaults = 1
SYMMETRY SymmetrySecure
INVARIANTS
  OnlyTargetRuns
CHECK_DEADLOCK FALSE
