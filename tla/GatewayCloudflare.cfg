SPECIFICATION WorkerSpec
CONSTANTS
  a = a
  b = b
  Sisters = {a, b}
  Addrs = {x, y}
  Nonces = {n1, n2}
  NoRecord = NoRecord
  MemberUntil <- MCMemberUntil
  AuthWindow = 1
  NonceTtl = 3
  RecordTtl = 2
  MaxSkew = 1
  MaxSeq = 1
  MaxNow = 5
SYMMETRY Symmetry
INVARIANTS
  NoReplay
  PeersCollected
PROPERTIES
  WorkerImplementsDirectory
CHECK_DEADLOCK FALSE
