SPECIFICATION Spec
CONSTANTS
  a = a
  b = b
  Sisters = {a, b}
  Addrs = {x}
  Nonces = {n1, n2}
  NoRecord = NoRecord
  MemberUntil <- MCMemberUntil
  AuthWindow = 1
  NonceTtl = 4
  RecordTtl = 2
  MaxStall = 1
  MaxSkew = 1
  MaxSeq = 1
  MaxNow = 4
  Tasks = {t1, t2}
SYMMETRY Symmetry
INVARIANTS
  NoReplay
  ExpiredMemberLeaves
PROPERTY
  ImplementsDirectory
CHECK_DEADLOCK FALSE
