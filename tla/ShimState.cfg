SPECIFICATION Spec
CONSTANTS
  p1 = p1
  p2 = p2
  Thread = {t1}
  Ptr = {p1}
  Stream = {}
  Event = {}
  Job = {}
  Conn = {c1, c2}
  Op = {"freeze", "snapshot", "restore", "resume", "signal"}
  kShards = 1
  ShardOf <- ShardMap
  MaxSpins = 1
  MaxFaults = 1
SYMMETRY Symmetry
INVARIANTS
  TypeOK
  StateAgreement
