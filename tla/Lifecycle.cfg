SPECIFICATION LifeSpec
CONSTANTS
  Thread = {t1}
  Ptr = {p1}
  Stream = {}
  Event = {}
  Job = {j1}
  Conn = {c1}
  Op = {"freeze", "snapshot", "restore", "resume"}
  kShards = 1
  ShardOf <- OneShard
  MaxSpins = 1
  MaxFaults = 1
  Value = {v1}
  Garbage = Garbage
INVARIANTS
  ResumesWhereItLeft
PROPERTIES
  ParkedReturns
