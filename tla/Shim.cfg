SPECIFICATION FairSpec
CONSTANTS
  p1 = p1
  p2 = p2
  Thread = {t1}
  Ptr = {p1, p2}
  Stream = {s1}
  Event = {}
  Job = {j1}
  Conn = {c1}
  Op = {"freeze", "snapshot"}
  kShards = 2
  ShardOf <- ShardMap
  MaxSpins = 1
  MaxFaults = 0
INVARIANTS
  QuiesceDrains
  SnapshotComplete
PROPERTIES
  RequestAnswered
