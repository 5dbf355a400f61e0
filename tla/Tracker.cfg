SPECIFICATION TrackerSpec
CONSTANTS
  Thread = {t1, t2}
  Ptr = {p1, p2}
  Stream = {s1}
  Event = {e1}
  Job = {j1, j2}
SYMMETRY Symmetry
INVARIANTS
  TrackerTypeOK
  TrackerFaithful
  CallbacksCounted
