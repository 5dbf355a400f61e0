SPECIFICATION Spec
CONSTANTS
  Task = {1, 2}
  MaxWorkers = 2
  Addr = {1, 2, 3}
  Lists <- SmallLists
  Images <- OneImage
  MaxAllocs = 2
  MaxRuns = 2
  MaxFaults = 1
INVARIANTS BuffersAccounted PoolBounded ShortIsRefused
PROPERTIES ImplementsTransfer TransferEnds
CHECK_DEADLOCK FALSE
