SPECIFICATION FairScanSpec
CONSTANTS
  MaxKey = 4
  Node = {n1, n2, n3, n4}
  Capacity = 2
  Thread = {a, b, front, back}
  Inserters = {a}
  Removers = {b}
  Lookers = {}
  RangeRemovers = {}
  Attachers = {}
  Restored <- OneOfThem
  None = None
  Front = front
  Back = back
  InitialBatch = 1
  MaxBatch = 2
  ScanBounds <- SomeBounds
  MaxCalls = 2
INVARIANT NothingSkipped
PROPERTIES YieldedOnce EveryNextReturns
