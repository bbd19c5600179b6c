SPECIFICATION ImageSpec
CONSTANTS
  MaxKey = 3
  Node = {n1, n2, n3, n4}
  Capacity = 2
  Thread = {a, b, x}
  Inserters = {a}
  Removers = {b}
  Lookers = {}
  RangeRemovers = {}
  Attachers = {}
  Restored <- TwoNodes
  None = None
  Exporter = x
  Given <- SmallImages
SYMMETRY NodeSymmetry
INVARIANTS ExportIsRestorable ExportKeepsWhatStays AcceptsExactlyOrderedImages RestoredRoutesMirror
