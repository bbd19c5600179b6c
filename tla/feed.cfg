SPECIFICATION FeedSpec
CONSTANTS
  MaxKey = 4
  Node = {n1, n2, n3, n4, n5}
  Capacity = 3
  Thread = {a, b}
  Inserters = {a}
  Removers = {b}
  Lookers = {}
  RangeRemovers = {}
  Attachers = {}
  Restored <- Empty
  None = None
  MaxBacklog = 2
  SparesFull = TRUE
SYMMETRY NodeSymmetry
INVARIANT FeedRebuildsNodes
