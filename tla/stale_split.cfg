SPECIFICATION Spec
CONSTANTS
  MaxKey = 3
  Node = {n1, n2, n3, n4}
  Capacity = 3
  Thread = {a, b}
  Inserters = {a, b}
  Removers = {}
  Lookers = {}
  RangeRemovers = {}
  Attachers = {}
  Restored <- Empty
  None = None
SYMMETRY TwinSymmetry
INVARIANT ElementsAreReachable
