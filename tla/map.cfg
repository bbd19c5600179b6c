SPECIFICATION MapSpec
CONSTANTS
  MaxKey = 2
  Node = {n1, n2, n3}
  Capacity = 2
  Thread = {a, b}
  Inserters = {a}
  Removers = {a, b}
  Lookers = {b}
  RangeRemovers = {}
  Attachers = {}
  Restored <- Empty
  None = None
  Value = {u, v}
SYMMETRY PairSymmetry
INVARIANTS TypeOK RefEntryStays
PROPERTIES Linearizable MapLinearizable
