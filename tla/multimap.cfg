SPECIFICATION MultiSpec
CONSTANTS
  MaxKey = 4
  PerKey = 2
  Node = {n1, n2, n3, n4, n5}
  Capacity = 2
  Thread = {a, b}
  Inserters = {a}
  Removers = {b}
  Lookers = {b}
  RangeRemovers = {}
  Attachers = {}
  Restored <- EmptyOrSpread
  None = None
SYMMETRY NodeSymmetry
PROPERTY MultimapLinearizable
INVARIANT ValidatedReadIsDefinitive
