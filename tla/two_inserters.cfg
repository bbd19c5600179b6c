SPECIFICATION Spec
CONSTANTS
  MaxKey = 2
  Node = {n1, n2, n3, n4, n5}
  Capacity = 2
  Thread = {a, b}
  Inserters = {a, b}
  Removers = {a, b}
  Lookers = {}
  RangeRemovers = {}
  Attachers = {a, b}
  Restored <- Empty
  None = None
SYMMETRY NodeSymmetry
INVARIANTS PublicationInvariant NoLinkedNodeIsEmpty
