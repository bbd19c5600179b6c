SPECIFICATION Spec
CONSTANTS
  MaxKey = 4
  Node = {n1, n2, n3, n4, n5}
  Capacity = 2
  Thread = {a, b}
  Inserters = {a}
  Removers = {b}
  Lookers = {}
  RangeRemovers = {b}
  Attachers = {}
  Restored <- SeveralNodes
  None = None
SYMMETRY NodeSymmetry
INVARIANTS PublicationInvariant NoLinkedNodeIsEmpty ElementsAreReachable StaleKeyHasRepairer
