SPECIFICATION FairSpec
CONSTANTS
  MaxKey = 1
  Node = {n1, n2, n3}
  Capacity = 1
  Thread = {a, b, c}
  Inserters = {a}
  Removers = {b}
  Lookers = {c}
  RangeRemovers = {}
  Attachers = {}
  Restored <- Empty
  None = None
PROPERTY EveryCallReturns
