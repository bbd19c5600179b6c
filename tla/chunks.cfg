SPECIFICATION Spec
CONSTANTS
  n1 = n1  n2 = n2  n3 = n3  n4 = n4  n5 = n5  n6 = n6
  MaxKey = 5
  Node <- MCNode
  NodesOf <- MCNodesOf
  RoutesPerChunk = 3
  MaxEdits = 2
  None = None
INVARIANTS ChunksAreWellFormed LookupsFindTheRoute
PROPERTY IsRouteMap
