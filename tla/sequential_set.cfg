SPECIFICATION Spec
CONSTANTS
  DEFAULT_INNER_SIZE = 2
  MaxKey = 4
  Handle = {a, b}
  Capacity = {3}
  MaxElements = 4
SYMMETRY Symmetry
INVARIANTS FieldsAgree SetOperationsAgree LookupsAgree IterationIsExact PositionsAreExact RangeOfElementsIsExact
PROPERTIES IsSortedSet NodesStayWithinSize
