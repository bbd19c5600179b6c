SPECIFICATION Spec
CONSTANTS
  DEFAULT_INNER_SIZE = 3
  MaxKey = 4
  Handle = {a}
  Value = {u, v}
  Capacity = {2}
  MaxOther = 2
SYMMETRY Symmetry
INVARIANTS EntriesStayWhole KeyLookupsAgree CursorsWalk MapRangeUpToKeyIsExact IterMutFromTheBack
PROPERTY IsSortedMap
