--------------------------- MODULE MCConcurrentMap ---------------------------
(***************************************************************************)
(* Small instances of ConcurrentMap.                                       *)
(***************************************************************************)
EXTENDS ConcurrentMap, TLC

Holding(parts) ==
  {c \in [Node -> parts \cup {{}}] : \A p \in parts : Cardinality({n \in Node : c[n] = p}) = 1}

Empty == Holding({})

\* Values are interchangeable as well.
PairSymmetry == Permutations(Node) \cup Permutations(Value)
=============================================================================
