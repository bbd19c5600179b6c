------------------------ MODULE MCConcurrentMultimap ------------------------
(***************************************************************************)
(* Small instances of ConcurrentMultimap.                                  *)
(***************************************************************************)
EXTENDS ConcurrentMultimap, TLC

Holding(parts) ==
  {c \in [Node -> parts \cup {{}}] : \A p \in parts : Cardinality({n \in Node : c[n] = p}) = 1}

Empty == Holding({})

\* The two entries of a key in two nodes, the first behind another key's.
Spread == Holding({{1, 3}, {4}})

EmptyOrSpread == Empty \cup Spread

NodeSymmetry == Permutations(Node)
=============================================================================
