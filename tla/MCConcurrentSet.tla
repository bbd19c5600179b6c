--------------------------- MODULE MCConcurrentSet ---------------------------
(***************************************************************************)
(* Small instances of ConcurrentSet.  Node identities are interchangeable; *)
(* threads are where they have the same roles.                             *)
(***************************************************************************)
EXTENDS ConcurrentSet, TLC

\* Sets whose nodes hold exactly the given parts, one node each.
Holding(parts) ==
  {c \in [Node -> parts \cup {{}}] : \A p \in parts : Cardinality({n \in Node : c[n] = p}) = 1}

\* A set that starts empty.
Empty == Holding({})

\* Restored sets: one node between two others, and a longer first node.
SeveralNodes == Holding({{1, 2}, {3}, {4}}) \cup Holding({{1, 2, 3}, {4}})

NodeSymmetry == Permutations(Node)

\* For threads with the same role.
TwinSymmetry == Permutations(Node) \cup Permutations(Thread)
=============================================================================
