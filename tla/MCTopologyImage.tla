--------------------------- MODULE MCTopologyImage ---------------------------
(***************************************************************************)
(* Small instances of TopologyImage and RestoredTopology.                  *)
(***************************************************************************)
EXTENDS RestoredTopology, TLC

Holding(parts) ==
  {c \in [Node -> parts \cup {{}}] : \A p \in parts : Cardinality({n \in Node : c[n] = p}) = 1}

Empty == Holding({})

\* A full node before one with room.
TwoNodes == Holding({{1, 2}, {3}})

\* Images from elsewhere: none at all, good ones, and one for each reason to
\* refuse: an empty, an oversized, an unsorted and an overlapping node.
SmallImages ==
  {<<>>, << <<1, 2>>, <<3>> >>, << <<1>>, <<2, 3>> >>,
   << <<1>>, <<>> >>, << <<1, 2, 3>> >>, << <<2, 1>> >>, << <<1, 2>>, <<2>> >>, << <<1, 3>>, <<2>> >>}

NodeSymmetry == Permutations(Node)
=============================================================================
