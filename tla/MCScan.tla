------------------------------- MODULE MCScan -------------------------------
(***************************************************************************)
(* Small instances of Scan.                                                *)
(***************************************************************************)
EXTENDS Scan, TLC

\* Sets whose nodes hold exactly the given parts, one node each.
Holding(parts) ==
  {c \in [Node -> parts \cup {{}}] : \A p \in parts : Cardinality({n \in Node : c[n] = p}) = 1}

\* A full node, and one with room behind it.
TwoNodes == Holding({{1, 2}, {4}})

Included(v) == [kind |-> "included", at |-> v]
Excluded(v) == [kind |-> "excluded", at |-> v]

\* Ranges by every kind of bound, some of them on absent values, and ranges by
\* a view that two elements share.
SomeBounds ==
  [group : {1}, start : {Unbounded, Included(2), Excluded(1)}, end : {Unbounded, Included(2), Excluded(3)}]
    \cup [group : {2}, start : {Unbounded, Excluded(1)}, end : {Included(1), Excluded(2)}]

\* TwoNodes in one of the identities: liveness leaves no symmetry to use.
OneOfThem == {CHOOSE c \in TwoNodes : TRUE}
=============================================================================
