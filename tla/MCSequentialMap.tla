-------------------------- MODULE MCSequentialMap --------------------------
EXTENDS SequentialMap

\* The maps are created alike, and values are only stored and returned.
Symmetry == Permutations(Handle) \cup Permutations(Value)
=============================================================================
