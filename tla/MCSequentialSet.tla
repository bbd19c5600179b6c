-------------------------- MODULE MCSequentialSet --------------------------
EXTENDS SequentialSet

\* The two sets are created alike and no operation tells them apart.
Symmetry == Permutations(Handle)
=============================================================================
