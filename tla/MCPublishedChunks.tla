------------------------- MODULE MCPublishedChunks -------------------------
EXTENDS PublishedChunks

CONSTANTS n1, n2, n3, n4, n5, n6

\* Every route has a node of its own, and one key may be routed anew.
MCNode == {n1, n2, n3, n4, n5, n6}
MCNodesOf == <<{n1}, {n2}, {n3, n6}, {n4}, {n5}>>
=============================================================================
