-------------------------- MODULE RestoredTopology --------------------------
(***************************************************************************)
(* The map that from_topology builds from an accepted image: attach_nodes  *)
(* on an empty set (src/src/concurrent/map.rs, set.rs).                    *)
(***************************************************************************)
EXTENDS TopologyImage

LOCAL Seqs == INSTANCE SequencesExt

\* Defect: nodes are keyed by their first element.
AttachedByFirst(nodes) ==
  Seqs!FoldLeft(LAMBDA T, i : InsertAfterRepair(T, nodes[i][1], i),
                [index |-> <<>>, routes |-> <<>>, keys |-> <<>>], [i \in DOMAIN nodes |-> i])

\* attach_nodes on the new map, whose node identities are positions in the
\* image: the last route is repaired once, then every node is inserted.
Attached(nodes) ==
  Seqs!FoldLeft(LAMBDA T, i : InsertAfterRepair(T, Seqs!Last(nodes[i]), i),
                RepairLastRoute([index |-> <<>>, routes |-> <<>>, keys |-> <<>>]),
                [i \in DOMAIN nodes |-> i])

-----------------------------------------------------------------------------
(* Properties.                                                             *)

\* from_topology accepts exactly the images whose nodes are non-empty, fit the
\* capacity and follow each other in strictly ascending order.
AcceptsExactlyOrderedImages ==
  LET all == Seqs!FlattenSeq(image)
  IN  stage \in {"restored", "rejected"} =>
        (stage = "restored" <=>
           /\ \A i \in DOMAIN image : Len(image[i]) \in 1 .. Capacity
           /\ \A i, j \in DOMAIN all : i < j => all[i] < all[j])

\* The map restored from an accepted image routes by the last elements of its
\* nodes, and its published routes mirror its index.
RestoredRoutesMirror ==
  stage = "restored" =>
    /\ Mirrors(Attached(image))
    /\ Attached(image).index = [k \in {Seqs!Last(image[i]) : i \in DOMAIN image} |->
                                  CHOOSE i \in DOMAIN image : Seqs!Last(image[i]) = k]
=============================================================================
