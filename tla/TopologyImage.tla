---------------------------- MODULE TopologyImage ----------------------------
(***************************************************************************)
(* Checkpoint images of the concurrent map: export_topology and            *)
(* snapshot_nodes copy the nodes one after the other under the structural  *)
(* read guard while writers go on inside nodes; from_topology validates an *)
(* image (src/src/concurrent/map.rs, set.rs).                              *)
(***************************************************************************)
EXTENDS ConcurrentSet, Sequences

CONSTANTS Exporter,   \* the thread that exports, and makes no other calls
          Given       \* images handed to from_topology from elsewhere

ASSUME ExporterAssumption ==
  Exporter \in Thread \ Callers

VARIABLES
  stage,    \* what the exporter does
  todo,     \* keys of the nodes still to be copied
  image,    \* Topology.nodes: elements of the nodes in order
  stayed    \* elements acknowledged and present since the export began

checkpoint == <<stage, todo, image, stayed>>

-----------------------------------------------------------------------------
(* export_topology and snapshot_nodes.                                     *)

\* The elements of a node in order.
InOrder(c) ==
  [i \in 1 .. Cardinality(c) |-> CHOOSE x \in c : Cardinality({y \in c : y < x}) = i - 1]

ExportBegin ==
  /\ stage = "none" /\ CanReadTopology
  /\ stage' = "copying" /\ Goto(Exporter, "walk")
  /\ todo' = DOMAIN topo.index /\ stayed' = Acknowledged
  /\ UNCHANGED <<shared, op, arg, node, key, retries, res, image>>

\* Defect: the guard is dropped between two nodes.
ExportNodeUnguarded ==
  /\ stage = "copying" /\ CanReadTopology
  /\ \E k \in todo \cap DOMAIN topo.index :
       /\ \A j \in todo \cap DOMAIN topo.index : k <= j
       /\ image' = Append(image, InOrder(contents[topo.index[k]]))
       /\ todo' = {j \in DOMAIN topo.index : k < j}
  /\ Goto(Exporter, "idle")
  /\ UNCHANGED <<shared, op, arg, node, key, retries, res, stage, stayed>>

\* Defect: a node whose key is not its maximum is left out.
ExportNodeCurrent ==
  /\ stage = "copying"
  /\ \E k \in todo :
       /\ \A j \in todo : k <= j
       /\ image' = IF k \in contents[topo.index[k]]
                   THEN Append(image, InOrder(contents[topo.index[k]])) ELSE image
       /\ todo' = todo \ {k}
  /\ UNCHANGED <<vars, stage, stayed>>

ExportNode ==
  /\ stage = "copying"
  /\ \E k \in todo :
       /\ \A j \in todo : k <= j
       /\ image' = Append(image, InOrder(contents[topo.index[k]]))
       /\ todo' = todo \ {k}
  /\ UNCHANGED <<vars, stage, stayed>>

ExportEnd ==
  /\ stage = "copying" /\ todo \cap DOMAIN topo.index = {}
  /\ stage' = "held" /\ todo' = {} /\ Goto(Exporter, "idle")
  /\ UNCHANGED <<shared, op, arg, node, key, retries, res, image, stayed>>

-----------------------------------------------------------------------------
(* from_topology.                                                          *)

\* Defect: only the first element of each node is compared.
ValidNodeLoose(nodes, i) ==
  /\ nodes[i] # <<>> /\ Len(nodes[i]) <= Capacity
  /\ \A j \in 1 .. Len(nodes[i]) - 1 : nodes[i][j] < nodes[i][j + 1]
  /\ i > 1 => nodes[i - 1][1] < nodes[i][1]

\* Neither EmptyNode, OversizedNode, UnsortedNode nor OverlappingNodes.
ValidNode(nodes, i) ==
  /\ nodes[i] # <<>> /\ Len(nodes[i]) <= Capacity
  /\ \A j \in 1 .. Len(nodes[i]) - 1 : nodes[i][j] < nodes[i][j + 1]
  /\ i > 1 => nodes[i - 1][Len(nodes[i - 1])] < nodes[i][1]

\* The loop stops at the first node that is rejected.
Accepted(nodes) ==
  /\ Capacity # 0
  /\ \A i \in DOMAIN nodes : (\A j \in 1 .. i - 1 : ValidNode(nodes, j)) => ValidNode(nodes, i)

Restore ==
  /\ stage \in {"held", "given"}
  /\ stage' = IF Accepted(image) THEN "restored" ELSE "rejected"
  /\ UNCHANGED <<vars, todo, image, stayed>>

Discard ==
  /\ stage \in {"restored", "rejected"}
  /\ stage' = "none" /\ image' = <<>> /\ stayed' = {}
  /\ UNCHANGED <<vars, todo>>

-----------------------------------------------------------------------------
ImageInit ==
  /\ Init
  /\ todo = {} /\ stayed = {}
  /\ \/ stage = "none" /\ image = <<>>
     \/ stage = "given" /\ image \in Given

ImageNext ==
  \/ ExportBegin \/ ExportNode \/ ExportEnd \/ Restore \/ Discard
  \/ /\ \E t \in Thread \ {Exporter} : Call(t) \/ Step(t)
     /\ stayed' = stayed \cap Acknowledged'
     /\ UNCHANGED <<stage, todo, image>>

ImageSpec == ImageInit /\ [][ImageNext]_<<vars, checkpoint>>

-----------------------------------------------------------------------------
(* Properties.                                                             *)

\* An image exported while writers run is one from_topology accepts, although
\* its nodes were copied at different moments and routing keys may be stale.
ExportIsRestorable == stage = "held" => Accepted(image)

\* What was acknowledged before the export and stayed throughout is in the
\* image, wherever splits and re-keys were pending meanwhile.
ExportKeepsWhatStays ==
  stage \in {"held", "restored"} =>
    \A x \in stayed : \E i \in DOMAIN image : x \in Range(image[i])
=============================================================================
