------------------------------ MODULE RouteMap ------------------------------
(***************************************************************************)
(* What the published route index promises to the topology's write guard   *)
(* and to point readers: an ordered map from routing keys to nodes.  The   *)
(* guard edits a private copy and publishes it whole.                      *)
(***************************************************************************)
EXTENDS Topology

CONSTANT None

VARIABLES routes,    \* the guard's copy, or None when it has not taken one
          root,      \* the published map
          given,     \* routes the guard's last edit was called with
          displaced  \* node returned by the guard's last edit, or "rebuilt"

vars == <<routes, root, given, displaced>>

Lookup(f, k) == IF k \in DOMAIN f THEN f[k] ELSE None

Init == routes = None /\ root = <<>> /\ given = <<>> /\ displaced = None

Snapshot == routes = None /\ routes' = root /\ UNCHANGED <<root, given, displaced>>

InsertRoute(k, n) ==
  /\ routes # None /\ displaced' = Lookup(routes, k)
  /\ given' = [key \in {k} |-> n] /\ routes' = With(routes, k, n)
  /\ UNCHANGED root

RemoveRoute(k) ==
  /\ routes # None /\ displaced' = Lookup(routes, k)
  /\ given' = [key \in {k} |-> None] /\ routes' = Without(routes, k)
  /\ UNCHANGED root

RebuildRoutes ==
  /\ routes # None /\ displaced' = "rebuilt"
  /\ given' \in [DOMAIN given' -> Node] /\ DOMAIN given' \subseteq Key
  /\ routes' = given'
  /\ UNCHANGED root

Publish ==
  /\ routes # None /\ root' = routes /\ routes' = None
  /\ given' = <<>> /\ displaced' = None

Next ==
  \/ Snapshot \/ RebuildRoutes \/ Publish
  \/ \E k \in Key : RemoveRoute(k) \/ \E n \in Node : InsertRoute(k, n)

Spec == Init /\ [][Next]_vars
=============================================================================
