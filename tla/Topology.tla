------------------------------ MODULE Topology ------------------------------
(***************************************************************************)
(* The node topology of the concurrent B-tree (src/src/concurrent/set.rs)  *)
(* and the mutations its write guard performs on it.                       *)
(*                                                                         *)
(* A node index is a partial function from routing keys to node            *)
(* identities.  A topology is a record of                                  *)
(*   index   the canonical index, behind the structural lock;              *)
(*   routes  the snapshot of the published route index that the write      *)
(*           guard edits and swaps in when it is dropped;                  *)
(*   keys    published_keys, the reverse lookup from a node identity to    *)
(*           the key of its published route.                               *)
(* The chunked layout of the published index is abstracted here: it is the *)
(* same kind of partial function.                                          *)
(***************************************************************************)
EXTENDS Integers, Functions, FiniteSetsExt

CONSTANTS MaxKey,   \* values range over 1 .. MaxKey
          Node      \* identities of node allocations

ASSUME MaxKeyAssumption == MaxKey \in Nat

\* The ordered values; node maxima double as routing keys.
Key == 1 .. MaxKey

PartialFunctions(S, R) == UNION {[D -> R] : D \in SUBSET S}

Topologies ==
  [index : PartialFunctions(Key, Node), routes : PartialFunctions(Key, Node),
   keys : PartialFunctions(Node, Key)]

-----------------------------------------------------------------------------
(* Ordered-map lookups.                                                    *)

Without(f, k) == Restrict(f, DOMAIN f \ {k})

With(f, k, v) == [x \in DOMAIN f \cup {k} |-> IF x = k THEN v ELSE f[x]]

\* last_key_value
IsLast(f, k) == k \in DOMAIN f /\ \A j \in DOMAIN f : j <= k

LastKey(f) == CHOOSE k \in DOMAIN f : \A j \in DOMAIN f : j <= k

\* The entry a point operation on v selects: the first key at or above v,
\* or the last entry when every key lies below v.
Covers(f, v, k) ==
  /\ k \in DOMAIN f
  /\ \/ v <= k /\ \A j \in DOMAIN f : v <= j => k <= j
     \/ (\A j \in DOMAIN f : j < v) /\ IsLast(f, k)

-----------------------------------------------------------------------------
(* The operations of TopologyWriteGuard on canonical and published state.  *)

\* rebuild_publication: recompute all derived state from the canonical index.
Rebuild(T) == [T EXCEPT !.routes = T.index, !.keys = AntiFunction(T.index)]

\* The published route recorded for node n exists and leads to n.
RouteIsConsistent(T, n) ==
  /\ n \in DOMAIN T.keys
  /\ T.keys[n] \in DOMAIN T.routes
  /\ T.routes[T.keys[n]] = n

\* Drop the published routes of the nodes in N, found through their identity.
Unroute(T, N) ==
  [index  |-> T.index,
   routes |-> Restrict(T.routes, DOMAIN T.routes \ {T.keys[n] : n \in N}),
   keys   |-> Restrict(T.keys, DOMAIN T.keys \ N)]

Route(T, k, n) ==
  [index |-> T.index, routes |-> With(T.routes, k, n), keys |-> With(T.keys, n, k)]

\* Defect: the identity of a removed node keeps its published key.
RemoveAllKeepingIdentity(T, K) ==
  [T EXCEPT !.index = Restrict(T.index, DOMAIN T.index \ K),
            !.routes = Restrict(T.routes, DOMAIN T.routes \ K)]

\* remove, for every key of K in turn: an inconsistent route rebuilds them all.
RemoveAll(T, K) ==
  LET T1 == [T EXCEPT !.index = Restrict(T.index, DOMAIN T.index \ K)]
      N  == {T.index[k] : k \in K \cap DOMAIN T.index}
  IN  IF \A n \in N : RouteIsConsistent(T1, n) THEN Unroute(T1, N) ELSE Rebuild(T1)

Remove(T, k) == RemoveAll(T, {k})

\* repair_last_route_before_insert
RepairLastRoute(T) ==
  LET k == LastKey(T.index)
      n == T.index[k]
  IN  IF DOMAIN T.index = {} THEN T
      ELSE IF n \notin DOMAIN T.keys THEN Rebuild(T)
      ELSE IF T.keys[n] = k THEN T
      ELSE IF RouteIsConsistent(T, n) /\ k \notin DOMAIN Unroute(T, {n}).routes
           THEN Route(Unroute(T, {n}), k, n)
           ELSE Rebuild(T)

\* Defect: the identity map is not told of the new route.
InsertUnrecorded(T, k, n) ==
  [T EXCEPT !.index = With(T.index, k, n), !.routes = With(T.routes, k, n)]

\* insert_after_last_route_repair
InsertAfterRepair(T, k, n) ==
  LET replaced == k \in DOMAIN T.index
      T1 == [T EXCEPT !.index = With(T.index, k, n)]
      T2 == IF replaced THEN Unroute(T1, {T.index[k]}) ELSE T1
  IN  IF replaced /\ ~RouteIsConsistent(T1, T.index[k]) THEN Rebuild(T1)
      ELSE IF k \in DOMAIN T2.routes /\ T2.routes[k] # n THEN Rebuild(T1)
      ELSE Route(T2, k, n)

\* insert
Insert(T, k, n) == InsertAfterRepair(RepairLastRoute(T), k, n)

\* Defect: any node may be re-keyed between its neighbours unpublished.
CanRekeyAnyNode(T, root, n, newKey) ==
  \E k \in DOMAIN T.index : T.index[k] = n /\ newKey \notin DOMAIN T.index

\* can_rekey_last_node_without_publication; root is the published index.
CanRekeyLastNode(T, root, n, newKey) ==
  \E k \in DOMAIN T.index :
    /\ IsLast(T.index, k) /\ T.index[k] = n
    /\ \E p \in DOMAIN root : IsLast(root, p) /\ root[p] = n
    /\ \A j \in DOMAIN T.index \ {k} : j < newKey

\* rekey_last_node: the canonical key only, the published route stays behind.
RekeyLastNode(T, oldKey, newKey, n) ==
  [T EXCEPT !.index = With(Without(T.index, oldKey), newKey, n)]

-----------------------------------------------------------------------------
(* What the publication invariant of set.rs says of one topology.          *)

\* Every canonical node has exactly one published route, recorded under its
\* identity, and a route key differs from its canonical key only for the
\* canonical last node, whose route is then still the last published one.
Mirrors(T) ==
  /\ IsInjective(T.index)
  /\ DOMAIN T.keys = Range(T.index)
  /\ DOMAIN T.routes = Range(T.keys)
  /\ \A n \in DOMAIN T.keys : T.routes[T.keys[n]] = n
  /\ \A k \in DOMAIN T.index :
       \/ T.keys[T.index[k]] = k
       \/ \A j \in DOMAIN T.index \ {k} : j < k /\ j < T.keys[T.index[k]]
=============================================================================
