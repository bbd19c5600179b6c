------------------------------ MODULE LockOrder ------------------------------
(***************************************************************************)
(* The locks of the concurrent set, with waiting made explicit: the        *)
(* structural RwLock, the RwLock of every node, and the mutex around the   *)
(* writers' published_keys (src/src/concurrent/set.rs, operation.rs,       *)
(* ref.rs).  Routing is left open: an operation may meet any node.         *)
(*                                                                         *)
(* A parking_lot RwLock does not admit a reader while a writer waits, so a *)
(* waiting writer blocks as well as a holder.  A label that ends in ? is   *)
(* where a thread waits.                                                   *)
(***************************************************************************)
EXTENDS Integers

CONSTANTS Thread, Node

VARIABLES pc,
          at,      \* the node a thread waits for
          reads,   \* nodes a thread has read-locked
          writes   \* nodes a thread has write-locked

vars == <<pc, at, reads, writes>>

-----------------------------------------------------------------------------
(* Waiting.                                                                *)

WantsRead(t)      == pc[t] \in {"put?", "fetch?", "walk?"}
WantsWrite(t)     == pc[t] \in {"commit?", "range?"}
WantsNodeRead(t)  == pc[t] \in {"point_node?", "fetch_node?", "walk_node?"}
WantsNodeWrite(t) ==
  pc[t] \in {"put_node?", "commit_node?", "front_node?", "back_node?", "middle_node?"}
WantsKeys(t)      == pc[t] \in {"commit_keys?", "range_keys?"}

Waits(t) ==
  WantsRead(t) \/ WantsWrite(t) \/ WantsNodeRead(t) \/ WantsNodeWrite(t) \/ WantsKeys(t)

\* The structural lock and the mutex, by label.
HoldsRead(t) ==
  pc[t] \in {"put", "put_node?", "put_node", "fetch", "fetch_node?", "fetch_node",
             "walk", "walk_node?", "walk_node"}
HoldsWrite(t) ==
  pc[t] \in {"commit", "commit_node?", "commit_node", "commit_keys?", "commit_keys",
             "range", "front_node?", "front_node", "back_node?", "back_node",
             "range_keys?", "middle", "middle_node?", "middle_node"}
HoldsKeys(t) == pc[t] \in {"commit_keys", "middle", "middle_node?", "middle_node"}

\* Thread t cannot go on before u has released, or has been granted, a lock.
BlockedBy(t, u) ==
  \/ WantsWrite(t) /\ (HoldsRead(u) \/ HoldsWrite(u))
  \/ WantsRead(t) /\ (HoldsWrite(u) \/ WantsWrite(u))
  \/ WantsNodeWrite(t) /\ at[t] \in reads[u] \cup writes[u]
  \/ WantsNodeRead(t) /\ (at[t] \in writes[u] \/ (WantsNodeWrite(u) /\ at[u] = at[t]))
  \/ WantsKeys(t) /\ HoldsKeys(u)

Granted(t) == \A u \in Thread : ~BlockedBy(t, u)

-----------------------------------------------------------------------------
(* Steps.                                                                  *)

\* From label l to a label in L; a thread that waited has been granted a lock
\* other than a node's.
Go(t, l, L) ==
  /\ pc[t] = l /\ (Waits(t) => Granted(t))
  /\ \E m \in L : pc' = [pc EXCEPT ![t] = m]
  /\ UNCHANGED <<at, reads, writes>>

\* Wait at label m for a node not held so far.
Await(t, l, m) ==
  /\ pc[t] = l
  /\ pc' = [pc EXCEPT ![t] = m]
  /\ \E n \in Node \ (reads[t] \cup writes[t]) : at' = [at EXCEPT ![t] = n]
  /\ UNCHANGED <<reads, writes>>

ReadNode(t, l, m) ==
  /\ pc[t] = l /\ Granted(t)
  /\ pc' = [pc EXCEPT ![t] = m]
  /\ reads' = [reads EXCEPT ![t] = @ \cup {at[t]}]
  /\ UNCHANGED <<at, writes>>

WriteNode(t, l, m) ==
  /\ pc[t] = l /\ Granted(t)
  /\ pc' = [pc EXCEPT ![t] = m]
  /\ writes' = [writes EXCEPT ![t] = @ \cup {at[t]}]
  /\ UNCHANGED <<at, reads>>

\* Unlock the nodes in N(t) on the way to a label in L.
Unlock(t, l, N, L) ==
  /\ pc[t] = l
  /\ \E m \in L : pc' = [pc EXCEPT ![t] = m]
  /\ reads' = [reads EXCEPT ![t] = @ \ N] /\ writes' = [writes EXCEPT ![t] = @ \ N]
  /\ UNCHANGED at

Call(t) ==
  \/ Go(t, "idle", {"put?", "fetch?", "walk?", "commit?", "range?"})
  \/ Await(t, "idle", "point_node?")

\* put_checked_inner and remove_inner: one node under the structural read
\* guard.  Both guards go before a commit waits for the structural lock; a
\* replacement keeps only the node's.  An empty set is left to a commit.
Put(t) ==
  \/ Go(t, "put?", {"put"})
  \/ Await(t, "put", "put_node?")
  \/ Go(t, "put", {"commit?", "idle"})
  \/ WriteNode(t, "put_node?", "put_node")
  \/ Unlock(t, "put_node", Node, {"idle", "commit?"})
  \/ Go(t, "put_node", {"replace"})
  \/ Unlock(t, "replace", Node, {"idle"})

\* Operation::commit, the final delete of remove_inner, root publication and
\* attach_nodes: at most one node under the structural write guard, then the
\* identity map; a commit that lost its race starts over.
Commit(t) ==
  \/ Go(t, "commit?", {"commit"})
  \/ Await(t, "commit", "commit_node?")
  \/ Go(t, "commit", {"idle", "put?", "commit_keys?"})
  \/ WriteNode(t, "commit_node?", "commit_node")
  \/ Unlock(t, "commit_node", Node, {"idle", "put?"})
  \/ Go(t, "commit_node", {"commit_keys?"})
  \/ Go(t, "commit_keys?", {"commit_keys"})
  \/ Unlock(t, "commit_keys", Node, {"idle"})

\* remove_range: the front node, the back node and then each node between
\* them, all under the structural write guard.
RemoveRange(t) ==
  \/ Go(t, "range?", {"range"})
  \/ Await(t, "range", "front_node?")
  \/ Go(t, "range", {"idle"})
  \/ WriteNode(t, "front_node?", "front_node")
  \/ Unlock(t, "front_node", Node, {"idle"})
  \/ Go(t, "front_node", {"commit_keys?"})
  \/ Await(t, "front_node", "back_node?")
  \/ WriteNode(t, "back_node?", "back_node")
  \/ Go(t, "back_node", {"range_keys?"})
  \/ Go(t, "range_keys?", {"middle"})
  \/ Await(t, "middle", "middle_node?")
  \/ WriteNode(t, "middle_node?", "middle_node")
  \/ Unlock(t, "middle_node", {at[t]}, {"middle"})
  \/ Unlock(t, "middle", Node, {"idle"})

\* Point reads: the optimistic path locks a node without the structural guard,
\* and unlocks it to try again; the fallback, and a scan's batch, lock one
\* under the structural read guard and drop that.  A caller drops its Ref
\* before it makes another call.
PointRead(t) ==
  \/ ReadNode(t, "point_node?", "ref")
  \/ Go(t, "fetch?", {"fetch"})
  \/ Await(t, "fetch", "fetch_node?")
  \/ Go(t, "fetch", {"idle"})
  \/ ReadNode(t, "fetch_node?", "fetch_node")
  \/ Go(t, "fetch_node", {"ref"})
  \/ Unlock(t, "ref", Node, {"idle", "fetch?"})

\* len, is_empty, export_topology, snapshot_nodes and Range::new: nodes in turn
\* under one structural read guard.
Walk(t) ==
  \/ Go(t, "walk?", {"walk"})
  \/ Await(t, "walk", "walk_node?")
  \/ ReadNode(t, "walk_node?", "walk_node")
  \/ Unlock(t, "walk_node", Node, {"walk"})
  \/ Go(t, "walk", {"idle"})

Init ==
  /\ pc = [t \in Thread |-> "idle"] /\ at \in [Thread -> Node]
  /\ reads = [t \in Thread |-> {}] /\ writes = [t \in Thread |-> {}]

Next ==
  \E t \in Thread :
    Call(t) \/ Put(t) \/ Commit(t) \/ RemoveRange(t) \/ PointRead(t) \/ Walk(t)

Spec == Init /\ [][Next]_vars

-----------------------------------------------------------------------------
(* Properties.                                                             *)

\* No group of threads ever waits for itself: whatever operations run, and
\* whichever writers queue in front of readers, some member of any group of
\* waiting threads is blocked by nobody in the group.
NoDeadlock ==
  \A S \in SUBSET Thread : S # {} =>
    \E t \in S : ~Waits(t) \/ \A u \in S : ~BlockedBy(t, u)
=============================================================================
