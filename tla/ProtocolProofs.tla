--------------------------- MODULE ProtocolProofs ---------------------------
(***************************************************************************)
(* The parts below the set, for every value of their constants: the order  *)
(* of its locks excludes deadlock, no snapshot is freed while a raw        *)
(* pointer to it is in use, and the binary search in a node's vector       *)
(* probes in bounds, ends and keeps the vector strictly increasing.        *)
(***************************************************************************)
EXTENDS LockOrder, SequenceTheorems, TLAPS

CONSTANTS Snapshot, Threshold,   \* of Reclamation
          Border                 \* of NodeVec

VARIABLES
  current, live, retired, grace, pinned, stage, ptr,   \* of Reclamation
  vec, state, op, arg, low, high, middle, out                \* of NodeVec

Domain == INSTANCE Reclamation WITH pc <- stage
Vec == INSTANCE NodeVec WITH pc <- state, i <- low, j <- high, m <- middle

-----------------------------------------------------------------------------
(* The lock order.                                                         *)

LockLabels ==
  {"idle", "put?", "put", "put_node?", "put_node", "replace",
   "commit?", "commit", "commit_node?", "commit_node", "commit_keys?", "commit_keys",
   "range?", "range", "front_node?", "front_node", "back_node?", "back_node", "range_keys?",
   "middle", "middle_node?", "middle_node",
   "point_node?", "fetch?", "fetch", "fetch_node?", "fetch_node", "ref",
   "walk?", "walk", "walk_node?", "walk_node"}

LockTypes ==
  /\ pc \in [Thread -> LockLabels] /\ at \in [Thread -> Node]
  /\ reads \in [Thread -> SUBSET Node] /\ writes \in [Thread -> SUBSET Node]

\* Where a thread may have a node locked.
AtNodes ==
  {"put_node", "replace", "commit_node", "commit_keys?", "commit_keys", "front_node",
   "back_node?", "back_node", "range_keys?", "middle", "middle_node?", "middle_node",
   "fetch_node", "ref", "walk_node"}

\* Where a thread waits for a node, and where it has the structural write guard.
NodeWaits ==
  {"point_node?", "fetch_node?", "walk_node?", "put_node?", "commit_node?", "front_node?",
   "back_node?", "middle_node?"}
WriteGuarded ==
  {"commit", "commit_node?", "commit_node", "commit_keys?", "commit_keys",
   "range", "front_node?", "front_node", "back_node?", "back_node",
   "range_keys?", "middle", "middle_node?", "middle_node"}

\* A thread holds nodes only at these labels, and never waits for its own.
Disciplined(t) ==
  /\ pc[t] \notin AtNodes => reads[t] = {} /\ writes[t] = {}
  /\ WantsNodeRead(t) \/ WantsNodeWrite(t) => at[t] \notin reads[t] \cup writes[t]

WriterIsAlone == \A t, u \in Thread : HoldsWrite(t) /\ HoldsWrite(u) => t = u

\* The inductive invariant.
OrderInv == LockTypes /\ WriterIsAlone /\ \A t \in Thread : Disciplined(t)

\* A thread that holds nodes and waits is the structural writer: put_checked_inner
\* and remove_inner drop both guards before they commit, readers lock one node
\* at a time, and a Ref is dropped before the next call.
LEMMA HoldersThatWait ==
  ASSUME OrderInv, NEW t \in Thread, Waits(t), reads[t] \cup writes[t] # {}
  PROVE  HoldsWrite(t)
  BY DEF OrderInv, LockTypes, LockLabels, Disciplined, AtNodes, Waits, HoldsWrite,
         WantsRead, WantsWrite, WantsNodeRead, WantsNodeWrite, WantsKeys

\* Whoever waits with the structural guard waits for a node or for the mutex,
\* a writer not for a node's read lock.
LEMMA GuardedWaits ==
  ASSUME NEW t \in Thread, Waits(t)
  PROVE  /\ HoldsRead(t) => WantsNodeRead(t) \/ WantsNodeWrite(t)
         /\ HoldsWrite(t) => WantsNodeWrite(t) \/ (WantsKeys(t) /\ ~HoldsKeys(t))
  BY DEF Waits, HoldsRead, HoldsWrite, HoldsKeys,
         WantsRead, WantsWrite, WantsNodeRead, WantsNodeWrite, WantsKeys

\* The mutex is taken under the structural write guard.
LEMMA KeysUnderGuard == ASSUME NEW t \in Thread, HoldsKeys(t) PROVE HoldsWrite(t)
  BY DEF HoldsKeys, HoldsWrite

\* A thread waits for one lock.
LEMMA OneWait ==
  ASSUME NEW t \in Thread
  PROVE  /\ WantsNodeWrite(t) => ~WantsRead(t) /\ ~WantsWrite(t) /\ ~WantsNodeRead(t) /\ ~WantsKeys(t)
         /\ WantsKeys(t) => ~WantsRead(t) /\ ~WantsWrite(t) /\ ~WantsNodeRead(t)
         /\ WantsNodeRead(t) => ~WantsRead(t) /\ ~WantsWrite(t)
         /\ WantsWrite(t) => ~WantsRead(t)
  BY DEF WantsRead, WantsWrite, WantsNodeRead, WantsNodeWrite, WantsKeys

\* The order topology, node, mutex leaves no cycle: a chain of waits ends at
\* the structural writer, which waits only for what is free of waiters.
LEMMA NoCycle == OrderInv => NoDeadlock
<1> SUFFICES ASSUME OrderInv, NEW S \in SUBSET Thread, S # {},
                    \A t \in S : Waits(t) /\ \E u \in S : BlockedBy(t, u)
             PROVE  FALSE
  BY DEF NoDeadlock
<1>1. ASSUME NEW t \in S, WantsKeys(t) PROVE FALSE
  <2>1. PICK u \in S : BlockedBy(t, u)  OBVIOUS
  <2>2. HoldsKeys(u)  BY <1>1, <2>1, OneWait DEF BlockedBy
  <2>3. HoldsWrite(u) /\ HoldsWrite(t)
    BY <1>1, <2>2, KeysUnderGuard DEF WantsKeys, HoldsWrite
  <2>4. u = t  BY <2>3 DEF OrderInv, WriterIsAlone
  <2> QED  BY <1>1, <2>2, <2>4 DEF WantsKeys, HoldsKeys
<1>2. ASSUME NEW t \in S, HoldsWrite(t) PROVE FALSE
  <2>1. WantsNodeWrite(t)  BY <1>1, <1>2, GuardedWaits
  <2>2. PICK u \in S : BlockedBy(t, u)  OBVIOUS
  <2>3. at[t] \in reads[u] \cup writes[u]  BY <2>1, <2>2, OneWait DEF BlockedBy
  <2>4. HoldsWrite(u)  BY <2>3, HoldersThatWait
  <2>5. u = t  BY <1>2, <2>4 DEF OrderInv, WriterIsAlone
  <2> QED  BY <2>1, <2>3, <2>5 DEF OrderInv, Disciplined
<1>3. ASSUME NEW t \in S, WantsNodeWrite(t) PROVE FALSE
  <2>1. PICK u \in S : BlockedBy(t, u)  OBVIOUS
  <2>2. at[t] \in reads[u] \cup writes[u]  BY <1>3, <2>1, OneWait DEF BlockedBy
  <2> QED  BY <1>2, <2>2, HoldersThatWait
<1>4. ASSUME NEW t \in S, WantsNodeRead(t) PROVE FALSE
  <2>1. PICK u \in S : BlockedBy(t, u)  OBVIOUS
  <2>2. at[t] \in writes[u]  BY <1>3, <1>4, <2>1, OneWait DEF BlockedBy
  <2> QED  BY <1>2, <2>2, HoldersThatWait
<1>5. ASSUME NEW t \in S, WantsWrite(t) PROVE FALSE
  <2>1. PICK u \in S : BlockedBy(t, u)  OBVIOUS
  <2>2. HoldsRead(u)  BY <1>2, <1>5, <2>1, OneWait DEF BlockedBy
  <2> QED  BY <1>3, <1>4, <2>2, GuardedWaits
<1>6. ASSUME NEW t \in S, WantsRead(t) PROVE FALSE
  <2>1. PICK u \in S : BlockedBy(t, u)  OBVIOUS
  <2> QED  BY <1>2, <1>5, <1>6, <2>1, OneWait DEF BlockedBy
<1> QED  BY <1>1, <1>3, <1>4, <1>5, <1>6 DEF Waits

-----------------------------------------------------------------------------
(* The invariant is inductive.  Only the stepping thread changes.          *)

\* What a step of thread t must achieve for the invariant to hold again.
LEMMA LocalStep ==
  ASSUME OrderInv, NEW t \in Thread, NEW l \in LockLabels,
         pc' = [pc EXCEPT ![t] = l], at' \in [Thread -> Node],
         reads' \in [Thread -> SUBSET Node], writes' \in [Thread -> SUBSET Node],
         \A u \in Thread \ {t} : at'[u] = at[u] /\ reads'[u] = reads[u] /\ writes'[u] = writes[u],
         Disciplined(t)',
         HoldsWrite(t)' => HoldsWrite(t) \/ \A u \in Thread : ~HoldsWrite(u)
  PROVE  OrderInv'
<1>1. LockTypes'  BY Zenon DEF OrderInv, LockTypes
<1>2. \A u \in Thread \ {t} : pc'[u] = pc[u]  BY DEF OrderInv, LockTypes
<1>3. \A u \in Thread \ {t} : Disciplined(u)'
  BY <1>2 DEF OrderInv, Disciplined, WantsNodeRead, WantsNodeWrite
<1>4. \A u \in Thread \ {t} : HoldsWrite(u)' <=> HoldsWrite(u)
  BY <1>2 DEF HoldsWrite
<1>5. WriterIsAlone'  BY <1>4 DEF OrderInv, WriterIsAlone
<1> QED  BY <1>1, <1>3, <1>5 DEF OrderInv

\* Moving between labels without touching nodes: the structural write guard is
\* only obtained where nobody holds it.
MayGo(l, m) ==
  /\ m \in LockLabels \ NodeWaits
  /\ m \notin AtNodes => l \notin AtNodes
  /\ m \in WriteGuarded => l \in WriteGuarded \cup {"commit?", "range?"}

\* The invariant survives such moves.
LEMMA GoStep ==
  ASSUME OrderInv, NEW t \in Thread, NEW l, NEW L, Go(t, l, L), \A m \in L : MayGo(l, m)
  PROVE  OrderInv'
<1>1. PICK m \in L : pc' = [pc EXCEPT ![t] = m]  BY Zenon DEF Go
<1>2. pc[t] = l /\ pc'[t] = m /\ m \in LockLabels /\ MayGo(l, m)
  BY <1>1 DEF OrderInv, LockTypes, Go, MayGo
<1>3. UNCHANGED <<at, reads, writes>>  BY DEF Go
<1>4. Disciplined(t)'
  BY <1>2, <1>3 DEF OrderInv, Disciplined, WantsNodeRead, WantsNodeWrite, MayGo, NodeWaits
<1>5. ASSUME HoldsWrite(t)', ~HoldsWrite(t) PROVE \A u \in Thread : ~HoldsWrite(u)
  <2>1. WantsWrite(t)  BY <1>2, <1>5 DEF HoldsWrite, WantsWrite, MayGo, WriteGuarded
  <2>2. Granted(t)  BY <2>1 DEF Go, Waits
  <2> QED  BY <2>1, <2>2, Zenon DEF Granted, BlockedBy
<1> QED  BY <1>1, <1>2, <1>3, <1>4, <1>5, LocalStep, Zenon DEF OrderInv, LockTypes

\* Waiting for a node picks one that is not held.
LEMMA AwaitStep ==
  ASSUME OrderInv, NEW t \in Thread, NEW l, NEW m \in NodeWaits, Await(t, l, m),
         m \notin AtNodes => l \notin AtNodes, m \in WriteGuarded => l \in WriteGuarded
  PROVE  OrderInv'
<1>1. pc[t] = l /\ pc'[t] = m /\ at'[t] \in Node \ (reads[t] \cup writes[t]) /\ m \in LockLabels
  BY DEF OrderInv, LockTypes, Await, NodeWaits, LockLabels
<1>2. UNCHANGED <<reads, writes>>  BY DEF Await
<1>3. Disciplined(t)'  BY <1>1, <1>2 DEF OrderInv, Disciplined
<1>4. HoldsWrite(t)' => HoldsWrite(t)  BY <1>1 DEF HoldsWrite, WriteGuarded
<1> QED  BY <1>1, <1>2, <1>3, <1>4, LocalStep, Zenon DEF OrderInv, LockTypes, Await

\* Locking the awaited node.
LEMMA NodeStep ==
  ASSUME OrderInv, NEW t \in Thread, NEW l, NEW m \in AtNodes \ NodeWaits,
         ReadNode(t, l, m) \/ WriteNode(t, l, m), m \in WriteGuarded => l \in WriteGuarded
  PROVE  OrderInv'
<1>1. pc[t] = l /\ pc'[t] = m /\ m \in LockLabels
  BY DEF OrderInv, LockTypes, ReadNode, WriteNode, AtNodes, LockLabels
<1>2. Disciplined(t)'
  BY <1>1 DEF OrderInv, Disciplined, WantsNodeRead, WantsNodeWrite, NodeWaits
<1>3. HoldsWrite(t)' => HoldsWrite(t)  BY <1>1 DEF HoldsWrite, WriteGuarded
<1> QED  BY <1>1, <1>2, <1>3, LocalStep DEF OrderInv, LockTypes, ReadNode, WriteNode

\* Unlocking every node, at the end of an operation or of its first phase.
LEMMA UnlockStep ==
  ASSUME OrderInv, NEW t \in Thread, NEW l, NEW L, Unlock(t, l, Node, L),
         \A m \in L : m \in LockLabels \ (NodeWaits \cup WriteGuarded)
  PROVE  OrderInv'
<1>1. PICK m \in L : pc' = [pc EXCEPT ![t] = m]  BY Zenon DEF Unlock
<1>2. pc'[t] = m /\ m \in LockLabels \ (NodeWaits \cup WriteGuarded)  BY <1>1 DEF OrderInv, LockTypes
<1>3. reads'[t] = {} /\ writes'[t] = {} /\ at' = at
  BY DEF OrderInv, LockTypes, Unlock
<1>4. Disciplined(t)'
  BY <1>2, <1>3 DEF Disciplined, WantsNodeRead, WantsNodeWrite, NodeWaits
<1>5. ~HoldsWrite(t)'  BY <1>2 DEF HoldsWrite, WriteGuarded
<1> QED  BY <1>1, <1>2, <1>3, <1>4, <1>5, LocalStep, Zenon DEF OrderInv, LockTypes, Unlock

\* Unlocking one of the nodes between front and back.
LEMMA MiddleStep ==
  ASSUME OrderInv, NEW t \in Thread, Unlock(t, "middle_node", {at[t]}, {"middle"})
  PROVE  OrderInv'
<1>1. pc[t] = "middle_node" /\ pc' = [pc EXCEPT ![t] = "middle"] /\ pc'[t] = "middle"
  BY DEF OrderInv, LockTypes, Unlock
<1>2. Disciplined(t)'
  BY <1>1 DEF Disciplined, WantsNodeRead, WantsNodeWrite, AtNodes
<1>3. HoldsWrite(t)  BY <1>1 DEF HoldsWrite
<1> QED  BY <1>1, <1>2, <1>3, LocalStep, Zenon DEF OrderInv, LockTypes, Unlock, LockLabels

\* Starting an operation: nothing is held.
LEMMA CallStep == ASSUME OrderInv, NEW t \in Thread, Call(t) PROVE OrderInv'
<1>1. CASE Go(t, "idle", {"put?", "fetch?", "walk?", "commit?", "range?"})
  BY <1>1, GoStep DEF MayGo, LockLabels, NodeWaits, AtNodes, WriteGuarded
<1>2. CASE Await(t, "idle", "point_node?")
  BY <1>2, AwaitStep DEF NodeWaits, AtNodes, WriteGuarded
<1> QED  BY <1>1, <1>2 DEF Call

\* The first phase of inserts and removes.
LEMMA PutStep == ASSUME OrderInv, NEW t \in Thread, Put(t) PROVE OrderInv'
<1>1. CASE Go(t, "put?", {"put"})
  BY <1>1, GoStep DEF MayGo, LockLabels, NodeWaits, AtNodes, WriteGuarded
<1>2. CASE Await(t, "put", "put_node?")
  BY <1>2, AwaitStep DEF NodeWaits, AtNodes, WriteGuarded
<1>3. CASE Go(t, "put", {"commit?", "idle"})
  BY <1>3, GoStep DEF MayGo, LockLabels, NodeWaits, AtNodes, WriteGuarded
<1>4. CASE WriteNode(t, "put_node?", "put_node")
  BY <1>4, NodeStep DEF NodeWaits, AtNodes, WriteGuarded
<1>5. CASE Unlock(t, "put_node", Node, {"idle", "commit?"})
  BY <1>5, UnlockStep DEF LockLabels, NodeWaits, WriteGuarded
<1>6. CASE Go(t, "put_node", {"replace"})
  BY <1>6, GoStep DEF MayGo, LockLabels, NodeWaits, AtNodes, WriteGuarded
<1>7. CASE Unlock(t, "replace", Node, {"idle"})
  BY <1>7, UnlockStep DEF LockLabels, NodeWaits, WriteGuarded
<1> QED  BY <1>1, <1>2, <1>3, <1>4, <1>5, <1>6, <1>7 DEF Put

\* The second phase, under the structural write guard.
LEMMA CommitStep == ASSUME OrderInv, NEW t \in Thread, Commit(t) PROVE OrderInv'
<1>1. CASE Go(t, "commit?", {"commit"})
  BY <1>1, GoStep DEF MayGo, LockLabels, NodeWaits, AtNodes, WriteGuarded
<1>2. CASE Await(t, "commit", "commit_node?")
  BY <1>2, AwaitStep DEF NodeWaits, AtNodes, WriteGuarded
<1>3. CASE Go(t, "commit", {"idle", "put?", "commit_keys?"})
  BY <1>3, GoStep DEF MayGo, LockLabels, NodeWaits, AtNodes, WriteGuarded
<1>4. CASE WriteNode(t, "commit_node?", "commit_node")
  BY <1>4, NodeStep DEF NodeWaits, AtNodes, WriteGuarded
<1>5. CASE Unlock(t, "commit_node", Node, {"idle", "put?"})
  BY <1>5, UnlockStep DEF LockLabels, NodeWaits, WriteGuarded
<1>6. CASE Go(t, "commit_node", {"commit_keys?"})
  BY <1>6, GoStep DEF MayGo, LockLabels, NodeWaits, AtNodes, WriteGuarded
<1>7. CASE Go(t, "commit_keys?", {"commit_keys"})
  BY <1>7, GoStep DEF MayGo, LockLabels, NodeWaits, AtNodes, WriteGuarded
<1>8. CASE Unlock(t, "commit_keys", Node, {"idle"})
  BY <1>8, UnlockStep DEF LockLabels, NodeWaits, WriteGuarded
<1> QED  BY <1>1, <1>2, <1>3, <1>4, <1>5, <1>6, <1>7, <1>8 DEF Commit

\* Range removal, the only holder of several nodes.
LEMMA RemoveRangeStep == ASSUME OrderInv, NEW t \in Thread, RemoveRange(t) PROVE OrderInv'
<1>1. CASE Go(t, "range?", {"range"})
  BY <1>1, GoStep DEF MayGo, LockLabels, NodeWaits, AtNodes, WriteGuarded
<1>2. CASE Await(t, "range", "front_node?")
  BY <1>2, AwaitStep DEF NodeWaits, AtNodes, WriteGuarded
<1>3. CASE Go(t, "range", {"idle"})
  BY <1>3, GoStep DEF MayGo, LockLabels, NodeWaits, AtNodes, WriteGuarded
<1>4. CASE WriteNode(t, "front_node?", "front_node")
  BY <1>4, NodeStep DEF NodeWaits, AtNodes, WriteGuarded
<1>5. CASE Unlock(t, "front_node", Node, {"idle"})
  BY <1>5, UnlockStep DEF LockLabels, NodeWaits, WriteGuarded
<1>6. CASE Go(t, "front_node", {"commit_keys?"})
  BY <1>6, GoStep DEF MayGo, LockLabels, NodeWaits, AtNodes, WriteGuarded
<1>7. CASE Await(t, "front_node", "back_node?")
  BY <1>7, AwaitStep DEF NodeWaits, AtNodes, WriteGuarded
<1>8. CASE WriteNode(t, "back_node?", "back_node")
  BY <1>8, NodeStep DEF NodeWaits, AtNodes, WriteGuarded
<1>9. CASE Go(t, "back_node", {"range_keys?"})
  BY <1>9, GoStep DEF MayGo, LockLabels, NodeWaits, AtNodes, WriteGuarded
<1>10. CASE Go(t, "range_keys?", {"middle"})
  BY <1>10, GoStep DEF MayGo, LockLabels, NodeWaits, AtNodes, WriteGuarded
<1>11. CASE Await(t, "middle", "middle_node?")
  BY <1>11, AwaitStep DEF NodeWaits, AtNodes, WriteGuarded
<1>12. CASE WriteNode(t, "middle_node?", "middle_node")
  BY <1>12, NodeStep DEF NodeWaits, AtNodes, WriteGuarded
<1>13. CASE Unlock(t, "middle_node", {at[t]}, {"middle"})
  BY <1>13, MiddleStep
<1>14. CASE Unlock(t, "middle", Node, {"idle"})
  BY <1>14, UnlockStep DEF LockLabels, NodeWaits, WriteGuarded
<1> QED  BY <1>1, <1>2, <1>3, <1>4, <1>5, <1>6, <1>7, <1>8, <1>9, <1>10, <1>11, <1>12, <1>13,
        <1>14 DEF RemoveRange

\* Point reads and the batches of scans.
LEMMA PointReadStep == ASSUME OrderInv, NEW t \in Thread, PointRead(t) PROVE OrderInv'
<1>1. CASE ReadNode(t, "point_node?", "ref")
  BY <1>1, NodeStep DEF NodeWaits, AtNodes, WriteGuarded
<1>2. CASE Go(t, "fetch?", {"fetch"})
  BY <1>2, GoStep DEF MayGo, LockLabels, NodeWaits, AtNodes, WriteGuarded
<1>3. CASE Await(t, "fetch", "fetch_node?")
  BY <1>3, AwaitStep DEF NodeWaits, AtNodes, WriteGuarded
<1>4. CASE Go(t, "fetch", {"idle"})
  BY <1>4, GoStep DEF MayGo, LockLabels, NodeWaits, AtNodes, WriteGuarded
<1>5. CASE ReadNode(t, "fetch_node?", "fetch_node")
  BY <1>5, NodeStep DEF NodeWaits, AtNodes, WriteGuarded
<1>6. CASE Go(t, "fetch_node", {"ref"})
  BY <1>6, GoStep DEF MayGo, LockLabels, NodeWaits, AtNodes, WriteGuarded
<1>7. CASE Unlock(t, "ref", Node, {"idle", "fetch?"})
  BY <1>7, UnlockStep DEF LockLabels, NodeWaits, WriteGuarded
<1> QED  BY <1>1, <1>2, <1>3, <1>4, <1>5, <1>6, <1>7 DEF PointRead

\* Readers that visit nodes in turn.
LEMMA WalkStep == ASSUME OrderInv, NEW t \in Thread, Walk(t) PROVE OrderInv'
<1>1. CASE Go(t, "walk?", {"walk"})
  BY <1>1, GoStep DEF MayGo, LockLabels, NodeWaits, AtNodes, WriteGuarded
<1>2. CASE Await(t, "walk", "walk_node?")
  BY <1>2, AwaitStep DEF NodeWaits, AtNodes, WriteGuarded
<1>3. CASE ReadNode(t, "walk_node?", "walk_node")
  BY <1>3, NodeStep DEF NodeWaits, AtNodes, WriteGuarded
<1>4. CASE Unlock(t, "walk_node", Node, {"walk"})
  BY <1>4, UnlockStep DEF LockLabels, NodeWaits, WriteGuarded
<1>5. CASE Go(t, "walk", {"idle"})
  BY <1>5, GoStep DEF MayGo, LockLabels, NodeWaits, AtNodes, WriteGuarded
<1> QED  BY <1>1, <1>2, <1>3, <1>4, <1>5 DEF Walk

\* The invariant holds in every state, for any number of threads and nodes.
THEOREM OrderInvariance == Spec => []OrderInv
<1>1. Init => OrderInv
  BY DEF Init, OrderInv, LockTypes, LockLabels, WriterIsAlone, Disciplined, HoldsWrite,
         WantsNodeRead, WantsNodeWrite
<1>2. OrderInv /\ [Next]_vars => OrderInv'
  <2> SUFFICES ASSUME OrderInv, [Next]_vars PROVE OrderInv'
    OBVIOUS
  <2>1. CASE UNCHANGED vars
    BY <2>1 DEF vars, OrderInv, LockTypes, WriterIsAlone, Disciplined, HoldsWrite,
                WantsNodeRead, WantsNodeWrite
  <2>2. CASE Next
    BY <2>2, CallStep, PutStep, CommitStep, RemoveRangeStep, PointReadStep, WalkStep DEF Next
  <2> QED  BY <2>1, <2>2
<1> QED  BY <1>1, <1>2, PTL DEF Spec

\* No operations of the concurrent set can deadlock, however many threads run
\* them over however many nodes, as long as callers drop a Ref before their
\* next call: the topology-before-node order documented in
\* lock_node_for_value, with at most one node locked outside it.
THEOREM DeadlockFreedom == Spec => []NoDeadlock
  BY OrderInvariance, NoCycle, PTL

-----------------------------------------------------------------------------
(* The lifetime of snapshots.                                              *)

\* A new PublishedIndex satisfies the invariant: it owns its only snapshot
\* and nobody is pinned.
LEMMA DomainInit == Domain!Init => Domain!IInv
  BY DEF Domain!Init, Domain!IInv, Domain!TypeOK, Domain!PinInv, Domain!LockInv,
        Domain!OneOwnerEach, Domain!GraceInv, Domain!NoUseAfterFree

\* A reader's steps.
LEMMA ReaderSteps ==
  ASSUME Domain!IInv, NEW r \in Thread, Domain!ReaderStep(r)
  PROVE  Domain!IInv'
  <1> USE DEF Domain!Goto, Domain!Point
  <1>1. CASE Domain!ReaderPin(r)
    <2>1. Domain!TypeOK' BY <1>1 DEF Domain!IInv, Domain!TypeOK, Domain!ReaderPin, Domain!Pin
    <2>2. Domain!PinInv' BY <1>1 DEF Domain!IInv, Domain!TypeOK, Domain!PinInv, Domain!ReaderPin,
        Domain!Pin
    <2>3. Domain!LockInv' BY <1>1 DEF Domain!IInv, Domain!TypeOK, Domain!LockInv, Domain!ReaderPin
    <2>4. Domain!OneOwnerEach' BY <1>1 DEF Domain!IInv, Domain!TypeOK, Domain!OneOwnerEach,
        Domain!ReaderPin
    <2>5. Domain!GraceInv' BY <1>1 DEF Domain!IInv, Domain!TypeOK, Domain!GraceInv, Domain!ReaderPin
    <2>6. Domain!NoUseAfterFree' BY <1>1 DEF Domain!IInv, Domain!TypeOK, Domain!NoUseAfterFree,
        Domain!ReaderPin
    <2> QED BY <2>1, <2>2, <2>3, <2>4, <2>5, <2>6 DEF Domain!IInv
  <1>2. CASE Domain!ReaderLoad(r)
    <2>1. Domain!TypeOK' BY <1>2 DEF Domain!IInv, Domain!TypeOK, Domain!ReaderLoad
    <2>2. Domain!PinInv' BY <1>2 DEF Domain!IInv, Domain!TypeOK, Domain!PinInv, Domain!ReaderLoad
    <2>3. Domain!LockInv' BY <1>2 DEF Domain!IInv, Domain!TypeOK, Domain!LockInv, Domain!ReaderLoad
    <2>4. Domain!OneOwnerEach' BY <1>2 DEF Domain!IInv, Domain!TypeOK, Domain!OneOwnerEach,
        Domain!ReaderLoad
    <2>5. Domain!GraceInv' BY <1>2 DEF Domain!IInv, Domain!TypeOK, Domain!GraceInv, Domain!ReaderLoad
    <2>6. Domain!NoUseAfterFree' BY <1>2 DEF Domain!IInv, Domain!TypeOK, Domain!NoUseAfterFree,
        Domain!OneOwnerEach, Domain!ReaderLoad
    <2> QED BY <2>1, <2>2, <2>3, <2>4, <2>5, <2>6 DEF Domain!IInv
  <1>3. CASE Domain!ReaderUnpin(r)
    <2>1. Domain!TypeOK' BY <1>3 DEF Domain!IInv, Domain!TypeOK, Domain!ReaderUnpin, Domain!Unpin
    <2>2. Domain!PinInv' BY <1>3 DEF Domain!IInv, Domain!TypeOK, Domain!PinInv, Domain!ReaderUnpin,
        Domain!Unpin
    <2>3. Domain!LockInv' BY <1>3 DEF Domain!IInv, Domain!TypeOK, Domain!LockInv, Domain!ReaderUnpin
    <2>4. Domain!OneOwnerEach' BY <1>3 DEF Domain!IInv, Domain!TypeOK, Domain!PinInv,
        Domain!OneOwnerEach, Domain!ReaderUnpin, Domain!Unpin
    <2>5. Domain!GraceInv' BY <1>3 DEF Domain!IInv, Domain!TypeOK, Domain!GraceInv,
        Domain!ReaderUnpin, Domain!Unpin
    <2>6. Domain!NoUseAfterFree' BY <1>3 DEF Domain!IInv, Domain!TypeOK, Domain!NoUseAfterFree,
        Domain!ReaderUnpin, Domain!Unpin
    <2> QED BY <2>1, <2>2, <2>3, <2>4, <2>5, <2>6 DEF Domain!IInv
  <1> QED BY <1>1, <1>2, <1>3 DEF Domain!ReaderStep

\* A writer's steps.
LEMMA WriterSteps ==
  ASSUME Domain!IInv, NEW w \in Thread, Domain!WriterStep(w)
  PROVE  Domain!IInv'
  <1> USE DEF Domain!Goto, Domain!Point
  <1>1. CASE Domain!WriterLock(w)
    <2>1. Domain!TypeOK' BY <1>1 DEF Domain!IInv, Domain!TypeOK, Domain!WriterLock, Domain!Locked
    <2>2. Domain!PinInv' BY <1>1 DEF Domain!IInv, Domain!TypeOK, Domain!PinInv, Domain!WriterLock,
        Domain!Locked
    <2>3. Domain!LockInv' BY <1>1 DEF Domain!IInv, Domain!TypeOK, Domain!LockInv,
        Domain!WriterLock, Domain!Locked
    <2>4. Domain!OneOwnerEach' BY <1>1 DEF Domain!IInv, Domain!TypeOK, Domain!OneOwnerEach,
        Domain!LockInv, Domain!PinInv, Domain!WriterLock, Domain!Locked
    <2>5. Domain!GraceInv' BY <1>1 DEF Domain!IInv, Domain!TypeOK, Domain!GraceInv, Domain!PinInv,
        Domain!OneOwnerEach, Domain!LockInv, Domain!WriterLock, Domain!Locked
    <2>6. Domain!NoUseAfterFree' BY <1>1 DEF Domain!IInv, Domain!TypeOK, Domain!NoUseAfterFree,
        Domain!OneOwnerEach, Domain!GraceInv, Domain!LockInv, Domain!PinInv, Domain!WriterLock,
        Domain!Locked
    <2> QED BY <2>1, <2>2, <2>3, <2>4, <2>5, <2>6 DEF Domain!IInv
  <1>2. CASE Domain!WriterUnlockClean(w)
    <2>1. Domain!TypeOK' BY <1>2 DEF Domain!IInv, Domain!TypeOK, Domain!WriterUnlockClean
    <2>2. Domain!PinInv' BY <1>2 DEF Domain!IInv, Domain!TypeOK, Domain!PinInv, Domain!WriterUnlockClean
    <2>3. Domain!LockInv' BY <1>2 DEF Domain!IInv, Domain!TypeOK, Domain!LockInv,
        Domain!WriterUnlockClean
    <2>4. Domain!OneOwnerEach' BY <1>2 DEF Domain!IInv, Domain!TypeOK, Domain!OneOwnerEach,
        Domain!LockInv, Domain!PinInv, Domain!WriterUnlockClean
    <2>5. Domain!GraceInv' BY <1>2 DEF Domain!IInv, Domain!TypeOK, Domain!GraceInv, Domain!PinInv,
        Domain!OneOwnerEach, Domain!LockInv, Domain!WriterUnlockClean
    <2>6. Domain!NoUseAfterFree' BY <1>2 DEF Domain!IInv, Domain!TypeOK, Domain!NoUseAfterFree,
        Domain!OneOwnerEach, Domain!GraceInv, Domain!LockInv, Domain!PinInv, Domain!WriterUnlockClean
    <2> QED BY <2>1, <2>2, <2>3, <2>4, <2>5, <2>6 DEF Domain!IInv
  <1>3. CASE Domain!WriterPin(w)
    <2>1. Domain!TypeOK' BY <1>3 DEF Domain!IInv, Domain!TypeOK, Domain!WriterPin, Domain!Pin
    <2>2. Domain!PinInv' BY <1>3 DEF Domain!IInv, Domain!TypeOK, Domain!PinInv, Domain!WriterPin,
        Domain!Pin
    <2>3. Domain!LockInv' BY <1>3 DEF Domain!IInv, Domain!TypeOK, Domain!LockInv, Domain!WriterPin,
        Domain!Pin
    <2>4. Domain!OneOwnerEach' BY <1>3 DEF Domain!IInv, Domain!TypeOK, Domain!OneOwnerEach,
        Domain!LockInv, Domain!PinInv, Domain!WriterPin, Domain!Pin
    <2>5. Domain!GraceInv' BY <1>3 DEF Domain!IInv, Domain!TypeOK, Domain!GraceInv, Domain!PinInv,
        Domain!OneOwnerEach, Domain!LockInv, Domain!WriterPin, Domain!Pin
    <2>6. Domain!NoUseAfterFree' BY <1>3 DEF Domain!IInv, Domain!TypeOK, Domain!NoUseAfterFree,
        Domain!OneOwnerEach, Domain!GraceInv, Domain!LockInv, Domain!PinInv, Domain!WriterPin, Domain!Pin
    <2> QED BY <2>1, <2>2, <2>3, <2>4, <2>5, <2>6 DEF Domain!IInv
  <1>4. CASE Domain!WriterReplace(w)
    <2>1. Domain!TypeOK' BY <1>4 DEF Domain!IInv, Domain!TypeOK, Domain!WriterReplace
    <2>2. Domain!PinInv' BY <1>4 DEF Domain!IInv, Domain!TypeOK, Domain!PinInv, Domain!WriterReplace
    <2>3. Domain!LockInv' BY <1>4 DEF Domain!IInv, Domain!TypeOK, Domain!LockInv, Domain!WriterReplace
    <2>4. Domain!OneOwnerEach' BY <1>4 DEF Domain!IInv, Domain!TypeOK, Domain!OneOwnerEach,
        Domain!LockInv, Domain!PinInv, Domain!WriterReplace
    <2>5. Domain!GraceInv' BY <1>4 DEF Domain!IInv, Domain!TypeOK, Domain!GraceInv, Domain!PinInv,
        Domain!OneOwnerEach, Domain!LockInv, Domain!WriterReplace
    <2>6. Domain!NoUseAfterFree' BY <1>4 DEF Domain!IInv, Domain!TypeOK, Domain!NoUseAfterFree,
        Domain!OneOwnerEach, Domain!GraceInv, Domain!LockInv, Domain!PinInv, Domain!WriterReplace
    <2> QED BY <2>1, <2>2, <2>3, <2>4, <2>5, <2>6 DEF Domain!IInv
  <1>5. CASE Domain!WriterRetire(w)
    <2>1. Domain!TypeOK' BY <1>5 DEF Domain!IInv, Domain!TypeOK, Domain!WriterRetire, Domain!Retire
    <2>2. Domain!PinInv' BY <1>5 DEF Domain!IInv, Domain!TypeOK, Domain!PinInv,
        Domain!WriterRetire, Domain!Retire
    <2>3. Domain!LockInv' BY <1>5 DEF Domain!IInv, Domain!TypeOK, Domain!LockInv,
        Domain!WriterRetire, Domain!Retire
    <2>4. Domain!OneOwnerEach' BY <1>5 DEF Domain!IInv, Domain!TypeOK, Domain!OneOwnerEach,
        Domain!LockInv, Domain!PinInv, Domain!WriterRetire, Domain!Retire
    <2>5. Domain!GraceInv' BY <1>5 DEF Domain!IInv, Domain!TypeOK, Domain!GraceInv, Domain!PinInv,
        Domain!OneOwnerEach, Domain!LockInv, Domain!WriterRetire, Domain!Retire
    <2>6. Domain!NoUseAfterFree' BY <1>5 DEF Domain!IInv, Domain!TypeOK, Domain!NoUseAfterFree,
        Domain!OneOwnerEach, Domain!GraceInv, Domain!LockInv, Domain!PinInv, Domain!WriterRetire,
        Domain!Retire
    <2> QED BY <2>1, <2>2, <2>3, <2>4, <2>5, <2>6 DEF Domain!IInv
  <1>6. CASE Domain!WriterUnlock(w)
    <2>1. Domain!TypeOK' BY <1>6 DEF Domain!IInv, Domain!TypeOK, Domain!WriterUnlock, Domain!Unpin
    <2>2. Domain!PinInv' BY <1>6 DEF Domain!IInv, Domain!TypeOK, Domain!PinInv,
        Domain!WriterUnlock, Domain!Unpin
    <2>3. Domain!LockInv' BY <1>6 DEF Domain!IInv, Domain!TypeOK, Domain!LockInv,
        Domain!WriterUnlock, Domain!Unpin
    <2>4. Domain!OneOwnerEach' BY <1>6 DEF Domain!IInv, Domain!TypeOK, Domain!OneOwnerEach,
        Domain!LockInv, Domain!PinInv, Domain!WriterUnlock, Domain!Unpin
    <2>5. Domain!GraceInv' BY <1>6 DEF Domain!IInv, Domain!TypeOK, Domain!GraceInv, Domain!PinInv,
        Domain!OneOwnerEach, Domain!LockInv, Domain!WriterUnlock, Domain!Unpin
    <2>6. Domain!NoUseAfterFree' BY <1>6 DEF Domain!IInv, Domain!TypeOK, Domain!NoUseAfterFree,
        Domain!OneOwnerEach, Domain!GraceInv, Domain!LockInv, Domain!PinInv, Domain!WriterUnlock,
        Domain!Unpin
    <2> QED BY <2>1, <2>2, <2>3, <2>4, <2>5, <2>6 DEF Domain!IInv
  <1>7. CASE Domain!WriterAdvance(w)
    <2>1. Domain!TypeOK' BY <1>7 DEF Domain!IInv, Domain!TypeOK, Domain!WriterAdvance, Domain!Elapsed
    <2>2. Domain!PinInv' BY <1>7 DEF Domain!IInv, Domain!TypeOK, Domain!PinInv,
        Domain!WriterAdvance, Domain!Elapsed
    <2>3. Domain!LockInv' BY <1>7 DEF Domain!IInv, Domain!TypeOK, Domain!LockInv,
        Domain!WriterAdvance, Domain!Elapsed
    <2>4. Domain!OneOwnerEach' BY <1>7 DEF Domain!IInv, Domain!TypeOK, Domain!OneOwnerEach,
        Domain!LockInv, Domain!PinInv, Domain!WriterAdvance, Domain!Elapsed
    <2>5. Domain!GraceInv' BY <1>7 DEF Domain!IInv, Domain!TypeOK, Domain!GraceInv, Domain!PinInv,
        Domain!OneOwnerEach, Domain!LockInv, Domain!WriterAdvance, Domain!Elapsed
    <2>6. Domain!NoUseAfterFree' BY <1>7 DEF Domain!IInv, Domain!TypeOK, Domain!NoUseAfterFree,
        Domain!OneOwnerEach, Domain!GraceInv, Domain!LockInv, Domain!PinInv, Domain!WriterAdvance,
        Domain!Elapsed
    <2> QED BY <2>1, <2>2, <2>3, <2>4, <2>5, <2>6 DEF Domain!IInv
  <1> QED BY <1>1, <1>2, <1>3, <1>4, <1>5, <1>6, <1>7 DEF Domain!WriterStep

\* Snapshots are accounted for and safe in every reachable state.
THEOREM DomainInvariance == Domain!Spec => []Domain!IInv
  <1>1. Domain!IInv /\ [Domain!Next]_Domain!vars => Domain!IInv'
    <2> SUFFICES ASSUME Domain!IInv, [Domain!Next]_Domain!vars PROVE Domain!IInv'
      OBVIOUS
    <2>1. CASE \E r \in Thread : Domain!ReaderStep(r) BY <2>1, ReaderSteps
    <2>2. CASE \E w \in Thread : Domain!WriterStep(w) BY <2>2, WriterSteps
    <2>3. CASE UNCHANGED Domain!vars
      BY <2>3 DEF Domain!vars, Domain!IInv, Domain!TypeOK, Domain!PinInv, Domain!LockInv,
          Domain!OneOwnerEach, Domain!GraceInv, Domain!NoUseAfterFree
    <2> QED BY <2>1, <2>2, <2>3 DEF Domain!Next
  <1> QED BY <1>1, DomainInit, PTL DEF Domain!Spec

\* Neither readers nor writers ever dereference a freed snapshot: the pin a
\* reader takes before its load (get_with, lock_node_for_value) is in the
\* grace period of whatever it loaded, and a writer's unpinned reads are
\* protected by the structural lock.
THEOREM SnapshotsOutliveTheirUse == Domain!Spec => []Domain!NoUseAfterFree
  BY DomainInvariance, PTL DEF Domain!IInv

\* Every allocated snapshot has one owner: no double free and no leak in the
\* swap, retire and advance sequence of the guard's Drop.
THEOREM SnapshotsHaveOneOwner == Domain!Spec => []Domain!OneOwnerEach
  BY DomainInvariance, PTL DEF Domain!IInv

-----------------------------------------------------------------------------
(* The search in a node's vector.                                          *)

\* While a call runs, everything before low is less than the argument
\* and everything from high on is greater.
Narrowed ==
  /\ low <= high /\ high <= Len(vec)
  /\ \A k \in 1 .. Len(vec) : (k <= low => vec[k] < arg) /\ (k > high => vec[k] > arg)

SearchInv ==
  /\ Vec!TypeOK
  /\ Vec!Ascending(vec)
  /\ state # "idle" => Narrowed
  /\ state = "search" => middle = Vec!Half(low + high)
  /\ state = "ok" => middle < Len(vec) /\ vec[middle + 1] = arg
  /\ state = "err" => low = high

\* The middle of a non-empty range lies in it.
LEMMA HalfBetween ==
  ASSUME NEW a \in Nat, NEW b \in Nat, a < b
  PROVE  Vec!Half(a + b) \in Nat /\ a <= Vec!Half(a + b) /\ Vec!Half(a + b) < b
  BY DEF Vec!Half

\* Half of a natural number is one, and no larger.
LEMMA HalfNat ==
  ASSUME NEW n \in Nat
  PROVE  Vec!Half(n) \in Nat /\ Vec!Half(n) <= n
  BY DEF Vec!Half

\* InsertAt yields a sequence one longer.
LEMMA InsertAtSeq ==
  ASSUME NEW S, NEW s \in Seq(S), NEW v \in S, NEW p \in 0 .. Len(s)
  PROVE  Vec!InsertAt(s, p, v) \in Seq(S) /\ Len(Vec!InsertAt(s, p, v)) = Len(s) + 1
  BY DEF Vec!InsertAt

\* RemoveAt yields a sequence one shorter.
LEMMA RemoveAtSeq ==
  ASSUME NEW S, NEW s \in Seq(S), NEW p \in 0 .. Len(s) - 1
  PROVE  Vec!RemoveAt(s, p) \in Seq(S) /\ Len(Vec!RemoveAt(s, p)) = Len(s) - 1
  BY DEF Vec!RemoveAt

\* Inserting a value where everything before is less and everything after is
\* greater keeps the order.
LEMMA InsertAtAscending ==
  ASSUME NEW s \in Seq(Int), NEW v \in Int, NEW p \in 0 .. Len(s), Vec!Ascending(s),
         \A k \in 1 .. Len(s) : (k <= p => s[k] < v) /\ (k > p => s[k] > v)
  PROVE  Vec!Ascending(Vec!InsertAt(s, p, v))
<1> DEFINE t == Vec!InsertAt(s, p, v)
           n == Len(s)
<1>1. Len(t) = n + 1
  BY InsertAtSeq, Zenon
<1>2. \A k \in 1 .. n + 1 :
        t[k] = IF k <= p THEN s[k] ELSE IF k = p + 1 THEN v ELSE s[k - 1]
  BY DEF Vec!InsertAt
<1>3. n \in Nat /\ p \in Nat /\ p <= n
  OBVIOUS
<1>4. \A k \in 1 .. n : s[k] \in Int /\ (k <= p => s[k] < v) /\ (k > p => s[k] > v)
  OBVIOUS
<1>5. \A a, b \in 1 .. n : a < b => s[a] < s[b]
  BY DEF Vec!Ascending
<1>6. SUFFICES \A a, b \in 1 .. n + 1 : a < b => t[a] < t[b]
  BY <1>1 DEF Vec!Ascending
<1> HIDE DEF t, n
<1>7. ASSUME NEW a \in 1 .. n + 1, NEW b \in 1 .. n + 1, a < b
      PROVE  t[a] < t[b]
  <2>1. CASE b <= p
    <3>1. a \in 1 .. n /\ b \in 1 .. n /\ t[a] = s[a] /\ t[b] = s[b]
      BY <1>2, <1>3, <1>7, <2>1
    <3> QED BY <1>5, <1>7, <3>1
  <2>2. CASE b = p + 1
    <3>1. a \in 1 .. n /\ a <= p /\ t[a] = s[a] /\ t[b] = v
      BY <1>2, <1>3, <1>7, <2>2
    <3> QED BY <1>4, <3>1
  <2>3. CASE b > p + 1
    <3>1. b - 1 \in 1 .. n /\ b - 1 > p /\ t[b] = s[b - 1]
      BY <1>2, <1>3, <1>7, <2>3
    <3>2. CASE a <= p
      <4>1. a \in 1 .. n /\ t[a] = s[a] /\ a < b - 1
        BY <1>2, <1>3, <1>7, <2>3, <3>2
      <4> QED BY <1>5, <3>1, <4>1
    <3>3. CASE a = p + 1
      BY <1>2, <1>4, <3>1, <3>3, <1>3, <1>7
    <3>4. CASE a > p + 1
      <4>1. a - 1 \in 1 .. n /\ t[a] = s[a - 1] /\ a - 1 < b - 1
        BY <1>2, <1>3, <1>7, <3>4
      <4> QED BY <1>5, <3>1, <4>1
    <3> QED BY <3>2, <3>3, <3>4, <1>3, <1>7
  <2> QED BY <2>1, <2>2, <2>3, <1>3, <1>7
<1> QED BY <1>7

\* Removing an element keeps the order of the others.
LEMMA RemoveAtAscending ==
  ASSUME NEW s \in Seq(Int), NEW p \in 0 .. Len(s) - 1, Vec!Ascending(s)
  PROVE  Vec!Ascending(Vec!RemoveAt(s, p))
<1> DEFINE t == Vec!RemoveAt(s, p)
           n == Len(s)
<1>1. Len(t) = n - 1
  BY RemoveAtSeq
<1>2. \A k \in 1 .. n - 1 : t[k] = IF k <= p THEN s[k] ELSE s[k + 1]
  BY DEF Vec!RemoveAt
<1>3. n \in Nat /\ p \in Nat /\ p < n
  OBVIOUS
<1>4. \A a, b \in 1 .. n : a < b => s[a] < s[b]
  BY DEF Vec!Ascending
<1>5. SUFFICES \A a, b \in 1 .. n - 1 : a < b => t[a] < t[b]
  BY <1>1 DEF Vec!Ascending
<1> HIDE DEF t, n
<1> DEFINE from(k) == IF k <= p THEN k ELSE k + 1
<1>6. ASSUME NEW a \in 1 .. n - 1, NEW b \in 1 .. n - 1, a < b
      PROVE  t[a] < t[b]
  <2>1. from(a) \in 1 .. n /\ from(b) \in 1 .. n /\ from(a) < from(b)
    BY <1>3, <1>6
  <2>2. t[a] = s[from(a)] /\ t[b] = s[from(b)]
    BY <1>2, <1>3, <1>6
  <2> QED BY <1>4, <2>1, <2>2
<1> QED BY <1>6

\* The probe lies in the range that is left.
LEMMA ProbeBetween ==
  ASSUME SearchInv, state = "search", low # high
  PROVE  low < high /\ high <= Len(vec) /\ low <= middle /\ middle < high
<1>1. low \in Nat /\ high \in Nat /\ low <= high /\ high <= Len(vec) /\ middle = Vec!Half(low + high)
  BY DEF SearchInv, Vec!TypeOK, Narrowed
<1>2. low < high
  BY <1>1
<1> QED BY <1>1, <1>2, HalfBetween, Zenon

\* Before the first call nothing is stored and nobody searches.
LEMMA SearchInit == Vec!Init => SearchInv
  BY DEF Vec!Init, SearchInv, Vec!TypeOK, Vec!Ascending, Vec!Answer

\* Every step keeps the range around the insertion point and the vector in
\* order.
LEMMA SearchNext == SearchInv /\ [Vec!Next]_Vec!vars => SearchInv'
<1> SUFFICES ASSUME SearchInv, [Vec!Next]_Vec!vars PROVE SearchInv'
  OBVIOUS
<1>0. vec \in Seq(Int) /\ Len(vec) \in Nat /\ arg \in Int
      /\ \A k \in 1 .. Len(vec) : vec[k] \in Int
  BY DEF SearchInv, Vec!TypeOK
<1>a. ASSUME NEW b \in BOOLEAN, NEW p \in Nat, Vec!Answers(b, p)
      PROVE  out' \in Vec!Answer /\ state' = "idle" /\ op' \in {"insert", "delete", "contains"}
             /\ arg' \in Int /\ low' \in Nat /\ high' \in Nat /\ middle' \in Nat
  <2>1. out' \in Vec!Answer
    BY <1>a DEF Vec!Answers, Vec!Answer
  <2> QED BY <1>a, <2>1 DEF Vec!Answers, SearchInv, Vec!TypeOK
<1>1. CASE Vec!Call
  BY <1>1, HalfNat DEF SearchInv, Vec!TypeOK, Narrowed, Vec!Call, Vec!Ascending
<1>2. CASE Vec!Equal
  <2>1. low < high /\ high <= Len(vec) /\ low <= middle /\ middle < high
    BY <1>2, ProbeBetween DEF Vec!Equal
  <2> QED BY <1>2, <2>1 DEF SearchInv, Vec!TypeOK, Narrowed, Vec!Equal, Vec!Candidate, Vec!Ascending
<1>3. CASE Vec!Less
  <2>1. low < high /\ high <= Len(vec) /\ low <= middle /\ middle < high
    BY <1>3, ProbeBetween DEF Vec!Less
  <2>2. low' = middle + 1 /\ middle + 1 \in Nat /\ middle + 1 <= high /\ middle' = Vec!Half(low' + high')
    BY <1>3, <2>1 DEF SearchInv, Vec!TypeOK, Vec!Less
  <2>3. middle' \in Nat
    BY <2>2, HalfNat, <1>3 DEF SearchInv, Vec!TypeOK, Vec!Less
  <2>4. \A k \in 1 .. Len(vec) : k <= middle + 1 => vec[k] < arg
    <3>1. middle + 1 \in 1 .. Len(vec) /\ vec[middle + 1] < arg
      BY <1>0, <1>3, <2>1 DEF SearchInv, Vec!TypeOK, Vec!Less, Vec!Candidate
    <3>2. \A k \in 1 .. Len(vec) : k < middle + 1 => vec[k] < vec[middle + 1]
      BY <3>1 DEF SearchInv, Vec!Ascending
    <3>3. middle \in Nat
      BY DEF SearchInv, Vec!TypeOK
    <3> QED BY <1>0, <3>1, <3>2, <3>3
  <2> QED BY <1>3, <2>1, <2>2, <2>3, <2>4 DEF SearchInv, Vec!TypeOK, Narrowed, Vec!Less, Vec!Ascending
<1>4. CASE Vec!Greater
  <2>1. low < high /\ high <= Len(vec) /\ low <= middle /\ middle < high
    BY <1>4, ProbeBetween DEF Vec!Greater
  <2>2. high' = middle /\ middle' = Vec!Half(low' + high')
    BY <1>4, <2>1 DEF SearchInv, Vec!TypeOK, Vec!Greater
  <2>3. middle' \in Nat
    BY <2>2, HalfNat, <1>4 DEF SearchInv, Vec!TypeOK, Vec!Greater
  <2>4. \A k \in 1 .. Len(vec) : k > middle => vec[k] > arg
    <3>1. middle + 1 \in 1 .. Len(vec) /\ vec[middle + 1] > arg
      BY <1>0, <1>4, <2>1 DEF SearchInv, Vec!TypeOK, Vec!Greater, Vec!Candidate
    <3>2. \A k \in 1 .. Len(vec) : k > middle + 1 => vec[middle + 1] < vec[k]
      BY <3>1 DEF SearchInv, Vec!Ascending
    <3>3. middle \in Nat
      BY DEF SearchInv, Vec!TypeOK
    <3> QED BY <1>0, <3>1, <3>2, <3>3
  <2> QED BY <1>4, <2>1, <2>2, <2>3, <2>4 DEF SearchInv, Vec!TypeOK, Narrowed, Vec!Greater, Vec!Ascending
<1>5. CASE Vec!Miss
  BY <1>5 DEF SearchInv, Vec!TypeOK, Narrowed, Vec!Miss, Vec!Ascending
<1>6. CASE Vec!Insert
  <2>1. CASE state = "ok"
    <3>1. Vec!Answers(FALSE, middle) /\ middle \in Nat /\ vec' = vec
      BY <1>6, <2>1, Zenon DEF SearchInv, Vec!TypeOK, Vec!Insert
    <3> QED BY <1>a, <3>1, Zenon DEF SearchInv, Vec!TypeOK
  <2>2. CASE state = "err"
    <3>1. vec' = Vec!InsertAt(vec, low, arg) /\ low \in 0 .. Len(vec)
      BY <1>6, <2>2 DEF SearchInv, Vec!TypeOK, Vec!Insert, Narrowed
    <3>2. vec' \in Seq(Int)
      BY <3>1, InsertAtSeq, Zenon DEF SearchInv, Vec!TypeOK
    <3>3. Vec!Ascending(vec')
      BY <1>0, <3>1, <2>2, InsertAtAscending DEF SearchInv, Vec!TypeOK, Narrowed
    <3>4. Vec!Answers(TRUE, low) /\ low \in Nat
      BY <1>6, <2>2, Zenon DEF SearchInv, Vec!TypeOK, Vec!Insert
    <3>6. state' = "idle" /\ Vec!TypeOK'
      BY <1>a, <3>2, <3>4, Zenon DEF Vec!TypeOK
    <3> QED BY <3>3, <3>6 DEF SearchInv
  <2> QED BY <1>6, <2>1, <2>2, Zenon DEF Vec!Insert
<1>7. CASE Vec!Delete
  <2>1. CASE state = "ok"
    <3>1. vec' = Vec!RemoveAt(vec, middle) /\ middle \in 0 .. Len(vec) - 1
      BY <1>7, <2>1 DEF SearchInv, Vec!TypeOK, Vec!Delete
    <3>2. vec' \in Seq(Int)
      BY <3>1, RemoveAtSeq DEF SearchInv, Vec!TypeOK
    <3>3. Vec!Ascending(vec')
      BY <1>0, <3>1, RemoveAtAscending DEF SearchInv
    <3>4. Vec!Answers(TRUE, middle) /\ middle \in Nat
      BY <1>7, <2>1, Zenon DEF SearchInv, Vec!TypeOK, Vec!Delete
    <3>6. state' = "idle" /\ Vec!TypeOK'
      BY <1>a, <3>2, <3>4, Zenon DEF Vec!TypeOK
    <3> QED BY <3>3, <3>6 DEF SearchInv
  <2>2. CASE state = "err"
    <3>1. Vec!Answers(FALSE, low) /\ low \in Nat /\ vec' = vec
      BY <1>7, <2>2, Zenon DEF SearchInv, Vec!TypeOK, Vec!Delete
    <3> QED BY <1>a, <3>1, Zenon DEF SearchInv, Vec!TypeOK
  <2> QED BY <1>7, <2>1, <2>2, Zenon DEF Vec!Delete
<1>8. CASE Vec!Contains
  <2>1. vec' = vec /\ \E b \in BOOLEAN, p \in Nat : Vec!Answers(b, p)
    BY <1>8, Zenon DEF SearchInv, Vec!TypeOK, Vec!Contains
  <2> QED BY <1>a, <2>1 DEF SearchInv, Vec!TypeOK
<1>9. CASE Vec!Halve
  <2> DEFINE h == Vec!Half(Len(vec))
  <2>1. h \in Nat /\ h <= Len(vec)
    BY <1>0, HalfNat DEF SearchInv, Vec!TypeOK
  <2>2. ASSUME NEW lo \in 1 .. Len(vec) + 1, NEW hi \in lo - 1 .. Len(vec),
               vec' = SubSeq(vec, lo, hi)
        PROVE  vec' \in Seq(Int) /\ Vec!Ascending(vec')
    <3>1. vec \in Seq(Int)
      BY DEF SearchInv, Vec!TypeOK
    <3>2. /\ vec' \in Seq(Int) /\ Len(vec') = hi - lo + 1
          /\ \A k \in 1 .. hi - lo + 1 : vec'[k] = vec[lo + k - 1]
      BY <1>0, <2>2, <3>1, SubSeqProperties
    <3>3. \A k \in 1 .. hi - lo + 1 : lo + k - 1 \in 1 .. Len(vec)
      BY <1>0, <2>2
    <3>4. Vec!Ascending(vec')
      <4>1. ASSUME NEW a \in 1 .. Len(vec'), NEW b \in 1 .. Len(vec'), a < b
            PROVE  vec'[a] < vec'[b]
        <5>1. /\ lo + a - 1 \in 1 .. Len(vec) /\ lo + b - 1 \in 1 .. Len(vec)
              /\ lo + a - 1 < lo + b - 1
          BY <3>2, <3>3, <4>1, <1>0
        <5>2. vec[lo + a - 1] < vec[lo + b - 1]
          BY <5>1 DEF SearchInv, Vec!Ascending
        <5>3. vec'[a] = vec[lo + a - 1] /\ vec'[b] = vec[lo + b - 1]
          BY <3>2, <4>1
        <5> QED BY <5>2, <5>3
      <4> QED BY <4>1 DEF Vec!Ascending
    <3> QED BY <1>0, <2>1, <3>2, <3>4
  <2>3. vec' \in Seq(Int) /\ Vec!Ascending(vec')
    <3>1. CASE vec' = SubSeq(vec, 1, h)
      <4>1. 1 \in 1 .. Len(vec) + 1 /\ h \in 1 - 1 .. Len(vec)
        BY <1>0, <2>1
      <4> QED BY <2>2, <3>1, <4>1
    <3>2. CASE vec' = SubSeq(vec, h + 1, Len(vec))
      <4>1. h + 1 \in 1 .. Len(vec) + 1 /\ Len(vec) \in (h + 1) - 1 .. Len(vec)
        BY <1>0, <2>1
      <4> HIDE DEF h
      <4> QED BY <2>2, <3>2, <4>1
    <3> QED BY <1>9, <3>1, <3>2 DEF Vec!Halve
  <2> QED BY <1>9, <2>3 DEF SearchInv, Vec!TypeOK, Vec!Halve
<1>10. CASE UNCHANGED Vec!vars
  BY <1>10 DEF SearchInv, Vec!TypeOK, Narrowed, Vec!Ascending, Vec!vars
<1> QED
  BY <1>1, <1>2, <1>3, <1>4, <1>5, <1>6, <1>7, <1>8, <1>9, <1>10
  DEF Vec!Next, Vec!Search, Vec!Finish

\* The inductive invariant holds throughout.
THEOREM SearchInvariance == Vec!Spec => []SearchInv
  BY SearchInit, SearchNext, PTL DEF Vec!Spec

\* The SAFETY comment of search: every get_unchecked reads inside the vector.
THEOREM SearchInBounds == Vec!Spec => []Vec!ProbesInBounds
<1>1. SearchInv => Vec!ProbesInBounds
  BY ProbeBetween DEF Vec!ProbesInBounds
<1> QED BY <1>1, SearchInvariance, PTL

\* A probe that decides nothing leaves strictly less to search, whatever the
\* vector: no call of search goes round for ever.
THEOREM SearchEnds == Vec!Spec => Vec!EveryProbeNarrows
<1>1. ASSUME SearchInv, Vec!Search, state' = "search"
      PROVE  0 <= high' - low' /\ high' - low' < high - low
  <2>1. state = "search" /\ low # high /\ (Vec!Less \/ Vec!Greater)
    BY <1>1 DEF Vec!Search, Vec!Equal, Vec!Less, Vec!Greater, Vec!Miss
  <2>2. low < high /\ low <= middle /\ middle < high /\ low \in Nat /\ high \in Nat /\ middle \in Nat
    BY <1>1, <2>1, ProbeBetween DEF SearchInv, Vec!TypeOK
  <2>3. CASE Vec!Less
    BY <2>2, <2>3 DEF Vec!Less
  <2>4. CASE Vec!Greater
    BY <2>2, <2>4 DEF Vec!Greater
  <2> QED BY <2>1, <2>3, <2>4
<1>2. SearchInv /\ [Vec!Next]_Vec!vars
        => [Vec!Search /\ state' = "search" => 0 <= high' - low' /\ high' - low' < high - low]_Vec!vars
  BY <1>1
<1> QED BY <1>2, SearchInvariance, PTL DEF Vec!Spec, Vec!EveryProbeNarrows

\* Inserts, deletes and splits keep the vector strictly increasing.
THEOREM VectorStaysAscending == Vec!Spec => []Vec!StaysAscending
<1>1. SearchInv => Vec!StaysAscending
  BY DEF SearchInv, Vec!StaysAscending
<1> QED BY <1>1, SearchInvariance, PTL

\* Inserting adds the value to the elements.
LEMMA InsertAtElements ==
  ASSUME NEW s \in Seq(Int), NEW v \in Int, NEW p \in 0 .. Len(s)
  PROVE  Vec!Elements(Vec!InsertAt(s, p, v)) = Vec!Elements(s) \cup {v}
<1> DEFINE t == Vec!InsertAt(s, p, v)
           n == Len(s)
<1>1. Len(t) = n + 1
  BY InsertAtSeq, Zenon
<1>2. \A k \in 1 .. n + 1 :
        t[k] = IF k <= p THEN s[k] ELSE IF k = p + 1 THEN v ELSE s[k - 1]
  BY DEF Vec!InsertAt
<1>3. n \in Nat /\ p \in Nat /\ p <= n
  OBVIOUS
<1>4. Vec!Elements(t) = {t[k] : k \in 1 .. n + 1} /\ Vec!Elements(s) = {s[k] : k \in 1 .. n}
  BY <1>1 DEF Vec!Elements
<1> HIDE DEF t, n
<1>5. ASSUME NEW k \in 1 .. n + 1 PROVE t[k] \in {s[x] : x \in 1 .. n} \cup {v}
  <2>0. k \in Int /\ 1 <= k /\ k <= n + 1
    BY <1>3, SMT
  <2>1. CASE k <= p
    <3>1. k \in 1 .. n
      BY <1>3, <2>0, <2>1, SMT
    <3>2. t[k] = s[k]
      BY <1>2, <2>1, Zenon
    <3> QED BY <3>1, <3>2, Zenon
  <2>2. CASE ~(k <= p) /\ k = p + 1
    <3>1. t[k] = v
      BY <1>2, <2>2, Zenon
    <3> QED BY <3>1, Zenon
  <2>3. CASE ~(k <= p) /\ k # p + 1
    <3>1. k - 1 \in 1 .. n
      BY <1>3, <2>0, <2>3, SMT
    <3>2. t[k] = s[k - 1]
      BY <1>2, <2>3, Zenon
    <3> QED BY <3>1, <3>2, Zenon
  <2> QED BY <2>1, <2>2, <2>3, Zenon
<1>6. ASSUME NEW k \in 1 .. n PROVE s[k] \in {t[x] : x \in 1 .. n + 1}
  <2>1. CASE k <= p
    <3>1. k \in 1 .. n + 1 /\ t[k] = s[k]
      BY <1>2, <1>3, <2>1
    <3> QED BY <3>1
  <2>2. CASE k > p
    <3>1. k + 1 \in 1 .. n + 1 /\ t[k + 1] = s[k]
      BY <1>2, <1>3, <2>2
    <3> QED BY <3>1
  <2> QED BY <1>3, <2>1, <2>2
<1>7. v \in {t[x] : x \in 1 .. n + 1}
  <2>1. p + 1 \in 1 .. n + 1 /\ t[p + 1] = v
    BY <1>2, <1>3
  <2> QED BY <2>1
<1>8. Vec!Elements(t) \subseteq Vec!Elements(s) \cup {v}
  BY <1>4, <1>5
<1>9. Vec!Elements(s) \subseteq Vec!Elements(t) /\ v \in Vec!Elements(t)
  BY <1>4, <1>6, <1>7
<1> QED BY <1>8, <1>9 DEF t

\* Removing from an increasing vector takes exactly that element away.
LEMMA RemoveAtElements ==
  ASSUME NEW s \in Seq(Int), NEW p \in 0 .. Len(s) - 1, Vec!Ascending(s)
  PROVE  Vec!Elements(Vec!RemoveAt(s, p)) = Vec!Elements(s) \ {s[p + 1]}
<1> DEFINE t == Vec!RemoveAt(s, p)
           n == Len(s)
<1>1. Len(t) = n - 1
  BY RemoveAtSeq
<1>2. \A k \in 1 .. n - 1 : t[k] = IF k <= p THEN s[k] ELSE s[k + 1]
  BY DEF Vec!RemoveAt
<1>3. n \in Nat /\ p \in Nat /\ p < n /\ \A k \in 1 .. n : s[k] \in Int
  OBVIOUS
<1>4. \A a, b \in 1 .. n : a < b => s[a] < s[b]
  BY DEF Vec!Ascending
<1>5. Vec!Elements(t) = {t[k] : k \in 1 .. n - 1} /\ Vec!Elements(s) = {s[k] : k \in 1 .. n}
  BY <1>1 DEF Vec!Elements
<1> HIDE DEF t, n
<1>6. \A k \in 1 .. n : k # p + 1 => s[k] # s[p + 1]
  <2>1. ASSUME NEW k \in 1 .. n, k # p + 1 PROVE s[k] # s[p + 1]
    <3>1. p + 1 \in 1 .. n /\ s[k] \in Int /\ s[p + 1] \in Int /\ (k < p + 1 \/ p + 1 < k)
      BY <1>3, <2>1
    <3>2. s[k] < s[p + 1] \/ s[p + 1] < s[k]
      BY <1>4, <3>1
    <3> QED BY <3>1, <3>2
  <2> QED BY <2>1
<1>7. ASSUME NEW k \in 1 .. n - 1
      PROVE  t[k] \in {s[x] : x \in 1 .. n} /\ t[k] # s[p + 1]
  <2>1. CASE k <= p
    <3>1. k \in 1 .. n /\ k # p + 1 /\ t[k] = s[k]
      BY <1>2, <1>3, <2>1
    <3> QED BY <1>6, <3>1
  <2>2. CASE k > p
    <3>1. k + 1 \in 1 .. n /\ k + 1 # p + 1 /\ t[k] = s[k + 1]
      BY <1>2, <1>3, <2>2
    <3> QED BY <1>6, <3>1
  <2> QED BY <1>3, <2>1, <2>2
<1>8. ASSUME NEW k \in 1 .. n, s[k] # s[p + 1] PROVE s[k] \in {t[x] : x \in 1 .. n - 1}
  <2>1. CASE k <= p
    <3>1. k \in 1 .. n - 1 /\ t[k] = s[k]
      BY <1>2, <1>3, <2>1
    <3> QED BY <3>1
  <2>2. CASE k > p
    <3>1. k # p + 1
      BY <1>8
    <3>2. k - 1 \in 1 .. n - 1 /\ t[k - 1] = s[k]
      BY <1>2, <1>3, <2>2, <3>1
    <3> QED BY <3>2
  <2> QED BY <1>3, <2>1, <2>2
<1>9. Vec!Elements(t) \subseteq Vec!Elements(s) \ {s[p + 1]}
  BY <1>5, <1>7
<1>10. Vec!Elements(s) \ {s[p + 1]} \subseteq Vec!Elements(t)
  BY <1>5, <1>8
<1> QED BY <1>9, <1>10 DEF t

\* A hit is the position of the argument; the elements before it, and only
\* they, are less.
LEMMA HitPlaced ==
  ASSUME SearchInv, state = "ok"
  PROVE  arg \in Vec!Elements(vec) /\ \A k \in 1 .. Len(vec) : vec[k] < arg <=> k <= middle
<1>1. middle \in Nat /\ middle + 1 \in 1 .. Len(vec) /\ vec[middle + 1] = arg
  BY DEF SearchInv, Vec!TypeOK
<1>2. vec \in Seq(Int)
  BY DEF SearchInv, Vec!TypeOK
<1>3. ASSUME NEW k \in 1 .. Len(vec) PROVE vec[k] < arg <=> k <= middle
  <2>1. vec[k] \in Int /\ vec[middle + 1] \in Int
    BY <1>1, <1>2
  <2>2. k < middle + 1 => vec[k] < vec[middle + 1]
    BY <1>1 DEF SearchInv, Vec!Ascending
  <2>3. middle + 1 < k => vec[middle + 1] < vec[k]
    BY <1>1 DEF SearchInv, Vec!Ascending
  <2> QED BY <1>1, <2>1, <2>2, <2>3
<1> QED BY <1>1, <1>3 DEF Vec!Elements

\* A miss leaves the argument's place: less before, greater after.
LEMMA MissPlaced ==
  ASSUME SearchInv, state = "err"
  PROVE  arg \notin Vec!Elements(vec) /\ \A k \in 1 .. Len(vec) : vec[k] < arg <=> k <= low
<1>1. low \in Nat /\ low = high /\ low <= Len(vec)
      /\ \A k \in 1 .. Len(vec) : (k <= low => vec[k] < arg) /\ (k > low => vec[k] > arg)
  BY DEF SearchInv, Vec!TypeOK, Narrowed
<1>2. vec \in Seq(Int) /\ arg \in Int
  BY DEF SearchInv, Vec!TypeOK
<1>3. ASSUME NEW k \in 1 .. Len(vec) PROVE vec[k] # arg /\ (vec[k] < arg <=> k <= low)
  <2>1. vec[k] \in Int
    BY <1>2
  <2> QED BY <1>1, <1>2, <2>1
<1> QED BY <1>3 DEF Vec!Elements

\* insert, delete and contains on a vector are insert, delete and contains on
\* the set of its elements: what lets the other modules use sets.
THEOREM VectorActsAsSet == Vec!Spec => Vec!CallsActOnTheSet
<1>1. ASSUME SearchInv, Vec!Finish
      PROVE  Vec!Reported(arg \in Vec!Elements(vec)) /\ Vec!Placed /\ Vec!Kept
  <2>0. vec \in Seq(Int) /\ arg \in Int /\ state \in {"ok", "err"}
        /\ op \in {"insert", "delete", "contains"}
    BY <1>1, Zenon DEF SearchInv, Vec!TypeOK, Vec!Finish, Vec!Insert, Vec!Delete, Vec!Contains
  <2>1. CASE state = "ok"
    <3>1. out' = [is |-> op # "insert", at |-> middle]
      BY <1>1, <2>1, Zenon DEF Vec!Finish, Vec!Insert, Vec!Delete, Vec!Contains, Vec!Answers
    <3>2. arg \in Vec!Elements(vec) /\ Vec!Placed
      BY <1>1, <2>1, <3>1, HitPlaced DEF Vec!Placed
    <3>3. Vec!Reported(arg \in Vec!Elements(vec))
      BY <3>1, <3>2 DEF Vec!Reported
    <3>4. CASE op = "delete"
      <4>1. vec' = Vec!RemoveAt(vec, middle) /\ middle \in 0 .. Len(vec) - 1 /\ vec[middle + 1] = arg
        BY <1>1, <2>1, <3>4 DEF Vec!Finish, Vec!Insert, Vec!Delete, Vec!Contains, SearchInv, Vec!TypeOK
      <4>2. Vec!Elements(vec') = Vec!Elements(vec) \ {arg}
        BY <1>1, <2>0, <4>1, RemoveAtElements DEF SearchInv
      <4> QED BY <3>2, <3>3, <3>4, <4>2 DEF Vec!Kept
    <3>5. CASE op # "delete"
      <4>1. vec' = vec
        BY <1>1, <2>1, <3>5, Zenon DEF Vec!Finish, Vec!Insert, Vec!Delete, Vec!Contains
      <4>2. Vec!Elements(vec) \cup {arg} = Vec!Elements(vec)
        BY <3>2
      <4> QED BY <2>0, <3>2, <3>3, <3>5, <4>1, <4>2 DEF Vec!Kept
    <3> QED BY <3>4, <3>5
  <2>2. CASE state = "err"
    <3>1. out' = [is |-> op = "insert", at |-> low]
      BY <1>1, <2>2, Zenon DEF Vec!Finish, Vec!Insert, Vec!Delete, Vec!Contains, Vec!Answers
    <3>2. arg \notin Vec!Elements(vec) /\ Vec!Placed
      BY <1>1, <2>2, <3>1, MissPlaced DEF Vec!Placed
    <3>3. Vec!Reported(arg \in Vec!Elements(vec))
      BY <3>1, <3>2 DEF Vec!Reported
    <3>4. CASE op = "insert"
      <4>1. vec' = Vec!InsertAt(vec, low, arg) /\ low \in 0 .. Len(vec)
        BY <1>1, <2>2, <3>4 DEF Vec!Finish, Vec!Insert, Vec!Delete, Vec!Contains, SearchInv,
            Vec!TypeOK, Narrowed
      <4>2. Vec!Elements(vec') = Vec!Elements(vec) \cup {arg}
        BY <2>0, <4>1, InsertAtElements
      <4> QED BY <3>2, <3>3, <3>4, <4>2 DEF Vec!Kept
    <3>5. CASE op # "insert"
      <4>1. vec' = vec
        BY <1>1, <2>2, <3>5, Zenon DEF Vec!Finish, Vec!Insert, Vec!Delete, Vec!Contains
      <4>2. Vec!Elements(vec) \ {arg} = Vec!Elements(vec)
        BY <3>2
      <4> QED BY <2>0, <3>2, <3>3, <3>5, <4>1, <4>2 DEF Vec!Kept
    <3> QED BY <3>4, <3>5
  <2> QED BY <2>0, <2>1, <2>2
<1>2. SearchInv /\ [Vec!Next]_Vec!vars
        => [Vec!Finish => Vec!Reported(arg \in Vec!Elements(vec)) /\ Vec!Placed /\ Vec!Kept]_Vec!vars
  BY <1>1
<1> QED BY <1>2, SearchInvariance, PTL DEF Vec!Spec, Vec!CallsActOnTheSet

=============================================================================
