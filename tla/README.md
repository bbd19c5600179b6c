# A TLA+ model of the ordered containers

The repository is an ordered-container crate (`indexset`): sequential sets and
maps with positional access, and concurrent sets, maps and multimaps built on a
two-level B-tree. This directory holds models of both, the TLC runs that check
them on small instances, and TLAPS proofs for all instances.

Paths below are relative to `src/src/`; `set.rs`, `map.rs`, `multimap.rs`,
`operation.rs` and `ref.rs` are in `concurrent/`.

## The system

| Part | Source | Modules | State |
|---|---|---|---|
| Topology, write guard, publication | `set.rs` 329-771 | `Topology`, `ConcurrentSet` | modelled |
| Point operations of the concurrent set | `set.rs` 1014-1678 | `ConcurrentSet`, `AtomicSet` | modelled |
| Structural commits (Split, UpdateMax) | `operation.rs` | `ConcurrentSet`, `ChangeFeed` | modelled |
| Range removal | `set.rs` 2350-2461 | `ConcurrentSet` | not for bounds several elements share |
| Reference guards | `ref.rs` | `ConcurrentSet`, `ConcurrentMap` | modelled |
| Lock discipline | `set.rs`, `operation.rs`, `ref.rs` | `LockOrder` | modelled, proofs only |
| Chunked published index | `set.rs` 52-218 | `PublishedChunks`, `RouteMap` | modelled |
| Snapshot reclamation | `set.rs` 229-327 | `Reclamation` | modelled, proofs only |
| Iterators and ranges | `set.rs` 1730-2340 | `Scan` | modelled |
| Change data capture | `cdc/change.rs`, event code of `set.rs`, `operation.rs` | `ChangeFeed` | modelled |
| Attachment, topology images | `set.rs` 974-1009, `map.rs` 222-303 | `ConcurrentSet`, `TopologyImage`, `RestoredTopology` | modelled |
| Concurrent map | `map.rs`, `core/pair.rs` | `ConcurrentMap`, `AtomicMap` | modelled |
| Concurrent multimap | `multimap.rs`, `core/multipair*` | `ConcurrentMultimap`, `AtomicMultimap` | partly |
| Node vector | `core/node.rs` | `NodeVec` | partly, proofs only |
| Sequential set | `lib.rs` | `SequentialTree`, `SequentialSet`, `SortedSet` | modelled |
| Sequential map | `lib.rs` | `SequentialTree`, `SequentialMap`, `SortedMap` | modelled |

**Concurrent part.** A set keeps its elements in nodes. A canonical index maps
each node's routing key, normally its maximum, to the node. One structural
`RwLock` protects the index and every node has its own `RwLock`. Writers change
a node under the structural *read* guard. If that changed the node's maximum or
found the node full they drop both guards and commit an `UpdateMax` or a `Split`
under the structural *write* guard, after checking that the key still leads to
the node. Point reads take no structural lock: they load an even generation,
route in an immutable published snapshot, lock the node and load the generation
again. After two failed attempts they fall back to the canonical index.

The last node's key may be changed without publishing, because a read of
anything beyond the last route ends in the last node anyway. `insert` repairs
that stale route before another node can become last.

The map is a set of pairs that compare by key, the multimap a set of pairs that
compare by key and value and are looked up by key. Iterators take a batch of a
node's elements at a time and hold no lock in between. With the `cdc` feature,
inserts and removes also return events from which a replica can be kept.

**Sequential part.** A set is a vector of sorted nodes with a Fenwick index of
their lengths, which turns positions into node and offset. The map is a set of
pairs, with entries, mutable iterators and cursors on top.

## Modules

`Scan`, `ChangeFeed`, `TopologyImage`, `ConcurrentMap` and `ConcurrentMultimap`
all extend `ConcurrentSet`: each takes its steps and adds state of its own, so
that every interleaving of the core is in them too.

**`Topology`** holds the pure operations of `TopologyWriteGuard` on a record of
the canonical `index`, the writer's `routes` and `keys` (published key by node
identity): `Insert`, `Remove`, `RepairLastRoute`, `Rebuild`, `CanRekeyLastNode`,
`RekeyLastNode`. `RemoveAll` removes several keys at once, for `remove_range`.
`Mirrors` is the publication invariant of one topology.

**`ConcurrentSet`** is the state machine. Each thread has a program counter. An
action covers the code between two points at which another thread can observe
or influence it: taking the structural lock, taking a node lock, loading the
generation or the root, swapping the root, and releasing. Correspondence:

| Code | Actions |
|---|---|
| `put_checked_inner`, `put_inner` | `PutRead`, `PutRoot`, `PutNode`, then `SplitWrite` or `RekeyWrite` |
| `Operation::commit` | `SplitCommit`, `UpdateMax` |
| `remove_inner` | `RemoveRead`, `RemoveNode`, `RemoveWrite`, `RemoveCommit`, `RekeyWrite` |
| `remove_range` | `RangeWrite`, `RangeCommit` |
| `attach_node` | `AttachWrite`, `AttachCommit` |
| `Drop for TopologyWriteGuard` | `SwapRoot`, `Release` |
| `get_with`, `lock_node_for_value`, `contains`, `get` | `GetGeneration`, `GetRoot`, `GetLock`, `GetCheck`, `GetFallback`, `DropRef` |
| `lock_node_for_value_optimistic` | `SelectRead`, `SelectNode` |

Abstractions:

- A node's vector is the set of its elements; an element is an integer key.
  `NodeVec` justifies this.
- Which locks a thread holds follows from its program counter. A node write
  guard never outlives an action, so only the read guards of `get` and of a
  validating reader block a node writer. `LockOrder` has the waiting.
- The generation is its parity `odd` and the set `unmoved` of readers whose
  loaded value is still current. Only equality and parity are ever tested, so
  nothing is lost and no counter needs a bound. (Wrap-around of the 64-bit
  counter during one read is excluded.)
- Raising the generation and releasing the lock are one step, since nobody can
  take the lock in between and readers see only the generation.
- `NewNode` picks any allocation nobody can reach. An `Arc` held by a thread, by
  the index or by the published root keeps its identity in use, so the reuse of
  an address after the last `Arc` is gone is modelled. Older snapshots are not:
  a reader's node counts as held from the moment it has routed.
- Attaching a node outside the documented precondition has no effect.

**`AtomicSet`** says what callers are promised: each call takes effect at one
instant. The optimistic lookup may miss but never invents an element.
`ConcurrentSet` implements it under `set <- UNION {contents[n] : n \in Linked}`.

**`ConcurrentMap`** adds the value stored with every key, the value an insert
brings and the value a call hands back; `checked_insert` is an insert that
leaves a value alone if it finds it with room in the node. **`AtomicMap`** is the
promise: insert and remove hand back the very value they displaced.

**`ConcurrentMultimap`** numbers the entries in the order of `cmp`; `PerKey`
consecutive ones share a key. `remove_some` and `contains_key` carry the lowest
entry of their key, route by it and match any entry of the key.
**`AtomicMultimap`** is the promise.

**`Scan`** treats the two directions of an iterator as two threads that make no
calls. `Install` is one turn of the loop of `install_front_batch` or
`install_back_batch`; the constructors and `next`, `next_back` are actions.
A bound is a view of elements: in groups of one it is an element, in larger
groups a key that several elements share. `kept` and `yielded` are history.

**`ChangeFeed`** draws the events of each step in id order and has a replica
apply them one by one, an event only when the call that drew it has returned.
The replica is the one of the repository's tests: a map from maxima to vectors.

**`TopologyImage`** has an exporter copying node after node under the structural
read guard while writers go on inside nodes, and the validation of
`from_topology`, on what was exported and on images from elsewhere. `stayed` is
history: what was acknowledged when the export began and is still there.
**`RestoredTopology`** adds the attachment of an accepted image.

**`PublishedChunks`** is the vector of shared chunks behind the published index:
lookups, insertion with chunk splits, removal with merges, rebuilds, and the
copy-on-write that keeps readers' chunks unchanged. **`RouteMap`** is the partial
function it implements, and which `Topology` uses.

**`Reclamation`** has readers that pin, load, follow and unpin, and writers that
swap the root, retire the old one and drain. The reclamation domain is a
library: a retired snapshot may be freed once every pin held when it was retired
is gone. Freed addresses are used again.

**`LockOrder`** makes waiting explicit for the structural lock, the node locks
and the identity-map mutex, in the combinations in which inserts, commits, range
removals, point reads and scans take them. A waiting writer keeps new readers
out, as in `parking_lot`. Routing is left open: any node may be met.

**`NodeVec`** is the binary search of `core/node.rs` one probe at a time, with
`insert`, `delete`, `contains` and `halve` on top of it.

**`SequentialTree`** has the operations of the sequential `BTreeSet` as operators
on its fields (nodes, Fenwick index, capacity, length): insertion with split,
removal, positions, iterators, ranges and the merge-like set operations.
**`SequentialSet`** makes the calls that change a set into actions and checks the
queries in every set that calls can build. **`SortedSet`** is the promise on plain
sets. **`SequentialMap`** and **`SortedMap`** do the same for `BTreeMap`, with entries,
mutable iterators and cursors. The Fenwick tree is a library crate: it is the
sequence of lengths, and a prefix sum is the sum over a prefix.

The `MC` modules give initial contents, inputs and symmetry sets. Operators
marked "Defect" are faulty variants, used to confirm that a property notices the
fault.

## Runs

States are distinct states. Nodes, keys and capacities are those of the run.

| Run | Instance | Checks | States |
|---|---|---|---|
| `two_inserters` | 2 keys, 5 nodes, capacity 2; two threads that insert, remove and attach | `PublicationInvariant`, `NoLinkedNodeIsEmpty` | 118k |
| `range_removal` | 4 keys, 5 nodes, capacity 2; an inserter, a remover of points and ranges, restored nodes | the same, `ElementsAreReachable`, `StaleKeyHasRepairer` | 409k |
| `map` | 2 keys, 2 values, 3 nodes, capacity 2; one thread inserts and removes, one removes and looks up | `TypeOK`, `RefEntryStays`, `Linearizable`, `MapLinearizable` | 98k |
| `multimap` | 4 entries of 2 keys, 5 nodes, capacity 2; an inserter, a thread that removes and looks up | `MultimapLinearizable`, `ValidatedReadIsDefinitive` | 459k |
| `scan` | 4 keys, 4 nodes, capacity 2, batches of 1 and 2, 13 ranges; an inserter, a remover, 2 calls of theirs | `NothingSkipped`, `YieldedOnce`, `EveryNextReturns` | 356k |
| `feed` | 4 keys, 5 nodes, capacity 3; an inserter, a remover, 2 events waiting | `FeedRebuildsNodes` | 197k |
| `image` | 3 keys, 4 nodes, capacity 2; an inserter, a remover, an exporter, 8 images from elsewhere | `ExportIsRestorable`, `ExportKeepsWhatStays`, `AcceptsExactlyOrderedImages`, `RestoredRoutesMirror` | 920k |
| `chunks` | 5 keys, each with a node of its own and one with two, 3 routes a chunk, 2 edits a publication | `ChunksAreWellFormed`, `LookupsFindTheRoute`, `IsRouteMap` | 79k |
| `sequential_set` | 2 sets, 4 keys, 4 elements together, node size 3 (default 2) | `IsSortedSet`, `NodesStayWithinSize` and six invariants on fields and queries | 11k |
| `sequential_map` | 1 map, 4 keys, 2 values, node size 2 (default 3) | `IsSortedMap` and five invariants on entries, queries and cursors | 4k |
| `readers_return` | 1 key, 3 nodes, capacity 1; an inserter, a remover, a reader | `EveryCallReturns` | 14k |
| `stale_split` | 3 keys, 4 nodes, capacity 3; two inserters | `ElementsAreReachable` | violated |

What they show:

- **`two_inserters`**, **`range_removal`**: the published routes mirror the index
  whenever nobody is publishing, and no linked node is empty. With one inserter,
  elements are in the node that the index leads to, and a key that is not its
  node's maximum has a thread about to repair it.
- **`map`**: calls take effect at one instant, on keys and on values; the entry
  under a `Ref` stays.
- **`multimap`**: a read that the generation validated holds the canonical node;
  calls on entries spread over nodes, including calls by key, take effect at one
  instant as long as the thread that removes is the one that looks up.
- **`scan`**: what stays in the set and in range is yielded, in order and once,
  whatever splits, re-keys and removals happen between two items, and a call of
  `next` ends.
- **`feed`**: events applied in id order rebuild the nodes exactly, provided no
  insert of a stored value rides a split (`SparesFull`; see Observations).
- **`image`**: an image taken under writers is accepted again and misses nothing
  that stayed; exactly the ordered images are accepted.
- **`chunks`**: the chunked index is an ordered map: an edit changes the route it
  was given and hands back the node it displaced, a rebuild leaves the canonical
  routes, and what readers hold does not change under edits.
- **`sequential_set`**, **`sequential_map`**: calls act as on plain sets and
  functions; lookups, positions, iterators, ranges over stored bounds, set
  operations and cursors agree with the order of the elements. Nodes stay within
  their set's node size, except in a latter half that `split_off` cuts from nodes
  larger than the default (see Observations).
- **`readers_return`**: nobody's retries go on forever.
- **`stale_split`**: a `Split` scheduled for a value beyond the last key checks,
  when it commits, only that the key still leads to the node
  (`operation.rs:39-40`). Meanwhile another insert can re-key the node upwards
  and split it, which puts the same node back under the same key but no longer
  last. The commit then stores the value beyond the next node's range, against
  "node ranges are non-overlapping" (`set.rs:334-335`). This is why
  reachability, linearizability, scans and feeds are checked with one inserting
  thread.

Bounds. Three or four keys and capacity two or three give nodes that fill, split
into several, empty and are unlinked, with a middle node between two others. In
`two_inserters` and `map` two keys are enough for what they ask: a node fills, an
insert of a stored key rides its split, and both halves empty again. What these
two check is also proved for every instance (below); the runs confirm that the
interesting steps happen and that faults are noticed.
Capacity 1 makes the lower half of a split empty. The node pools are large
enough for every allocation; deadlock is checked in all runs, so an exhausted
pool would show. Two threads are enough for every race the code has between a
scheduled commit and one other writer. In `scan` the writers' calls are counted
(`MaxCalls`), because the scan must meet few changes of every kind rather than
many; in `feed` the backlog (`MaxBacklog`) delays writers only while a replica is
behind. Chunks of three split, merge with either neighbour and disappear; the
code's limit is 128. `NodesOf` gives every key of `chunks` a node of its own, so
that the wrong route shows, and one key a second node, so that a replacement
does. Two node sizes meet in the sequential runs, since `split_off` gives one of
its parts the default size: a smaller one in `sequential_set`, a larger one in
`sequential_map`. Nodes are symmetric in the safety runs;
threads only in `stale_split`; the liveness runs use no symmetry.

Fairness. `FairSpec` assumes strong fairness of each thread's steps: a thread
that can proceed again and again eventually does. Weak fairness is too little,
because a lock request is enabled and disabled as others take the lock.
`parking_lot` locks are eventually fair, which justifies it, and callers are
assumed to drop their `Ref`. Calls themselves are not fair. `FairScanSpec`
assumes only that a scan that is offered the structural lock again and again
takes it, and `EveryNextReturns` that it is offered: no writer keeps it for good.

`EveryCallReturns` is about one inserter, one remover and one reader. It fails
for two threads that both insert and remove: an insert finds the set empty, finds
a first node when it has the lock, and starts over (`set.rs:1045-1047`) while the
other thread removes and inserts that element, again and again. Nothing in the
repository promises otherwise.

## Proofs

For every set of keys `1 .. MaxKey`, every set of values, nodes and threads,
every capacity and every admissible initial contents of `ConcurrentSet`,
`ConcurrentMap`, `Scan` and `TopologyImage`, with any ranges and batch sizes of a
scan; for any threads, addresses, drain threshold, nodes and lengths in the
others:

| Theorem | Module | Statement |
|---|---|---|
| `RoutesAgree` | `ConcurrentSetLemmas` | mirrored routes select the canonical node for every value |
| `TypeCorrectness` | `ConcurrentTheorems` | `Spec => []TypeOK` |
| `PublicationIsKept` | `ConcurrentTheorems` | `Spec => []PublicationInvariant` |
| `ValidatedReads` | `ConcurrentTheorems` | `Spec => []ValidatedReadIsDefinitive` |
| `NoEmptyNode` | `ConcurrentTheorems` | `Spec => []NoLinkedNodeIsEmpty` |
| `StaleKeysAreRepaired` | `ConcurrentTheorems` | `Spec => []StaleKeyHasRepairer` |
| `NothingIsLost` | `ConcurrentTheorems` | `OneInserter => (Spec => []ElementsAreReachable)` |
| `SetIsLinearizable` | `ConcurrentTheorems` | `OneInserter /\ RangeRemovers \subseteq Inserters => (Spec => Linearizable)` |
| `MapIsLinearizable` | `ConcurrentTheorems` | `OneMapInserter => (MapSpec => MapLinearizable)` |
| `RefEntriesStay` | `ConcurrentTheorems` | `OneMapInserter => (MapSpec => []RefEntryStays)` |
| `NoNodeOverflows` | `ConcurrentTheorems` | `Attachers = {} /\ NodesHaveRoom => (Spec => []CapInv)` |
| `ScanYieldsOnce` | `ConcurrentTheorems` | `ScanSpec => YieldedOnce` |
| `ScanSkipsNothing` | `ConcurrentTheorems` | `OneInserter => (ScanSpec => []NothingSkipped)` |
| `ExportsKeepWhatStays` | `ConcurrentTheorems` | `OneInserter => (ImageSpec => []ExportKeepsWhatStays)` |
| `ExportsAreRestorable` | `ConcurrentTheorems` | `OneInserter /\ NodesHaveRoom => (ImageSpec => []ExportIsRestorable)` |
| `SnapshotsOutliveTheirUse` | `ProtocolProofs` | `Spec => []NoUseAfterFree` |
| `SnapshotsHaveOneOwner` | `ProtocolProofs` | `Spec => []OneOwnerEach` |
| `DeadlockFreedom` | `ProtocolProofs` | `Spec => []NoDeadlock` |
| `SearchInBounds` | `ProtocolProofs` | `Spec => []ProbesInBounds` |
| `SearchEnds` | `ProtocolProofs` | `Spec => EveryProbeNarrows` |
| `VectorStaysAscending` | `ProtocolProofs` | `Spec => []StaysAscending` |
| `VectorActsAsSet` | `ProtocolProofs` | `Spec => CallsActOnTheSet` |

Assumptions: `MaxKey` is a natural number, `Capacity` a positive one, `None` is
none of the things it stands beside, and restored nodes occupy disjoint ordered
ranges. The directions of a scan and the exporter are threads that make no calls
of the set, and batch sizes are positive. `LockOrder`, `Reclamation` and
`NodeVec` assume nothing of their constants. `ProtocolProofs` reaches the last
two through `INSTANCE`, so their definitions carry the prefixes `Domain!` and
`Vec!` there.

Some theorems have a condition on who calls what, two also on the capacity:

- `OneInserter`: at most one thread inserts, and nodes are attached only before
  the set is shared. Reachability fails without it: `stale_split` shows two
  inserters that store an element beside its route, and
  `HitsAndMissesAreDefinitive` (Observations) a node attached at the wrong moment.
  The other theorems that have it rest on reachability.
- `RangeRemovers \subseteq Inserters`: only the inserting thread removes ranges.
  It cannot be dropped: `NothingBeyondLastKey` (Observations) shows a range
  removal that misses an element whose insert has yet to raise the last key. The
  number of threads that remove single elements and look up is not limited.
- `OneMapInserter` is `OneInserter` without range removals, which the map
  (`map.rs`) does not offer.
- `NodesHaveRoom`: nodes may hold more than one element, and the initial ones
  keep to the capacity. With a capacity of one the lower half of a split is
  empty, so the riding value joins the upper half, which then holds two;
  `from_topology` refuses such an image (`ExportIsRestorable` fails in `image`
  with `Capacity = 1`).
- `Attachers = {}`, in `NoNodeOverflows` alone: the number of inserting threads is
  not limited there, but an attached node may be of any size.

`ScanYieldsOnce` needs no condition. For `ScanSkipsNothing` Observations has the
scan that two inserters make skip an element.

### The concurrent set

The modules build on each other:

    ConcurrentInvariants         the invariants; definitions only
      ConcurrentSetLemmas        operators, quiet steps, what each commit does
        ConcurrentSetProofs      IInv; what a step leaves to its neighbours
        RoutingProofs            SInv and RInv
        LinearizabilityProofs    LInv, refinement of AtomicSet
          MapProofs              the map's invariants, refinement of AtomicMap
      TraversalProofs            steps of a scan and of an export
    ConcurrentTheorems           all of the above; the theorems

`ConcurrentSetLemmas` first shows that each guard operation takes a topology that
mirrors to one that mirrors. So the `Rebuild` branches for an inconsistent route
are never needed. It then states, once for every commit, what it does to index
and nodes (`SplitOutcome`, `OneNodeOutcome`, `SeveralNodesOutcome`,
`UpdateMaxEffect`, ...), for the other modules to cite.

    IInv == KeySetsCount /\ TypeOK /\ PublicationInvariant /\ LockInv /\ ReaderInv

`LockInv` says that the structural lock excludes and that the generation is odd
exactly while a publishing guard exists, with no reader current then.
`ReaderInv` says that a reader whose generation is current has a current route
in the published root. Neither the publication invariant nor the read property
is inductive without them: the first needs that nobody else edits the topology
while a guard is dirty, the second that a read that spans an unpublished
last-node re-key still has the right node. With `RoutesAgree` that node is the
canonical one. Steps fall into *quiet* ones, which leave index, root and
generation alone (`QuietInv`), and *guarded* ones, which run under a publishing
guard (`GuardedStep`); the remaining ones (`RekeyWrite`, `UpdateMax`, `SwapRoot`,
`Release`) have proofs of their own. `KeySetsCount` is about sets of keys alone,
the few facts about cardinality and extremes that the steps use;
`ConcurrentTheorems` proves it (`KeySetsAreCounted`) from the library's theorems
on finite sets, which the other modules then need not load.

    SInv == HeldInv /\ RepairInv

`RepairInv` says of every index entry that its node has elements, that some
thread is about to commit an `UpdateMax` of that node under that key when the key
is not the node's maximum, and that this thread is an insert when the key lies
below an element. `HeldInv` says that a thread that has routed under a structural
guard and still holds it works with a current entry that its value is routed to;
otherwise a remover could drain one node and unlink another, and an insert could
leave a stale key behind without being the one to repair it. `SInv` needs no
condition on the callers. It gives `StaleKeysAreRepaired` and `NoEmptyNode`.

    RInv == Reaches(topo.index, contents) /\ CallerInv /\ SplitInv

`Reaches` is reachability. What could break it is a commit that trusts a stale
key, and `SplitInv` is why it does not with one inserter: the node of a thread
about to split can meanwhile only have moved to a lower key, or its entry is as
it was and still routes the riding value. A second inserter could raise the key.
A re-key can leave elements above the key only while an insert is pending
(`RepairInv`), and with one inserter that insert is not the thread that splits.

    LInv == ResInv /\ UnlinkedAreEmpty

`ResInv` says at which labels a call has its outcome. `UnlinkedAreEmpty` makes
the abstract set the union of all nodes. Every step is then a call, a return,
silent, or the instant at which the call takes effect (`StepLinear`): inserts and
removes where they change the locked node or find nothing to change, splits and
last-element removals in their commit, range removals in theirs, reads when the
generation validates them (with `ReadIsDefinitive`) or under the structural read
guard. For a range removal across nodes the elements inside the range have to be
exactly those in the middle nodes and in the trimmed parts of the end nodes,
which is where `NoneAbove`, hence the condition on range removers, is needed.

### The concurrent map

On its keys the map takes the steps of the set (`MapRunsTheSet`), so the set's
invariants hold. By `Reaches` and `UnlinkedAreEmpty` a key is in one node only
(`OneHolder`), so it has one value. `StepValues` shows that a step leaves every
value with its key, also when a split moves the key to a new node, except for the
pair that an insert writes. `LockedDecides` and `FoundValue` show that what a
call hands back is the value of its key at that step. `HandInv` says that what a
caller brings stays until it returns. `RefInv` says that the entry under a `Ref`
is in the node that the `Ref` locks, with the value handed out: the read guard
keeps others from changing the node (`LockedNodeStays`), and as the key is in no
other node nobody writes its value elsewhere (`NoWriteUnderRef`).

### Scans and exports

Both walk beside the writers of the set and leave index, nodes and the writers'
variables alone (`Walks`, `WalkKeeps`), so the set's invariants hold throughout.
What they need of a writer's step is stated without naming the step:
`OthersStay`; `NodesChange`, which says what may happen to a node (elements go;
the inserted value comes, where there is room or into half of a split; a node
nobody knows is filled); `GrowsByInsert`, which follows from it for a node that
somebody still keeps; and `ReadersKeepTheIndex`, for whoever holds the structural
read guard.

    ScanInv == WalkInv /\ ScanTypes /\ YieldInv
    SkipInv == ResInv /\ AboveInv /\ StayInv /\ RestInv /\ WaitInv

`YieldInv` says that what has been yielded lies behind a cursor; as `next` moves
a cursor strictly past it, and ends the scan where the cursors cross, nothing is
yielded twice. `WaitInv` is why nothing is skipped: an element that stayed, is in
range and has not been yielded is ahead of both cursors and, if it comes before
something in a batch, is in that batch; and a node that a direction has finished
with holds none outside the batch. The last holds on because a node that somebody
keeps gains nothing but the value of an insert in progress. `FrontReaches` and
`BackReaches` show that the next node a direction locks is never beyond a waiting
element, and `RankedRest` that skipping up to the rank of the cursor leaves
exactly what lies beyond it. This rests on `Located`: an element that stayed lies under the first key
at or above it. It needs `AboveInv`, that of the node an insert is about to
re-key only the inserted value lies above the key, and that an insert's value
counts as staying only once the insert has returned. With a second inserter
another element can lie above the key, and the scan ends before it.

    ExportInv == ExportWalk /\ CopyInv

An export copies under the read guard, so the index stands still (`CopyInv`).
`KeptInv` says that what stayed is in the image or in a node still to be copied.
`OrderInv` says that the copies so far are ones `from_topology` accepts and end at
or below a key before those to come: routing keys may be stale, but by `Reaches`
they separate the nodes. `CapInv` bounds the nodes; a split leaves halves that
have room for one more (`HalfCount`). The list of a node is its elements by rank
(`InOrder`). That ranks are distinct, ordered and without gaps is proved from
cardinalities, without induction (`RankOrder`, `RankExists`: after the greatest
element of a lower rank comes the one that has the rank).

### Reclamation, locks, node vector

**Reclamation.** The invariant adds to the two properties that the recorded pins
are those of the threads between pin and unpin (`PinInv`), that the structural
lock excludes (`LockInv`), and `GraceInv`: a snapshot that a pinned reader has
loaded is the root, or unlinked, or retired and waiting for that very pin.
Without the last one a drain could free what a reader is about to follow.

**Lock order.** The invariant says that threads hold node locks only at certain
labels and never wait for their own (`Disciplined`), and that there is one
structural writer (`WriterIsAlone`). A thread that holds a node and waits is then
that writer (`HoldersThatWait`), so a chain of waits ends at it, and what it
waits for is held by threads that do not wait (`NoCycle`). The premise is that
callers drop a `Ref` before their next call.

**Node vector.** While a search runs the elements before `i` are smaller than
the value and those from `j` on are greater (`Narrowed`), and `m` is the middle.
This makes the position found the only one that keeps the vector ascending, and
the answer that of the set.

### Only model-checked

- Liveness (`EveryCallReturns`, `EveryNextReturns`), which the prover does not
  handle.
- The sequential containers and the chunked index: their operators fold over
  sequences of any length, and the prover has no induction over data. The same
  holds for the replica that applies change events (`FeedRebuildsNodes`) and for
  the map restored from an image (`AcceptsExactlyOrderedImages`,
  `RestoredRoutesMirror`).
- The multimap. A call by key matches any of several entries, which may be spread
  over nodes; the set's invariants speak of one value and the node it is routed
  to, and say too little about its neighbours.
- That the conditions are needed: the counterexamples are TLC's.

`LockOrder`, `Reclamation` and `NodeVec` have no runs: the proofs cover every
instance.

## Observations

TLC also finds, on instances as small as those above, that the code does not do
what the following comments say. The properties are defined in the modules but
belong to no run listed above; each is violated when it is added to the
configuration described here.

Concurrent containers:

- `NothingBeyondLastKey` (`ConcurrentSet`; an inserter, a range remover):
  `remove_range` returns at once when no index key reaches its start, since then
  "nothing qualifies" (`set.rs:2363-2366`). An insert of a new maximum stores its
  element before its `UpdateMax` raises the last key, so in between an element in
  the range is not removed.
- `HitsAndMissesAreDefinitive` (`ConcurrentSet`; an inserter, an attacher, a
  reader): a node attached in the same window becomes the last one, and a
  validated read of the pending maximum is routed to it and misses, against "hits
  and misses remain definitive" (`set.rs:1455-1458`, `set.rs:991`).
- `NothingSkipped` (`Scan`; two inserters): in the same window the last key is
  below elements of its node, also below one whose own insert has returned
  because it was no maximum. A scan that looks for a key beyond its cursor ends
  without that element (`set.rs:1837`), against "elements present for the whole
  scan are yielded exactly once, in order" (`set.rs:1741-1742`).
- `YieldsWithinBounds` (`Scan`): `Range::new` stores the first element outside
  each bound as that end's cursor, and later batches are limited by the cursor
  (`set.rs:2161`). An element inserted between bound and cursor is yielded,
  against "from min (inclusive) to max (exclusive)" (`set.rs:2310-2311`).
- `FeedRebuildsNodes` with `SparesFull = FALSE` (`ChangeFeed`): an insert that
  replaces the maximum of its half while riding a split draws `RemoveAt` and
  `InsertAt` under that same maximum (`operation.rs:81-95`, `119-134`). Applying
  the first renames or empties the node, so the second names none, against "Max
  value that is used to identify node" (`cdc/change.rs:38`).
- `RefusedInsertKeepsEntry` (`ConcurrentMap`): `insert` is `put(value).is_none()`
  (`set.rs:1306`), and `put` replaces an equal value, against "the entry is not
  updated" (`set.rs:1291-1292`).
- `KeyMissIsDefinitive` (`ConcurrentMultimap`; a remover, a looker): a lookup by
  key reads the first node whose route reaches the key (`set.rs:1587`). A remover
  that has just taken the key's only entry there has not re-keyed it yet, so the
  lookup misses entries in the next node, and the generation validates the miss
  (`set.rs:1457`, `set.rs:782-783`). With two removers `remove_some` can miss in
  the same way (`multimap.rs:289-290`).

Sequential containers:

- `GetReturnsTheEqual` (`SequentialSet`): `get` returns what stands at the
  position of the value without comparing (`lib.rs:302`): on {2}, `get(&1)` is 2.
- `RangeYieldsWithinBounds` (`SequentialSet`): `range` turns bounds into positions
  by rank, which is off by one for bounds that are not elements and for an
  excluded end at the least element (`lib.rs:1206-1210`; documented at
  `lib.rs:1169-1170`). Ranges whose bounds are elements are exact
  (`RangeOfElementsIsExact`).
- `FirstIsTheMinimum` (`SequentialSet`; node size 1): halving a node of one
  element leaves an empty first node (`lib.rs:354`), and `first`, "always the
  minimum" (`lib.rs:609`), returns nothing for a set that is not empty.
- `NodesFitTheirSize` (`SequentialSet`; node size above the default): `split_off`
  moves whole nodes into a set of the default node size (`lib.rs:1083-1085`, and
  `lib.rs:1027-1029` for the map), so nodes of the latter half can be larger than
  its "maximum node size" (`lib.rs:133`). `insert_at` splits a node only when its
  length equals the size (`lib.rs:353`), so such a node is not split again while
  it stays larger, and grows with every insert.
- `MapRangeYieldsWithinBounds` (`SequentialMap`): the rank of an included end is
  taken as the last position (`lib.rs:2667`), which is right only for a key of the
  map (documented at `lib.rs:2609-2611`).
- `IterMutYieldsAll` (`SequentialMap`): `IterMut::next` compares two unrelated
  counts to tell whether nodes are left (`lib.rs:3506`); forwards over two nodes it
  stops after the first (documented at `lib.rs:2370`).
- `RangeMutYieldsWithinBounds` (`SequentialMap`): `range_mut` drops the entry at
  its last position (`lib.rs:2756`; documented at `lib.rs:2688-2689`).
- `LowerBoundIsFirstAbove` (`SequentialMap`): an excluded bound is placed one
  after its rank even when it is no key (`lib.rs:3090`; documented at
  `lib.rs:3058-3059`).

Read off the code while modelling, with no property of their own:

- `checked_insert` overwrites the value it finds when the node is full, because
  the insert then rides a split.
- `SplitNode::split_index` is the length of the lower part, not "the index of a
  value that will be last value in first split part" (`cdc/change.rs:72`).
- `range_idx` with an excluded end of 0 subtracts below zero (`lib.rs:1155`), and
  `range_mut` of an empty map panics.

## Hazards

`PROJECT.json` lists what is hard to test in this code, with the property or
theorem that would notice each going wrong. The main ones are the window between
a node change and its commit; key-and-node identity coming back between
scheduling and commit; last-element removal, which drops its guards midway; the
order of root swap and generation; the stale last route; cursors that outlive
the node they came from; reader or writer starvation; and positions at node
borders.

Two of them are covered only in part. When two writers find the set empty and
both go on to create the first node, `two_inserters` checks the structure that is
left, but no run checks that neither insert is lost: with two inserters the set
is not linearizable anyway, because of the stale split. And liveness of writers is
checked for one inserter and one remover on one key.

## Not modelled

- `remove_range` with bounds that several elements share; `attach_multi_nodes`
  and `snapshot_nodes` of the multimap, which forward to the set; adoption of a
  stored discriminator on replacement; the multimap's iterator wrappers.
- The conversion of multimap events into pair events (`cdc/change.rs:143-195`),
  which copies fields. `remove_range` and `attach_nodes` draw no events.
- `CursorMap`, `ValuesMut` and `RangeMut`, which forward to `Cursor` and `IterMut`;
  conversions such as `FromIterator` and `From`; `Debug`, `Hash` and `Display`.
- The alternative search backends (`core/node.rs:60-138`), which call library
  code; `replace` and `delete_at`, which touch one given position.
- The test-only commit `MakeUnreachable`; the drop of a whole set.
- The reclamation domain (`ps_reclaim`), the Fenwick tree (`ftree`) and the locks
  (`parking_lot`), which are libraries: they are modelled by how they are used.
- Memory order: atomics and locks are sequentially consistent in the models.
