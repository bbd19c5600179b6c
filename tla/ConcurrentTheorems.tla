------------------------- MODULE ConcurrentTheorems --------------------------
(***************************************************************************)
(* What holds of the concurrent set, of the concurrent map, of a scan over *)
(* the set and of an export throughout, for any number of keys, values,    *)
(* nodes and threads and any node capacity.  The proofs for single steps   *)
(* are in the modules that this one extends.                               *)
(***************************************************************************)
EXTENDS ConcurrentSetProofs, RoutingProofs, MapProofs, TraversalProofs, FiniteSetTheorems

-----------------------------------------------------------------------------
(* The set.                                                                *)

\* A set of natural numbers that is not empty has a smallest member.
LEMMA LeastExists ==
  ASSUME NEW S \in SUBSET Nat, S # {}
  PROVE  \E x \in S : \A y \in S : x <= y
<1>1. PICK x \in S : \A y \in S : ~(<<y, x>> \in OpToRel(<, Nat))
  BY WFMin, NatLessThanWellFounded, Zenon
<1>2. ASSUME NEW y \in S PROVE x <= y
  <2>1. x \in Nat /\ y \in Nat
    BY Zenon
  <2>2. ~(<<y, x>> \in OpToRel(<, Nat))
    BY <1>1, Zenon
  <2>3. ~(y < x)
    BY <2>1, <2>2, Zenon DEF OpToRel
  <2> QED  BY <2>1, <2>3, SMT
<1> QED  BY <1>1, <1>2, Zenon

\* A set of keys that is not empty has a smallest and a greatest member.
LEMMA EndsExist ==
  ASSUME NEW S \in SUBSET Key, S # {}
  PROVE  /\ \E x \in S : \A y \in S : x <= y
         /\ \E x \in S : \A y \in S : y <= x
<1>1. \A x \in S : x \in Nat /\ MaxKey - x \in Nat
  BY MaxKeyAssumption, SMT DEF Key
<1>2. \E x \in S : \A y \in S : x <= y
  BY <1>1, LeastExists, Zenon
<1> DEFINE R == {MaxKey - x : x \in S}
<1>3. R \in SUBSET Nat /\ R # {}
  BY <1>1, Zenon
<1>4. PICK r \in R : \A q \in R : r <= q
  <2> HIDE DEF R
  <2> QED  BY <1>3, LeastExists, Zenon
<1>5. PICK x \in S : r = MaxKey - x
  BY Zenon
<1>6. \A y \in S : MaxKey - x <= MaxKey - y
  BY <1>4, <1>5, Zenon
<1>7. \A y \in S : y <= x
  <2> HIDE DEF R
  <2> QED  BY <1>1, <1>6, MaxKeyAssumption, SMT
<1> QED  BY <1>2, <1>7, Zenon

\* Sets of keys are finite, so that they can be counted.
LEMMA KeySetsAreCounted == KeySetsCount
<1>1. \A c \in SUBSET Key : IsFiniteSet(c)
  <2>1. IsFiniteSet(Key)
    BY FS_Interval, MaxKeyAssumption DEF Key
  <2> QED  BY <2>1, FS_Subset, Zenon
<1>2. \A c \in SUBSET Key : Cardinality(c) \in Nat
  BY <1>1, FS_CardinalityType, Zenon
<1>3. \A c \in SUBSET Key : \A v \in c : Cardinality(c \ {v}) = Cardinality(c) - 1
  BY <1>1, FS_RemoveElement, Zenon
<1>4. \A c, d \in SUBSET Key : c \subseteq d => Cardinality(c) <= Cardinality(d)
  BY <1>1, FS_Subset, Zenon
<1>5. Cardinality({}) = 0
  BY FS_EmptySet, Zenon
<1> QED  BY <1>2, <1>3, <1>4, <1>5, EndsExist, Zenon DEF KeySetsCount

\* The inductive invariant holds throughout: types, mirrored routes, the exclusion
\* the structural lock and the generation of Topology provide, and current routes
\* for point reads whose generation is current.
THEOREM Invariance == Spec => []IInv
BY InitInv, NextInv, KeySetsAreCounted, PTL DEF Spec

\* Every variable keeps its type: in particular a point read never exceeds its
\* retry budget, and a thread that commits always has a node and its key.
THEOREM TypeCorrectness == Spec => []TypeOK
<1>1. IInv => TypeOK
  BY Zenon DEF IInv
<1> QED  BY <1>1, Invariance, PTL

\* Whatever threads split, re-key, unlink, trim or attach, the writer's routes
\* mirror the canonical index, and the root readers route by is the writer's
\* except inside the Drop of a dirty guard (set.rs, TopologyWriteGuard).
THEOREM PublicationIsKept == Spec => []PublicationInvariant
<1>1. IInv => PublicationInvariant
  BY Zenon DEF IInv
<1> QED  BY <1>1, Invariance, PTL

\* The generation protocol is sound: a read that finds its generation unchanged
\* with the node locked holds the node the canonical index routes its value to,
\* although last-node re-keys change that index without touching the generation.
THEOREM ValidatedReads == Spec => []ValidatedReadIsDefinitive
BY ReadIsDefinitive, Invariance, PTL

\* Current entries, non-empty nodes and repaired keys hold together.
LEMMA RepairInvariance == Spec => [](IInv /\ SInv)
BY InitRepairs, NextRepairs, KeySetsAreCounted, Invariance, PTL DEF Spec

\* A routing key that is not its node's maximum is always about to be repaired:
\* whatever inserts, removes, splits, range removals and attached nodes do in
\* between, a thread still has the UpdateMax of that node to commit under that
\* very key (put_checked_inner, remove_inner, Operation::commit).
THEOREM StaleKeysAreRepaired == Spec => []StaleKeyHasRepairer
<1>1. SInv => StaleKeyHasRepairer
  BY Zenon DEF SInv, RepairInv, EntryRepaired, Repairs, Repairing, StaleKeyHasRepairer
<1> QED  BY <1>1, RepairInvariance, PTL

\* No thread ever meets an empty node in the index: a node's last element goes
\* in the critical section that unlinks the node (remove_inner, remove_range),
\* so the empty-node branches of Operation::commit are never taken.
THEOREM NoEmptyNode == Spec => []NoLinkedNodeIsEmpty
<1>1. SInv => NoLinkedNodeIsEmpty
  BY Zenon DEF SInv, RepairInv, EntryRepaired, NoLinkedNodeIsEmpty, Linked, Range
<1> QED  BY <1>1, RepairInvariance, PTL

\* Routing, repairs and reachability hold together.
LEMMA ReachInvariance ==
  ASSUME OneInserter
  PROVE  Spec => [](IInv /\ SInv /\ RInv)
<1>1. IInv /\ IInv' /\ SInv /\ RInv /\ [Next]_vars => RInv'
  BY NextReaches
<1> QED  BY <1>1, InitReaches, KeySetsAreCounted, RepairInvariance, PTL DEF Spec

\* No element is ever lost behind a neighbour's key: as long as one thread does
\* all the inserting and nodes are attached only beforehand, every element is
\* stored in the node that a point operation on it locks, whatever removes, range
\* removals, splits and deferred re-keys of any number of threads do in between
\* (put_checked_inner, remove_inner, remove_range, Operation::commit).
THEOREM NothingIsLost == OneInserter => (Spec => []ElementsAreReachable)
<1> SUFFICES ASSUME OneInserter PROVE Spec => []ElementsAreReachable
  OBVIOUS
<1>1. RInv => ElementsAreReachable
  BY Zenon DEF RInv, Reaches, ElementsAreReachable
<1> QED  BY <1>1, ReachInvariance, PTL

\* The set is linearizable when one thread inserts and only that thread removes
\* ranges: every insert, remove, contains, get, select_optimistic and
\* remove_range of any number of threads takes effect on the set of all elements
\* at one instant between its call and its return, and reports what it did
\* there.  Without the first condition an element can be stored beside the route
\* to it (stale_split); without the second a range removal can miss an element
\* that lies above a key whose repair is pending (NothingBeyondLastKey).
THEOREM SetIsLinearizable == OneInserter /\ RangeRemovers \subseteq Inserters => (Spec => Linearizable)
<1> SUFFICES ASSUME OneInserter, RangeRemovers \subseteq Inserters PROVE Spec => Linearizable
  OBVIOUS
<1>1. IInv /\ IInv' /\ SInv /\ RInv /\ LInv /\ [Next]_vars => LInv' /\ [Atomic!Next]_Atomic!vars
  BY NextLinear
<1>2. Init => LInv /\ Atomic!Init
  BY InitLinear, KeySetsAreCounted, Zenon
<1> QED  BY <1>1, <1>2, ReachInvariance, PTL DEF Spec, Linearizable, Atomic!Spec

-----------------------------------------------------------------------------
(* The map.                                                                *)

\* The map is linearizable when one thread inserts: every insert, checked_insert,
\* remove, get, contains_key and lookup for select of any number of threads
\* takes effect at one instant between its call and its return on a map from keys
\* to values, and hands back the value it found or displaced there, also when
\* the pair rides a split that moves half of its node (put_checked_inner,
\* Operation::commit, remove_inner).
THEOREM MapIsLinearizable == OneMapInserter => (MapSpec => MapLinearizable)
<1> SUFFICES ASSUME OneMapInserter PROVE MapSpec => MapLinearizable
  OBVIOUS
<1>1. (IInv /\ SInv /\ RInv) /\ IInv' /\ LInv /\ HandInv /\ RefInv /\ [MapNext]_<<vars, values>>
        => LInv' /\ HandInv' /\ RefInv' /\ [Map!Next]_Map!vars
  BY MapNextLinear
<1>2. Spec => [](IInv /\ SInv /\ RInv)
  BY ReachInvariance DEF OneMapInserter
<1>3. MapInit /\ IInv => LInv /\ HandInv /\ RefInv /\ Map!Init
  BY InitLinear, KeySetsAreCounted, MapInitLinear, Zenon DEF MapInit
<1> QED  BY <1>1, <1>2, <1>3, MapRunsTheSet, PTL DEF MapSpec, MapLinearizable, Map!Spec

\* An entry that get has handed out in a Ref stays in the map, with the value the
\* caller sees, until the Ref is dropped: whatever inserts, splits, re-keys and
\* removals of other threads happen meanwhile (Ref holds its node's read guard).
THEOREM RefEntriesStay == OneMapInserter => (MapSpec => []RefEntryStays)
<1> SUFFICES ASSUME OneMapInserter PROVE MapSpec => []RefEntryStays
  OBVIOUS
<1>1. (IInv /\ SInv /\ RInv) /\ IInv' /\ LInv /\ HandInv /\ RefInv /\ [MapNext]_<<vars, values>>
        => LInv' /\ HandInv' /\ RefInv' /\ [Map!Next]_Map!vars
  BY MapNextLinear
<1>2. Spec => [](IInv /\ SInv /\ RInv)
  BY ReachInvariance DEF OneMapInserter
<1>3. MapInit /\ IInv => LInv /\ HandInv /\ RefInv /\ Map!Init
  BY InitLinear, KeySetsAreCounted, MapInitLinear, Zenon DEF MapInit
<1>4. LInv /\ RefInv => RefEntryStays
  BY Zenon DEF LInv, UnlinkedAreEmpty, RefInv, RefOK, RefEntryStays
<1> QED  BY <1>1, <1>2, <1>3, <1>4, MapRunsTheSet, PTL DEF MapSpec

-----------------------------------------------------------------------------
(* The scan.                                                               *)

\* Every step keeps the invariants of the set and of the scan.
LEMMA ScanStep ==
  ASSUME IInv, ScanInv, [ScanNext]_<<vars, scan>>
  PROVE  /\ IInv' /\ ScanInv' /\ YieldsFresh
         /\ OneInserter /\ SInv /\ RInv /\ SkipInv => SInv' /\ RInv' /\ SkipInv'
<1>1. CASE ScanMoves
  BY <1>1, ScanMovesKeep, Zenon
<1>2. ASSUME NEW t \in Writers, WriterCall(t) \/ WriterStep(t)
      PROVE  /\ IInv' /\ ScanInv' /\ YieldsFresh
             /\ OneInserter /\ SInv /\ RInv /\ SkipInv => SInv' /\ RInv' /\ SkipInv'
  <2>1. t \in Thread /\ (Call(t) \/ Step(t)) /\ Next /\ YieldsFresh
    BY <1>2, WritersRunTheSet, Zenon DEF Next
  <2>2. IInv'
    BY <2>1, NextInv, Zenon
  <2>3. OthersStay(t)
    BY <2>1, StepsApart, Zenon
  <2>4. ScanInv'
    BY <1>2, <2>3, WriterScan, Zenon
  <2>5. ASSUME OneInserter, SInv, RInv, SkipInv PROVE SInv' /\ RInv' /\ SkipInv'
    <3>1. SInv' /\ RInv'
      BY <2>1, <2>2, <2>5, NextRepairs, NextReaches, Zenon
    <3>2. GrowsByInsert(t)
      BY <2>1, <2>2, <2>5, NodesChangeStep, KeptNodesGrowByInserts, Zenon
    <3>3. ResInv' /\ AboveInv'
      BY <2>1, <2>2, <2>5, OutcomeStep, AboveStep, Zenon DEF SkipInv
    <3>4. Call(t) => Idle(t)
      BY <2>1, IdleSteps, Zenon DEF KeepsNodes
    <3> QED  BY <1>2, <2>3, <2>5, <3>1, <3>2, <3>3, <3>4, WriterSkips, Zenon
  <2> QED  BY <2>1, <2>2, <2>4, <2>5, Zenon
<1> QED  BY <1>1, <1>2, Zenon DEF ScanNext, ScanMoves

\* The scan leaves the set's invariant alone, and keeps its own.
LEMMA ScanInvariance == ScanSpec => [](IInv /\ ScanInv)
<1>1. ScanInit => IInv /\ ScanInv
  BY InitInv, KeySetsAreCounted, ScanStarts, Zenon DEF ScanInit
<1>2. IInv /\ ScanInv /\ [ScanNext]_<<vars, scan>> => IInv' /\ ScanInv'
  BY ScanStep, Zenon
<1> QED  BY <1>1, <1>2, PTL DEF ScanSpec

\* Whatever any number of threads insert, remove, split, re-key, trim and attach
\* between two calls, no call of next or next_back yields an element that the scan
\* yielded before: not when a direction is handed a node again, and not when the
\* directions meet (install_front_batch, install_back_batch, next, next_back).
THEOREM ScanYieldsOnce == ScanSpec => YieldedOnce
<1>1. IInv /\ ScanInv /\ [ScanNext]_<<vars, scan>> => [YieldsFresh]_<<vars, scan>>
  BY ScanStep, Zenon
<1> QED  BY <1>1, ScanInvariance, PTL DEF ScanSpec, YieldedOnce, YieldsFresh

\* The promise documented above Iter, for every range and every writer: while one
\* thread does all the inserting, an element that was acknowledged before the scan
\* began and stays present is yielded, by one direction or the other, before a
\* cursor passes it and before the scan ends.
THEOREM ScanSkipsNothing == OneInserter => (ScanSpec => []NothingSkipped)
<1> SUFFICES ASSUME OneInserter PROVE ScanSpec => []NothingSkipped
  OBVIOUS
<1> DEFINE Skips == SInv /\ RInv /\ SkipInv
<1>1. ScanInit => Skips
  BY InitRepairs, InitReaches, KeySetsAreCounted, ScanStarts, Zenon DEF ScanInit
<1>2. (IInv /\ ScanInv) /\ Skips /\ [ScanNext]_<<vars, scan>> => Skips'
  BY ScanStep, Zenon
<1>3. (IInv /\ ScanInv) /\ Skips => NothingSkipped
  BY WaitingIsAhead, Zenon
<1> HIDE DEF Skips
<1> QED  BY <1>1, <1>2, <1>3, ScanInvariance, PTL DEF ScanSpec

-----------------------------------------------------------------------------
(* The export.                                                             *)

\* Sets of keys can be subtracted.
LEMMA DifferencesAreCounted == DifferencesCount
<1>1. IsFiniteSet(Key)
  BY FS_Interval, MaxKeyAssumption DEF Key
<1>2. ASSUME NEW c \in SUBSET Key, NEW d \in SUBSET c PROVE Cardinality(c \ d) = Cardinality(c) - Cardinality(d)
  <2>1. IsFiniteSet(c) /\ c \cap d = d
    BY <1>1, <1>2, FS_Subset, Zenon
  <2>2. Cardinality(c \ d) = Cardinality(c) - Cardinality(c \cap d)
    BY <2>1, FS_Difference, Zenon
  <2> QED  BY <2>1, <2>2, Zenon
<1> QED  BY <1>2, Zenon DEF DifferencesCount

\* The capacity leaves room for the value that follows a split, and the nodes
\* the set starts with keep to it, as from_topology makes sure.
NodesHaveRoom == Capacity > 1 /\ \A c \in Restored : \A n \in Node : Cardinality(c[n]) <= Capacity

\* Every step keeps the invariants of the set and of the export.
LEMMA ImageStep ==
  ASSUME OneInserter, IInv, SInv, RInv, ExportInv, KeptInv, [ImageNext]_<<vars, checkpoint>>
  PROVE  /\ IInv' /\ SInv' /\ RInv' /\ ExportInv' /\ KeptInv'
         /\ Capacity > 1 /\ CapInv /\ OrderInv => CapInv' /\ OrderInv'
<1>1. CASE ExportMoves
  <2>1. Walks({Exporter}) /\ ExportInv' /\ KeptInv'
    BY <1>1, ExporterWalks, ExporterCopies, Zenon DEF ExportInv
  <2>2. {Exporter} \in SUBSET (Thread \ Callers)
    BY ExporterAssumption, Zenon
  <2>3. IInv' /\ SInv' /\ RInv'
    BY <2>1, <2>2, WalkKeeps, Zenon
  <2>4. CapInv => CapInv'
    BY <2>1, Zenon DEF Walks, CapInv
  <2>5. CapInv /\ OrderInv => OrderInv'
    BY <1>1, ExporterOrders, Zenon
  <2> QED  BY <2>1, <2>3, <2>4, <2>5, Zenon
<1>2. ASSUME NEW t \in Thread, WriterBeside(t)
      PROVE  /\ IInv' /\ SInv' /\ RInv' /\ ExportInv' /\ KeptInv'
             /\ Capacity > 1 /\ CapInv /\ OrderInv => CapInv' /\ OrderInv'
  <2>1. (Call(t) \/ Step(t)) /\ Next /\ Exporter \in Thread \ {t}
    BY <1>2, ExporterAssumption, Zenon DEF WriterBeside, Next
  <2>2. IInv'
    BY <2>1, NextInv, Zenon
  <2>3. SInv' /\ RInv'
    BY <2>1, <2>2, NextRepairs, NextReaches, Zenon
  <2>4. OthersStay(t) /\ NodesChange(t)
    BY <2>1, <2>2, StepsApart, NodesChangeStep, Zenon
  <2>5. GrowsByInsert(t)
    BY <2>4, KeptNodesGrowByInserts, Zenon
  <2>6. Confined(t)
    <3> SUFFICES ASSUME stage = "copying" PROVE topo' = topo /\ \A n \in Node : contents'[n] = contents[n] \/ n = node[t]
      BY Zenon DEF Confined
    <3>1. pc[Exporter] \in Reading
      BY Zenon DEF ExportInv, ExportWalk, Reading
    <3> QED  BY <2>1, <3>1, ReadersKeepTheIndex, Zenon
  <2>7. ExportInv' /\ (OrderInv => OrderInv')
    BY <1>2, <2>4, <2>6, WriterCopies, Zenon
  <2>8. KeptInv'
    BY <1>2, <2>5, <2>6, WriterStays, Zenon
  <2>9. Capacity > 1 /\ CapInv => CapInv'
    BY <2>2, <2>4, NodesKeepToCapacity, DifferencesAreCounted, Zenon DEF OneInserter, RInv
  <2> QED  BY <2>2, <2>3, <2>7, <2>8, <2>9, Zenon
<1> QED  BY <1>1, <1>2, Zenon DEF ImageNext, ExportMoves, WriterBeside

\* A checkpoint loses nothing: while one thread does all the inserting, whatever
\* was acknowledged before an export began and is still there when it ends is in
\* the image, although the nodes are copied at different moments, while removes
\* and inserts go on inside them and splits and re-keys are pending
\* (export_topology, snapshot_nodes).
THEOREM ExportsKeepWhatStays == OneInserter => (ImageSpec => []ExportKeepsWhatStays)
<1> SUFFICES ASSUME OneInserter PROVE ImageSpec => []ExportKeepsWhatStays
  OBVIOUS
<1> DEFINE Inv == IInv /\ SInv /\ RInv /\ ExportInv /\ KeptInv
<1>1. ImageInit => Inv
  BY InitInv, KeySetsAreCounted, InitRepairs, InitReaches, ExportStarts, Zenon DEF ImageInit
<1>2. Inv /\ [ImageNext]_<<vars, checkpoint>> => Inv'
  BY ImageStep, Zenon
<1>3. Inv => ExportKeepsWhatStays
  BY ExportKeeps, Zenon
<1> HIDE DEF Inv
<1> QED  BY <1>1, <1>2, <1>3, PTL DEF ImageSpec

\* A checkpoint can be restored: under the same condition, an export that runs
\* beside any number of writers gives an image that from_topology accepts: no node
\* of it is empty, oversized, unsorted or overlaps the next, wherever routing keys
\* are stale while it is taken.  With a capacity of one element a split overfills
\* a node, and the image is refused.
THEOREM ExportsAreRestorable == OneInserter /\ NodesHaveRoom => (ImageSpec => []ExportIsRestorable)
<1> SUFFICES ASSUME OneInserter, NodesHaveRoom PROVE ImageSpec => []ExportIsRestorable
  OBVIOUS
<1> DEFINE Inv == IInv /\ SInv /\ RInv /\ ExportInv /\ KeptInv /\ CapInv /\ OrderInv
<1>1. ImageInit => Inv
  BY InitInv, KeySetsAreCounted, InitRepairs, InitReaches, ExportStarts, Zenon DEF ImageInit, NodesHaveRoom
<1>2. Inv /\ [ImageNext]_<<vars, checkpoint>> => Inv'
  BY ImageStep, Zenon DEF NodesHaveRoom
<1>3. Inv => ExportIsRestorable
  BY ExportKeeps, Zenon
<1> HIDE DEF Inv
<1> QED  BY <1>1, <1>2, <1>3, PTL DEF ImageSpec

-----------------------------------------------------------------------------
(* The capacity.                                                           *)

\* No node overflows, however many threads insert and remove: a node that is found
\* full takes the value only in a split, which adds it to a half without looking at
\* the capacity again, long after the node was found full (put_checked_inner,
\* Operation::commit).  Nodes attached meanwhile are as large as their callers make
\* them, so there are none.
THEOREM NoNodeOverflows == Attachers = {} /\ NodesHaveRoom => (Spec => []CapInv)
<1> SUFFICES ASSUME Attachers = {}, NodesHaveRoom PROVE Spec => []CapInv
  OBVIOUS
<1>1. Init => CallerInv /\ CapInv
  BY InitReaches, KeySetsAreCounted, Zenon DEF RInv, Init, CapInv, NodesHaveRoom
<1>2. IInv /\ SInv /\ IInv' /\ CallerInv /\ CapInv /\ [Next]_vars => CallerInv' /\ CapInv'
  <2> SUFFICES ASSUME IInv, SInv, IInv', CallerInv, CapInv, [Next]_vars PROVE CallerInv' /\ CapInv'
    OBVIOUS
  <2>1. CallerInv'
    BY CallersStep, Zenon
  <2>2. ASSUME NEW t \in Thread, Call(t) \/ Step(t) PROVE CapInv'
    BY <2>2, NodesChangeStep, NodesKeepToCapacity, DifferencesAreCounted, Zenon DEF NodesHaveRoom
  <2>3. CASE UNCHANGED vars
    <3>1. contents' = contents
      BY <2>3, Zenon DEF vars, shared
    <3> QED  BY <2>1, <3>1, Zenon DEF CapInv
  <2> QED  BY <2>1, <2>2, <2>3, Zenon DEF Next
<1> QED  BY <1>1, <1>2, RepairInvariance, PTL DEF Spec
=============================================================================
