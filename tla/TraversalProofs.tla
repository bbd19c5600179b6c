--------------------------- MODULE TraversalProofs ---------------------------
(***************************************************************************)
(* What the walks over the concurrent set keep, one step at a time: the    *)
(* double-ended scan of Scan and the export of TopologyImage.  Both walk   *)
(* beside the writers of ConcurrentSet, whose invariants they leave alone. *)
(***************************************************************************)
EXTENDS Scan, TopologyImage, ConcurrentInvariants, TLAPS

-----------------------------------------------------------------------------
(* The inductive invariant of the scan.                                    *)

\* The directions make no calls of the set; the constructor's guard is Front's.
WalkInv ==
  \A d \in Direction :
    op[d] = None /\ pc[d] = IF d = Front /\ phase \in Constructing THEN "walk" ELSE "idle"

ScanTypes ==
  /\ phase \in Constructing \cup {"none", "idle", "done"} \cup Direction
  /\ bounds \in [group : Nat \ {0}, start : Bound, end : Bound]
  /\ cursor \in [Direction -> Key \cup {None}]
  /\ batch \in [Direction -> SUBSET Key]
  /\ taken \in [Direction -> Nat \cup {None}]
  /\ limit \in [Direction -> Nat \ {0}]
  /\ met \in BOOLEAN
  /\ yielded \in SUBSET Key

\* Direction d has gone past x.
Passed(d, x) == cursor[d] # None /\ ~Ahead(d, x, cursor[d])

\* What has been yielded lies behind one of the cursors.
YieldInv ==
  /\ phase \in Constructing \cup {"none"} => yielded = {}
  /\ \A x \in yielded : \E d \in Direction : Passed(d, x)

\* An element that stayed, belongs to the range and is still to be yielded.
Waiting(x) == x \in kept /\ InBounds(x) /\ x \notin yielded

\* A batch holds everything that waits up to its last element.
Closed(d, b) == \A x \in Key : Waiting(x) => \A y \in b : ~Ahead(d, x, y) => x \in b

\* Of the node that direction d finished only the batch waits.
Emptied(d, b) ==
  taken[d] = None /\ node[d] # None => \A x \in contents[node[d]] : Waiting(x) => x \in b

Over == met \/ phase = "done"

\* Before the scan, after its end, and between two batches.
RestInv ==
  /\ phase = "none" => /\ kept = {} /\ met = FALSE
                       /\ \A d \in Direction :
                            cursor[d] = None /\ batch[d] = {} /\ taken[d] = None /\ node[d] = None
  /\ phase \in Direction => batch[phase] = {}
  /\ \A d \in Direction : cursor[d] = None /\ phase # "done" => taken[d] = None

\* Nothing waits behind a cursor, in a finished node but outside the batch, or
\* after the end.
WaitInv ==
  /\ \A x \in Key : Waiting(x) => ~Over /\ \A d \in Direction : ~Passed(d, x)
  /\ \A d \in Direction : Closed(d, batch[d]) /\ Emptied(d, batch[d])

\* What stayed is stored in linked nodes, by inserts that are acknowledged.
StayInv == kept \subseteq Acknowledged

-----------------------------------------------------------------------------
(* A walk beside the writers.                                              *)

\* Keys are integers.
LEMMA IntegerKeys == \A i \in Key : i \in Int
BY MaxKeyAssumption, SMTT(60) DEF Key

\* The threads of W walk: they hold the structural read guard or no lock, and
\* keep a node; index, nodes and everybody else's variables stay.
Walks(W) ==
  /\ topo' = topo /\ root' = root /\ odd' = odd /\ unmoved' = unmoved /\ contents' = contents
  /\ op' = op /\ arg' = arg /\ key' = key /\ retries' = retries /\ res' = res
  /\ DOMAIN pc' = Thread /\ node' \in [Thread -> Node \cup {None}]
  /\ \A t \in Thread \ W : pc'[t] = pc[t] /\ node'[t] = node[t]
  /\ \A w \in W : op[w] = None /\ pc'[w] \in {"idle", "walk"}
  /\ \A w \in W : pc'[w] = "walk" => pc[w] = "walk" \/ CanReadTopology

\* It disturbs none of the invariants of the set.
LEMMA WalkKeeps ==
  ASSUME NEW W \in SUBSET (Thread \ Callers), IInv, Walks(W)
  PROVE  /\ IInv' /\ (SInv => SInv') /\ (RInv => RInv')
         /\ (ResInv => ResInv') /\ (AboveInv => AboveInv')
<1> USE Zenon
<1> DEFINE Still(t) == pc'[t] = pc[t] /\ node'[t] = node[t]
           Walking(t) == /\ pc[t] \in {"idle", "walk"} /\ pc'[t] \in {"idle", "walk"}
                         /\ op[t] = None /\ t \notin Callers
<1>1. \A t \in Thread : Still(t) \/ Walking(t)
  BY DEF Walks, IInv, TypeOK, ThreadOK
<1>2. /\ topo' = topo /\ root' = root /\ odd' = odd /\ unmoved' = unmoved /\ contents' = contents
      /\ op' = op /\ arg' = arg /\ key' = key /\ retries' = retries /\ res' = res
  BY DEF Walks
<1>3. TypeOK'
  <2>1. \A t \in Thread : ThreadOK(t) => ThreadOK(t)'
    <3> SUFFICES ASSUME NEW t \in Thread, ThreadOK(t) PROVE ThreadOK(t)'
      OBVIOUS
    <3>1. CASE Still(t)
      BY <1>2, <3>1 DEF ThreadOK
    <3>2. CASE Walking(t)
      BY <1>2, <3>2 DEF ThreadOK, AtNode, AtEntry
    <3> QED  BY <1>1, <3>1, <3>2
  <2> QED  BY <1>2, <2>1 DEF IInv, TypeOK, Walks
<1>4. PublicationInvariant'
  <2>1. \A t \in Thread : pc[t] = "dirty" => pc'[t] = "dirty"
    BY <1>1
  <2> QED  BY <1>2, <2>1 DEF IInv, PublicationInvariant
<1>5. \A t \in Thread : /\ pc'[t] \in Writing <=> pc[t] \in Writing
                        /\ pc'[t] \in Publishing <=> pc[t] \in Publishing
  BY <1>1 DEF Writing, Publishing
<1>6. LockInv'
  <2>1. ASSUME NEW t \in Thread, NEW u \in Thread, t # u, pc'[t] \in Writing
        PROVE  pc'[u] \notin Writing \cup Reading
    <3>1. pc[t] \in Writing /\ pc[u] \notin Writing \cup Reading
      BY <1>5, <2>1 DEF IInv, LockInv
    <3>2. ~CanReadTopology
      BY <3>1 DEF CanReadTopology, TopologyWriters, Writing
    <3> QED  BY <1>1, <3>1, <3>2 DEF Walks, Writing, Publishing, Reading
  <2>2. odd' <=> \E t \in Thread : pc'[t] \in Publishing
    BY <1>2, <1>5 DEF IInv, LockInv
  <2> QED  BY <1>2, <2>1, <2>2 DEF IInv, LockInv
<1>7. ReaderInv'
  <2>1. \A t \in unmoved : t \in Thread
    BY DEF IInv, TypeOK
  <2> SUFFICES ASSUME NEW t \in unmoved, pc'[t] \in {"get_lock", "get_check"}
               PROVE  RoutedBy(root, arg[t], node'[t])
    BY <1>2 DEF ReaderInv, RoutedBy
  <2>2. Still(t)
    BY <1>1, <2>1
  <2> QED  BY <2>2 DEF IInv, ReaderInv
<1>8. IInv'
  BY <1>3, <1>4, <1>6, <1>7 DEF IInv, KeySetsCount
<1>9. SInv => SInv'
  <2>1. HeldInv => HeldInv'
    BY <1>1, <1>2 DEF HeldInv, Held, EntryIsCurrent
  <2>2. \A t \in Thread : \A n, k : Repairs(t, n, k) => Repairs(t, n, k)'
    BY <1>1, <1>2 DEF Repairs, Repairing
  <2>3. \A k, n : EntryRepaired(k, n) => EntryRepaired(k, n)'
    BY <1>2, <2>2 DEF EntryRepaired
  <2> QED  BY <1>2, <2>1, <2>3 DEF SInv, RepairInv
<1>10. RInv => RInv'
  <2>1. SplitInv => SplitInv'
    BY <1>1, <1>2 DEF SplitInv, Splitting, SplitOK
  <2> QED  BY <1>2, <2>1 DEF RInv, CallerInv
<1>11. ResInv => ResInv'
  BY <1>1, <1>2 DEF ResInv, ResOK, Pending, Undecided, Decided
<1>12. AboveInv => AboveInv'
  BY <1>1, <1>2 DEF AboveInv, OwnAbove, Repairing
<1> QED  BY <1>8, <1>9, <1>10, <1>11, <1>12

-----------------------------------------------------------------------------
(* The scan: steps of the writers.                                         *)

\* What holds of a scan beside any writers, and beside one inserting thread.
ScanInv == WalkInv /\ ScanTypes /\ YieldInv

SkipInv == ResInv /\ AboveInv /\ StayInv /\ RestInv /\ WaitInv

\* A writer's step leaves the scan's own variables alone.
LEMMA WriterScan ==
  ASSUME ScanInv, NEW t \in Writers, WriterCall(t) \/ WriterStep(t), OthersStay(t)
  PROVE  ScanInv'
<1> USE Zenon
<1>1. Direction \subseteq Thread \ {t}
  BY DirectionAssumption DEF Writers
<1>2. UNCHANGED <<phase, bounds, cursor, batch, taken, limit, met, yielded>>
  BY DEF WriterCall, WriterStep
<1>3. WalkInv'
  BY <1>1, <1>2 DEF ScanInv, WalkInv, OthersStay
<1>4. ScanTypes' /\ YieldInv'
  BY <1>2 DEF ScanInv, ScanTypes, YieldInv, Passed
<1> QED  BY <1>3, <1>4 DEF ScanInv

\* Nor does it make anything wait that did not.
LEMMA WriterSkips ==
  ASSUME IInv, ScanInv, SkipInv, NEW t \in Writers, WriterCall(t) \/ WriterStep(t),
         OthersStay(t), GrowsByInsert(t), Call(t) => Idle(t), ResInv', AboveInv'
  PROVE  SkipInv'
<1> USE Zenon
<1>1. t \in Thread /\ Direction \subseteq Thread \ {t} /\ (Call(t) \/ Step(t))
  BY DirectionAssumption DEF Writers, WriterCall, WriterStep
<1>2. OthersStay(t)
  OBVIOUS
<1>3. UNCHANGED <<phase, bounds, cursor, batch, taken, limit, met, yielded>>
  BY DEF WriterCall, WriterStep
<1>5. Call(t) \/ kept' \subseteq Acknowledged'
  BY DEF WriterCall, WriterStep
<1>6. kept' \subseteq kept /\ (Call(t) => kept' = kept \/ kept' \subseteq Acknowledged')
  BY DEF WriterCall, WriterStep
<1>7. ASSUME Call(t) PROVE contents' = contents /\ Acknowledged \subseteq Acknowledged'
  <2>1. Idle(t) /\ res' = res /\ pc[t] = "idle"
    BY <1>7 DEF Call
  <2>2. res[t] = None
    BY <1>1, <2>1 DEF SkipInv, ResInv, ResOK, Undecided
  <2>3. \A u \in Thread : op'[u] = "insert" /\ res'[u] = TRUE
                            => op[u] = "insert" /\ res[u] = TRUE /\ arg'[u] = arg[u]
    BY <2>1, <2>2, NoneAssumption DEF Idle, OthersStay
  <2>4. contents' = contents /\ Linked' = Linked
    BY <2>1 DEF Idle, Linked
  <2> QED  BY <2>3, <2>4 DEF Acknowledged
<1>8. StayInv'
  BY <1>5, <1>6, <1>7 DEF SkipInv, StayInv
<1>9. RestInv'
  BY <1>1, <1>2, <1>3, <1>6 DEF SkipInv, RestInv, OthersStay
<1>10. \A x : Waiting(x)' => Waiting(x)
  BY <1>3, <1>6 DEF Waiting, InBounds, View
<1>11. ASSUME NEW d \in Direction PROVE Emptied(d, batch[d])'
  <2> SUFFICES ASSUME taken'[d] = None, node'[d] # None, NEW x \in contents'[node'[d]], Waiting(x)'
               PROVE  x \in batch'[d]
    BY DEF Emptied
  <2>1. d \in Thread /\ node'[d] = node[d] /\ node[d] \in Node /\ taken[d] = None /\ batch'[d] = batch[d]
    BY <1>1, <1>2, <1>3 DEF OthersStay, IInv, TypeOK
  <2>2. x \in contents[node[d]]
    <3>1. CASE Call(t)
      BY <1>7, <2>1, <3>1
    <3>2. CASE ~Call(t)
      <4>1. x \in Acknowledged'
        BY <1>5, <3>2 DEF Waiting
      <4>2. ~(op[t] = "insert" /\ op' = op /\ arg' = arg /\ x = arg[t] /\ res'[t] = TRUE)
        BY <1>1, <4>1 DEF Acknowledged
      <4> QED  BY <2>1, <4>2 DEF GrowsByInsert
    <3> QED  BY <3>1, <3>2
  <2> QED  BY <1>10, <2>1, <2>2 DEF SkipInv, WaitInv, Emptied
<1>12. \A d \in Direction : Closed(d, batch[d])'
  BY <1>3, <1>10 DEF SkipInv, WaitInv, Closed
<1>13. \A x \in Key : Waiting(x)' => ~Over' /\ \A d \in Direction : ~Passed(d, x)'
  BY <1>3, <1>10 DEF SkipInv, WaitInv, Over, Passed
<1> QED  BY <1>8, <1>9, <1>11, <1>12, <1>13 DEF SkipInv, WaitInv

-----------------------------------------------------------------------------
(* The scan: its own steps, whatever the writers do.                       *)

\* There are two directions.
LEMMA OtherDirection ==
  ASSUME NEW d \in Direction
  PROVE  Other(d) \in Direction /\ Other(d) # d /\ \A e \in Direction : e = d \/ e = Other(d)
<1>1. Front # Back
  BY DirectionAssumption, Zenon
<1>2. CASE d = Front
  BY <1>1, <1>2, Zenon DEF Other, Direction
<1>3. CASE d = Back
  BY <1>1, <1>3, Zenon DEF Other, Direction
<1> QED  BY <1>2, <1>3, Zenon DEF Direction

\* They meet the elements in opposite orders.
LEMMA AheadOrder ==
  ASSUME NEW d \in Direction, NEW x \in Int, NEW y \in Int
  PROVE  /\ ~Ahead(d, x, x) /\ (Ahead(d, x, y) \/ Ahead(d, y, x) \/ x = y)
         /\ \A z \in Int : Ahead(d, x, y) /\ Ahead(d, y, z) => Ahead(d, x, z)
         /\ (Ahead(Other(d), x, y) <=> Ahead(d, y, x))
<1>1. /\ ~Ahead(d, x, x) /\ (Ahead(d, x, y) \/ Ahead(d, y, x) \/ x = y)
      /\ \A z \in Int : Ahead(d, x, y) /\ Ahead(d, y, z) => Ahead(d, x, z)
  BY SMT DEF Ahead
<1>2. Ahead(Other(d), x, y) <=> Ahead(d, y, x)
  BY DirectionAssumption, SMT DEF Ahead, Other, Direction
<1> QED  BY <1>1, <1>2, Zenon

\* What next does with a batch: the item it yields lies ahead of both cursors,
\* where nothing has been yielded.
LEMMA ConsumeYields ==
  ASSUME ScanTypes, YieldInv, NEW d \in Direction, phase \in {"idle", d}, NEW b \in SUBSET Key, Consume(d, b)
  PROVE  /\ phase' \in {"idle", "done", d} /\ phase' \notin Constructing \cup {"none"}
         /\ cursor' \in [Direction -> Key \cup {None}] /\ batch' \in [Direction -> SUBSET Key]
         /\ met' \in BOOLEAN /\ yielded' \in SUBSET Key /\ YieldInv'
         /\ \A e \in Direction : cursor'[e] # cursor[e] => cursor'[e] \notin yielded
<1> USE Zenon
<1> DEFINE fresh == {x \in b : cursor[d] = None \/ Ahead(d, x, cursor[d])}
<1>1. fresh \in SUBSET Key /\ cursor \in [Direction -> Key \cup {None}] /\ batch \in [Direction -> SUBSET Key]
      /\ met \in BOOLEAN /\ yielded \in SUBSET Key /\ \A x \in yielded : \E e \in Direction : Passed(e, x)
  BY DEF ScanTypes, YieldInv
<1>2. phase' \in {"idle", "done", d}
  BY DEF Consume
<1>3. phase' \notin Constructing \cup {"none"}
  BY <1>2, DirectionAssumption DEF Constructing
<1>4. \/ UNCHANGED <<cursor, yielded>> /\ (met' = met \/ met' = TRUE) /\ \E c \in SUBSET fresh : batch' = [batch EXCEPT ![d] = c]
      \/ \E x \in fresh : /\ cursor' = [cursor EXCEPT ![d] = x] /\ yielded' = yielded \cup {x} /\ ~Crosses(d, x)
                          /\ met' = met /\ \E c \in SUBSET fresh : batch' = [batch EXCEPT ![d] = c]
  BY DEF Consume, Nearest
<1> HIDE DEF fresh
<1>5. batch' \in [Direction -> SUBSET Key] /\ met' \in BOOLEAN
  BY <1>1, <1>4
<1>6. CASE UNCHANGED <<cursor, yielded>>
  BY <1>1, <1>2, <1>3, <1>5, <1>6 DEF YieldInv, Passed
<1>7. ASSUME NEW x \in fresh, cursor' = [cursor EXCEPT ![d] = x], yielded' = yielded \cup {x}, ~Crosses(d, x)
      PROVE  /\ cursor' \in [Direction -> Key \cup {None}] /\ yielded' \in SUBSET Key /\ YieldInv'
             /\ \A e \in Direction : cursor'[e] # cursor[e] => cursor'[e] \notin yielded
  <2>1. /\ cursor' \in [Direction -> Key \cup {None}] /\ yielded' \in SUBSET Key /\ x \in Key /\ x # None
        /\ cursor'[d] = x /\ \A e \in Direction : e # d => cursor'[e] = cursor[e]
    BY <1>1, <1>7, NoneAssumption
  <2>2. ~Passed(d, x)
    BY <1>7 DEF Passed, fresh
  <2>3. ~Passed(Other(d), x)
    BY <1>7 DEF Passed, Crosses
  <2>4. x \notin yielded
    BY <1>1, <2>2, <2>3, OtherDirection
  <2>5. ASSUME NEW y \in yielded' PROVE \E e \in Direction : Passed(e, y)'
    <3>1. CASE y = x
      BY <2>1, <3>1, AheadOrder, IntegerKeys DEF Passed
    <3>2. CASE y \in yielded
      <4>1. PICK e \in Direction : Passed(e, y)
        BY <1>1, <3>2
      <4>2. y \in Int /\ x \in Int /\ (cursor[d] # None => cursor[d] \in Int)
        BY <1>1, <2>1, <3>2, IntegerKeys
      <4>3. CASE e # d
        BY <2>1, <4>1, <4>3 DEF Passed
      <4>4. CASE e = d
        <5>1. cursor[d] # None /\ Ahead(d, x, cursor[d]) /\ ~Ahead(d, y, cursor[d])
          BY <1>7, <4>1, <4>4 DEF Passed, fresh
        <5>2. ~Ahead(d, y, x)
          BY <4>2, <5>1, AheadOrder
        <5> QED  BY <2>1, <5>2 DEF Passed
      <4> QED  BY <4>3, <4>4
    <3> QED  BY <1>7, <3>1, <3>2
  <2> QED  BY <1>3, <2>1, <2>4, <2>5 DEF YieldInv
<1> QED  BY <1>2, <1>3, <1>4, <1>5, <1>6, <1>7

\* The scan's choices of nodes are entries of the index.
LEMMA EntriesAreKeys ==
  /\ StartEntry \subseteq Keys /\ EndEntry \subseteq Keys
  /\ \A d \in Direction : Entry(d) \subseteq Keys
<1> USE DEF Least, Greatest, Zenon
<1>1. StartEntry \subseteq Keys
  BY DEF StartEntry
<1>2. EndEntry \subseteq Keys
  BY DEF EndEntry
<1>3. FrontEntry \subseteq Keys /\ BackEntry \subseteq Keys
  BY DEF FrontEntry, BackEntry
<1> QED  BY <1>1, <1>2, <1>3 DEF Entry

\* What nodes under entries hold are keys.
LEMMA EntryTypes ==
  ASSUME IInv
  PROVE  Keys \subseteq Key /\ \A k \in Keys : topo.index[k] \in Node /\ contents[topo.index[k]] \in SUBSET Key
<1> USE Zenon
<1>1. topo \in Topologies /\ contents \in [Node -> SUBSET Key]
  BY DEF IInv, TypeOK
<1>2. topo.index \in PartialFunctions(Key, Node)
  BY <1>1, SMT DEF Topologies
<1>3. Keys \subseteq Key /\ topo.index \in [Keys -> Node]
  BY <1>2 DEF Keys, PartialFunctions
<1> QED  BY <1>1, <1>3

\* A step that only moves the scan on.
LEMMA ScanOnly ==
  ASSUME IInv, WalkInv, UNCHANGED vars
  PROVE  Walks(Direction)
<1> USE Zenon
<1>1. /\ topo' = topo /\ root' = root /\ odd' = odd /\ unmoved' = unmoved /\ contents' = contents
      /\ pc' = pc /\ op' = op /\ arg' = arg /\ node' = node /\ key' = key /\ retries' = retries /\ res' = res
  BY DEF vars, shared, locals
<1> QED  BY <1>1, DirectionAssumption DEF Walks, WalkInv, IInv, TypeOK

\* One step of a constructor leaves a key, or nothing, in one of the cursors.
LEMMA SentinelTypes ==
  ASSUME ScanTypes, NEW d \in Direction, NEW found \in SUBSET Key,
         NEW otherwise \in Constructing, NEW next \in Constructing, Sentinel(d, found, otherwise, next)
  PROVE  phase' \in Constructing /\ cursor' \in [Direction -> Key \cup {None}]
BY Zenon DEF Sentinel, ScanTypes

\* The constructors yield nothing, and keep to the types.
LEMMA ConstructTypes ==
  ASSUME IInv, ScanInv, Construct
  PROVE  Walks(Direction) /\ ScanInv' /\ phase \in Constructing \cup {"none"}
<1> USE Zenon
<1>1. WalkInv /\ ScanTypes /\ (phase \in Constructing \cup {"none"} => yielded = {})
  BY DEF ScanInv, YieldInv
<1>2. ASSUME UNCHANGED <<vars, batch, taken, limit, met, yielded, bounds>>, phase \in Constructing,
             phase' \in Constructing, cursor' \in [Direction -> Key \cup {None}]
      PROVE  Walks(Direction) /\ ScanInv' /\ phase \in Constructing \cup {"none"}
  <2>1. Walks(Direction)
    BY <1>1, <1>2, ScanOnly
  <2>2. WalkInv'
    BY <1>1, <1>2 DEF WalkInv, vars, locals
  <2>3. ScanTypes' /\ YieldInv'
    BY <1>1, <1>2 DEF ScanTypes, YieldInv
  <2> QED  BY <1>2, <2>1, <2>2, <2>3 DEF ScanInv
<1>3. CASE IterNew
  <2>1. Walks(Direction)
    BY <1>1, <1>3, ScanOnly DEF IterNew
  <2>2. WalkInv'
    BY <1>1, <1>3 DEF WalkInv, vars, locals, IterNew, Constructing
  <2>3. Everything \in [group : Nat \ {0}, start : Bound, end : Bound]
    BY SMT DEF Everything, Bound
  <2>4. ScanTypes' /\ YieldInv'
    BY <1>1, <1>3, <2>3 DEF ScanTypes, YieldInv, IterNew, Constructing
  <2> QED  BY <1>3, <2>1, <2>2, <2>4 DEF ScanInv, IterNew
<1>4. CASE RangeNew
  <2>1. UNCHANGED <<topo, root, odd, unmoved, contents, op, arg, node, key, retries, res>>
        /\ CanReadTopology /\ Goto(Front, "walk") /\ phase = "none" /\ phase' = "new_front"
    BY <1>4 DEF RangeNew, shared
  <2>2. DOMAIN pc = Thread /\ Front \in Direction /\ Direction \subseteq Thread
    BY DirectionAssumption DEF IInv, TypeOK, Direction
  <2>3. pc'[Front] = "walk" /\ DOMAIN pc' = Thread /\ \A t \in Thread \ {Front} : pc'[t] = pc[t]
    BY <2>1, <2>2 DEF Goto
  <2>4. Walks(Direction)
    BY <1>1, <2>1, <2>2, <2>3 DEF Walks, WalkInv, IInv, TypeOK, Constructing
  <2>5. WalkInv'
    BY <1>1, <2>1, <2>2, <2>3 DEF WalkInv, Constructing
  <2>6. bounds' \in [group : Nat \ {0}, start : Bound, end : Bound] /\ met' \in BOOLEAN
    <3>1. PICK b \in ScanBounds : bounds' = b /\ met' = Inverted(b)
      BY <1>4 DEF RangeNew
    <3>2. Inverted(b) \in BOOLEAN
      BY SMT DEF Inverted
    <3> QED  BY <3>1, <3>2, BoundsAssumption
  <2>7. ScanTypes' /\ YieldInv'
    BY <1>1, <1>4, <2>1, <2>6 DEF ScanTypes, YieldInv, RangeNew, Constructing
  <2> QED  BY <2>1, <2>4, <2>5, <2>7 DEF ScanInv
<1>5. CASE NewFront \/ NewPreFront \/ NewBack \/ NewNextBack
  <2>1. Front \in Direction /\ Back \in Direction
    BY DEF Direction
  <2>3. ASSUME NEW S \in SUBSET Key PROVE Greatest(S) \in SUBSET Key /\ Least(S) \in SUBSET Key
    BY DEF Greatest, Least
  <2>4. phase \in Constructing /\ phase' \in Constructing /\ cursor' \in [Direction -> Key \cup {None}]
    <3>1. CASE NewFront
      <4>1. UNION {BeforeStart(contents[topo.index[k]], bounds.start) : k \in StartEntry} \in SUBSET Key
        BY EntriesAreKeys, EntryTypes DEF BeforeStart
      <4> QED  BY <1>1, <2>1, <2>3, <3>1, <4>1, SentinelTypes DEF NewFront, Constructing
    <3>2. CASE NewPreFront
      <4>1. UNION {Greatest(contents[topo.index[j]]) : j \in Greatest({j \in Keys : \E k \in StartEntry : j < k})}
              \in SUBSET Key
        BY EntryTypes DEF Greatest
      <4> QED  BY <1>1, <2>1, <3>2, <4>1, SentinelTypes DEF NewPreFront, Constructing
    <3>3. CASE NewBack
      <4>1. UNION {AfterEnd(contents[topo.index[k]], bounds.end) : k \in EndEntry} \in SUBSET Key
        BY EntriesAreKeys, EntryTypes DEF AfterEnd
      <4> QED  BY <1>1, <2>1, <2>3, <3>3, <4>1, SentinelTypes DEF NewBack, Constructing
    <3>4. CASE NewNextBack
      <4>1. UNION {Least(contents[topo.index[j]]) : j \in Least({j \in Keys : \E k \in EndEntry : j > k})}
              \in SUBSET Key
        BY EntryTypes DEF Least
      <4> QED  BY <1>1, <2>1, <3>4, <4>1, SentinelTypes DEF NewNextBack, Constructing
    <3> QED  BY <1>5, <3>1, <3>2, <3>3, <3>4
  <2> QED  BY <1>2, <1>5, <2>4 DEF NewFront, NewPreFront, NewBack, NewNextBack
<1>6. CASE NewEnds
  <2>1. UNCHANGED <<topo, root, odd, unmoved, contents, op, arg, node, key, retries, res>>
        /\ Goto(Front, "idle") /\ phase = "new_ends" /\ phase' = "idle"
        /\ UNCHANGED <<bounds, cursor, batch, taken, limit, yielded>>
    BY <1>6 DEF NewEnds, shared
  <2>2. DOMAIN pc = Thread /\ Front \in Direction /\ Direction \subseteq Thread
    BY DirectionAssumption DEF IInv, TypeOK, Direction
  <2>3. pc'[Front] = "idle" /\ DOMAIN pc' = Thread /\ \A t \in Thread \ {Front} : pc'[t] = pc[t]
    BY <2>1, <2>2 DEF Goto
  <2>4. Walks(Direction)
    BY <1>1, <2>1, <2>2, <2>3 DEF Walks, WalkInv, IInv, TypeOK, Constructing
  <2>5. WalkInv'
    BY <1>1, <2>1, <2>2, <2>3 DEF WalkInv, Constructing
  <2>6. met' \in BOOLEAN
    BY <1>6, SMT DEF NewEnds
  <2>7. ScanTypes' /\ YieldInv'
    BY <1>1, <2>1, <2>6 DEF ScanTypes, YieldInv, Constructing
  <2> QED  BY <2>1, <2>4, <2>5, <2>7 DEF ScanInv, Constructing
<1> QED  BY <1>3, <1>4, <1>5, <1>6 DEF Construct

\* The limit doubles up to MAX_BATCH and is never zero.
LEMMA LimitGrows ==
  ASSUME NEW m \in Nat \ {0}
  PROVE  Min({2 * m, MaxBatch}) \in Nat \ {0}
<1>1. MaxBatch \in Nat \ {0}
  BY BatchAssumption, Zenon
<1>2. \E x \in {2 * m, MaxBatch} : \A y \in {2 * m, MaxBatch} : x <= y
  BY <1>1, SMT
<1>3. Min({2 * m, MaxBatch}) \in {2 * m, MaxBatch}
  BY <1>2, Zenon DEF Min
<1> QED  BY <1>1, <1>3, SMT

\* next and next_back yield nothing a second time.
LEMMA AdvanceYields ==
  ASSUME IInv, ScanInv, NEW d \in Direction, Advance(d)
  PROVE  /\ Walks(Direction) /\ ScanInv' /\ phase \in {"idle", d}
         /\ \A e \in Direction : cursor'[e] # cursor[e] => cursor'[e] \notin yielded
<1> USE Zenon
<1>1. WalkInv /\ ScanTypes /\ YieldInv /\ phase \in {"idle", d} /\ phase \notin Constructing /\ d \in Thread
      /\ d \notin Constructing \cup {"none", "idle", "done"}
  BY DirectionAssumption DEF ScanInv, Advance, NextItem, Install, Constructing
<1>2. /\ bounds \in [group : Nat \ {0}, start : Bound, end : Bound] /\ batch \in [Direction -> SUBSET Key]
      /\ taken \in [Direction -> Nat \cup {None}] /\ limit \in [Direction -> Nat \ {0}]
  BY <1>1 DEF ScanTypes
<1>3. CASE NextItem(d)
  <2>1. UNCHANGED <<vars, bounds, taken, limit>>
    BY <1>3 DEF NextItem
  <2>2. Walks(Direction)
    BY <1>1, <2>1, ScanOnly
  <2>3. CASE met /\ phase' = "done" /\ UNCHANGED <<cursor, batch, met, yielded>>
    <3>1. WalkInv'
      BY <1>1, <2>1, <2>3 DEF WalkInv, vars, locals, Constructing
    <3>2. ScanTypes' /\ YieldInv'
      BY <1>1, <2>1, <2>3 DEF ScanTypes, YieldInv, Passed, Constructing
    <3> QED  BY <1>1, <2>2, <2>3, <3>1, <3>2 DEF ScanInv
  <2>4. CASE Consume(d, batch[d])
    <3>1. /\ phase' \in {"idle", "done", d} /\ phase' \notin Constructing \cup {"none"}
          /\ cursor' \in [Direction -> Key \cup {None}] /\ batch' \in [Direction -> SUBSET Key]
          /\ met' \in BOOLEAN /\ yielded' \in SUBSET Key /\ YieldInv'
          /\ \A e \in Direction : cursor'[e] # cursor[e] => cursor'[e] \notin yielded
      BY <1>1, <1>2, <2>4, ConsumeYields
    <3>2. WalkInv'
      BY <1>1, <2>1, <3>1 DEF WalkInv, vars, locals
    <3>3. ScanTypes'
      BY <1>2, <2>1, <3>1 DEF ScanTypes
    <3> QED  BY <1>1, <2>2, <3>1, <3>2, <3>3 DEF ScanInv
  <2> QED  BY <1>3, <2>3, <2>4 DEF NextItem
<1>4. CASE Install(d)
  <2>1. UNCHANGED bounds
    BY <1>4 DEF Install
  <2>2. CASE phase' = "done" /\ UNCHANGED <<vars, cursor, batch, taken, limit, met, yielded>>
    <3>1. WalkInv'
      BY <1>1, <2>2 DEF WalkInv, vars, locals, Constructing
    <3>2. ScanTypes' /\ YieldInv'
      BY <1>1, <2>1, <2>2 DEF ScanTypes, YieldInv, Passed, Constructing
    <3>3. Walks(Direction)
      BY <1>1, <2>2, ScanOnly
    <3> QED  BY <1>1, <2>2, <3>1, <3>2, <3>3 DEF ScanInv
  <2>3. ASSUME NEW k \in Entry(d), NEW n, n = topo.index[k], NEW take, take \subseteq contents[n],
               node' = [node EXCEPT ![d] = n],
               \/ taken' = [taken EXCEPT ![d] = None]
               \/ \E c \in SUBSET contents[n] : taken' = [taken EXCEPT ![d] = Cardinality(c) + Cardinality(take)],
               limit' = [limit EXCEPT ![d] = Min({2 * limit[d], MaxBatch})],
               Consume(d, take), UNCHANGED <<topo, root, odd, unmoved, contents, pc, op, arg, key, retries, res>>
        PROVE  /\ Walks(Direction) /\ ScanInv'
               /\ \A e \in Direction : cursor'[e] # cursor[e] => cursor'[e] \notin yielded
    <3>1. n \in Node /\ take \in SUBSET Key /\ contents[n] \in SUBSET Key
      BY <2>3, EntriesAreKeys, EntryTypes
    <3>2. /\ phase' \in {"idle", "done", d} /\ phase' \notin Constructing \cup {"none"}
          /\ cursor' \in [Direction -> Key \cup {None}] /\ batch' \in [Direction -> SUBSET Key]
          /\ met' \in BOOLEAN /\ yielded' \in SUBSET Key /\ YieldInv'
          /\ \A e \in Direction : cursor'[e] # cursor[e] => cursor'[e] \notin yielded
      BY <1>1, <2>3, <3>1, ConsumeYields
    <3>3. taken' \in [Direction -> Nat \cup {None}]
      <4>1. ASSUME NEW c \in SUBSET contents[n] PROVE Cardinality(c) + Cardinality(take) \in Nat
        <5>1. Cardinality(c) \in Nat /\ Cardinality(take) \in Nat
          BY <3>1 DEF IInv, KeySetsCount
        <5> QED  BY <5>1, SMT
      <4> QED  BY <1>2, <2>3, <4>1, ZenonT(60)
    <3>4. limit' \in [Direction -> Nat \ {0}]
      <4>1. Min({2 * limit[d], MaxBatch}) \in Nat \ {0}
        BY <1>2, LimitGrows
      <4> QED  BY <1>2, <2>3, <4>1, ZenonT(60)
    <3>5. WalkInv'
      BY <1>1, <2>3, <3>2 DEF WalkInv
    <3>6. ScanTypes'
      BY <1>2, <2>1, <3>2, <3>3, <3>4 DEF ScanTypes
    <3>7. node' \in [Thread -> Node \cup {None}] /\ \A t \in Thread \ Direction : node'[t] = node[t]
      BY <1>1, <2>3, <3>1 DEF IInv, TypeOK
    <3>8. Walks(Direction)
      BY <1>1, <2>3, <3>7, DirectionAssumption DEF Walks, WalkInv, IInv, TypeOK
    <3> QED  BY <3>2, <3>5, <3>6, <3>8 DEF ScanInv
  <2>4. ASSUME NEW k \in Entry(d), NEW n, n = topo.index[k]
        PROVE  Remaining(d, n) \subseteq contents[n] /\ contents[n] \ Remaining(d, n) \in SUBSET contents[n]
               /\ Nearest(d, Remaining(d, n), limit[d]) \subseteq contents[n]
    BY DEF Remaining, Nearest
  <2> QED  BY <1>1, <1>4, <2>2, <2>3, <2>4, ZenonT(60) DEF Install, shared
<1> QED  BY <1>3, <1>4 DEF Advance

\* A scan that is dropped leaves nothing behind.
LEMMA DropTypes ==
  ASSUME IInv, ScanInv, DropScan
  PROVE  Walks(Direction) /\ ScanInv'
<1> USE Zenon
<1>1. /\ UNCHANGED <<topo, root, odd, unmoved, contents, pc, op, arg, key, retries, res>>
      /\ phase = "done" /\ phase' = "none" /\ yielded' = {}
      /\ node' = [t \in Thread |-> IF t \in Direction THEN None ELSE node[t]]
  BY DEF DropScan, shared
<1>2. WalkInv /\ WalkInv'
  BY <1>1 DEF ScanInv, WalkInv, Constructing
<1>3. Walks(Direction)
  BY <1>1, <1>2, DirectionAssumption DEF Walks, WalkInv, IInv, TypeOK
<1>4. Everything \in [group : Nat \ {0}, start : Bound, end : Bound]
  BY SMT DEF Everything, Bound
<1>5. ScanTypes'
  BY <1>1, <1>4, BatchAssumption DEF DropScan, Both, ScanTypes
<1>6. YieldInv'
  BY <1>1 DEF YieldInv
<1> QED  BY <1>2, <1>3, <1>5, <1>6 DEF ScanInv

-----------------------------------------------------------------------------
(* The scan: which element comes next.                                     *)

\* A set of keys that is not empty has a smallest and a greatest member.
LEMMA EndsOf ==
  ASSUME KeySetsCount, NEW S \in SUBSET Key, NEW x \in S
  PROVE  /\ Least(S) # {} /\ \A k \in Least(S) : k \in S /\ k <= x
         /\ Greatest(S) # {} /\ \A k \in Greatest(S) : k \in S /\ x <= k
BY Zenon DEF Least, Greatest, KeySetsCount

\* The nearest element has nothing before it.
LEMMA NearestFirst ==
  ASSUME KeySetsCount, NEW d \in Direction, NEW S \in SUBSET Key, NEW x \in Nearest(d, S, 1), NEW y \in S
  PROVE  x \in S /\ ~Ahead(d, x, y)
<1> DEFINE before == {z \in S : Ahead(d, x, z)}
<1>1. x \in S /\ Cardinality(before) < 1
  BY Zenon DEF Nearest
<1>2. before \in SUBSET Key
  BY Zenon
<1>3. Cardinality(before) \in Nat /\ \A v \in before : Cardinality(before \ {v}) = Cardinality(before) - 1
                                                      /\ Cardinality(before \ {v}) \in Nat
  <2> HIDE DEF before
  <2> QED  BY <1>2, Zenon DEF KeySetsCount
<1>4. y \notin before
  <2> HIDE DEF before
  <2> SUFFICES ASSUME y \in before PROVE FALSE
    OBVIOUS
  <2>1. Cardinality(before \ {y}) = Cardinality(before) - 1 /\ Cardinality(before \ {y}) \in Nat
    BY <1>3, Zenon
  <2> QED  BY <1>1, <1>3, <2>1, SMT
<1> QED  BY <1>1, <1>4, Zenon

\* The nearest m elements come before all others.
LEMMA NearestClosed ==
  ASSUME KeySetsCount, NEW d \in Direction, NEW S \in SUBSET Key, NEW m \in Nat,
         NEW x \in S, NEW y \in Nearest(d, S, m), ~Ahead(d, x, y)
  PROVE  x \in Nearest(d, S, m)
<1> USE Zenon
<1> DEFINE before(w) == {z \in S : Ahead(d, w, z)}
<1>1. y \in S /\ Cardinality(before(y)) < m
  BY DEF Nearest
<1>2. before(x) \subseteq before(y)
  <2> SUFFICES ASSUME NEW z \in S, Ahead(d, x, z) PROVE Ahead(d, y, z)
    OBVIOUS
  <2>1. x \in Int /\ y \in Int /\ z \in Int
    BY <1>1, IntegerKeys
  <2>2. x = y \/ Ahead(d, y, x)
    BY <2>1, AheadOrder
  <2> QED  BY <2>1, <2>2, AheadOrder
<1>3. before(x) \in SUBSET Key /\ before(y) \in SUBSET Key
  OBVIOUS
<1>4. /\ Cardinality(before(x)) <= Cardinality(before(y))
      /\ Cardinality(before(x)) \in Nat /\ Cardinality(before(y)) \in Nat
  <2> HIDE DEF before
  <2> QED  BY <1>2, <1>3 DEF KeySetsCount
<1>5. Cardinality(before(x)) < m
  <2> HIDE DEF before
  <2> QED  BY <1>1, <1>4, SMT
<1> QED  BY <1>5 DEF Nearest

\* There is a nearest element, and none among the first zero.
LEMMA NearestSome ==
  ASSUME KeySetsCount, NEW d \in Direction, NEW S \in SUBSET Key, NEW m \in Nat
  PROVE  /\ m # 0 /\ S # {} => Nearest(d, S, m) # {}
         /\ m = 0 => Nearest(d, S, m) = {}
<1> USE Zenon
<1> DEFINE before(w) == {z \in S : Ahead(d, w, z)}
<1>1. ASSUME m # 0, S # {} PROVE Nearest(d, S, m) # {}
  <2>1. PICK x \in S : IF d = Front THEN \A y \in S : x <= y ELSE \A y \in S : y <= x
    BY <1>1 DEF KeySetsCount
  <2>2. \A y \in S : ~Ahead(d, x, y)
    BY <2>1, IntegerKeys, SMT DEF Ahead
  <2>3. before(x) = {}
    BY <2>2
  <2>4. Cardinality(before(x)) < m
    BY <1>1, <2>3, SMT DEF KeySetsCount
  <2> QED  BY <2>4 DEF Nearest
<1>2. ASSUME m = 0, NEW x \in Nearest(d, S, m) PROVE FALSE
  <2>1. Cardinality(before(x)) < 0
    BY <1>2 DEF Nearest
  <2>2. before(x) \in SUBSET Key
    OBVIOUS
  <2>3. Cardinality(before(x)) \in Nat
    <3> HIDE DEF before
    <3> QED  BY <2>2 DEF KeySetsCount
  <2> HIDE DEF before
  <2> QED  BY <2>1, <2>3, SMT
<1> QED  BY <1>1, <1>2

\* Skipping up to the rank of v leaves what lies beyond v.
LEMMA RankedRest ==
  ASSUME KeySetsCount, NEW d \in Direction, NEW S \in SUBSET Key, NEW v \in Key
  PROVE  S \ Nearest(d, S, RankSkip(d, S, v)) = {x \in S : Ahead(d, x, v)}
<1> USE Zenon
<1> DEFINE behind == {x \in S : ~Ahead(d, x, v)}
           before(w) == {z \in S : Ahead(d, w, z)}
<1>1. behind \in SUBSET Key /\ \A x \in S : before(x) \in SUBSET Key /\ before(x) \ {x} \in SUBSET Key
  OBVIOUS
<1>2. Cardinality(behind) \in Nat /\ \A x \in S : Cardinality(before(x)) \in Nat
  <2> HIDE DEF behind, before
  <2> QED  BY <1>1 DEF KeySetsCount
<1>3. RankSkip(d, S, v) = Cardinality(behind)
  <2>1. LastSkipped(d, S, v) = IF Cardinality(behind) = 0 THEN None ELSE Cardinality(behind) - 1
    BY DEF LastSkipped
  <2>2. Cardinality(behind) # 0 => Cardinality(behind) - 1 # None
    <3> HIDE DEF behind
    <3>1. Cardinality(behind) # 0 => Cardinality(behind) - 1 \in Nat
      BY <1>2, SMT
    <3> QED  BY <3>1, BatchAssumption
  <2>3. Cardinality(behind) - 1 + 1 = Cardinality(behind)
    <3> HIDE DEF behind
    <3> QED  BY <1>2, SMT
  <2> HIDE DEF behind
  <2>4. CASE Cardinality(behind) = 0
    BY <2>1, <2>4 DEF RankSkip
  <2>5. CASE Cardinality(behind) # 0
    BY <2>1, <2>2, <2>3, <2>5 DEF RankSkip
  <2> QED  BY <2>4, <2>5
<1>4. ASSUME NEW x \in S, Ahead(d, x, v) PROVE ~(Cardinality(before(x)) < Cardinality(behind))
  <2>1. behind \subseteq before(x)
    <3> SUFFICES ASSUME NEW z \in S, ~Ahead(d, z, v) PROVE Ahead(d, x, z)
      OBVIOUS
    <3>1. x \in Int /\ z \in Int /\ v \in Int
      BY IntegerKeys
    <3>2. z = v \/ Ahead(d, v, z)
      BY <3>1, AheadOrder
    <3> QED  BY <1>4, <3>1, <3>2, AheadOrder
  <2>2. Cardinality(behind) <= Cardinality(before(x))
    <3> HIDE DEF behind, before
    <3> QED  BY <1>1, <2>1 DEF KeySetsCount
  <2> HIDE DEF behind, before
  <2> QED  BY <1>2, <2>2, SMT
<1>5. ASSUME NEW x \in S, ~Ahead(d, x, v) PROVE Cardinality(before(x)) < Cardinality(behind)
  <2>1. x \in behind /\ before(x) \subseteq behind \ {x}
    <3> SUFFICES ASSUME NEW z \in S, Ahead(d, x, z) PROVE ~Ahead(d, z, v) /\ z # x
      BY <1>5
    <3>1. x \in Int /\ z \in Int /\ v \in Int
      BY IntegerKeys
    <3>2. Ahead(d, z, v) => Ahead(d, x, v)
      BY <3>1, AheadOrder
    <3>3. z # x
      BY <3>1, AheadOrder
    <3> QED  BY <1>5, <3>2, <3>3
  <2>2. Cardinality(before(x)) <= Cardinality(behind) - 1
    <3> HIDE DEF behind, before
    <3>1. behind \ {x} \in SUBSET Key
      BY <1>1
    <3>2. Cardinality(before(x)) <= Cardinality(behind \ {x})
      BY <1>1, <2>1, <3>1 DEF KeySetsCount
    <3>3. Cardinality(behind \ {x}) = Cardinality(behind) - 1
      BY <1>1, <2>1 DEF KeySetsCount
    <3> QED  BY <3>2, <3>3
  <2> HIDE DEF behind, before
  <2> QED  BY <1>2, <2>2, SMT
<1> HIDE DEF behind
<1>6. \A x \in S : x \in Nearest(d, S, RankSkip(d, S, v)) <=> Cardinality(before(x)) < Cardinality(behind)
  BY <1>3 DEF Nearest
<1> HIDE DEF before
<1> QED  BY <1>4, <1>5, <1>6

\* Views keep the order of the elements, and groups of one keep them apart.
LEMMA ViewOrder ==
  ASSUME ScanTypes, NEW x \in Key, NEW y \in Key, x <= y
  PROVE  /\ View(x) \in Nat /\ View(y) \in Nat /\ View(x) <= View(y)
         /\ bounds.group = 1 => View(x) = x /\ View(y) = y
<1>1. bounds.group \in Nat \ {0}
  BY Zenon DEF ScanTypes
<1> DEFINE g == bounds.group
<1> HIDE DEF g
<1>2. x \in Nat /\ y \in Nat /\ g \in Nat \ {0} /\ View(x) = (x + g - 1) \div g /\ View(y) = (y + g - 1) \div g
  BY <1>1, MaxKeyAssumption, SMT DEF View, Key, g
<1>3. /\ (x + g - 1) \div g \in Nat /\ (y + g - 1) \div g \in Nat
      /\ (x + g - 1) \div g <= (y + g - 1) \div g
  BY <1>2, SMTT(60)
<1>4. g = 1 => (x + g - 1) \div g = x /\ (y + g - 1) \div g = y
  BY <1>2, SMTT(60)
<1> QED  BY <1>2, <1>3, <1>4, Zenon DEF g

-----------------------------------------------------------------------------
(* The scan: no node with a waiting element is passed over.                *)

\* The entry whose node holds x: the first key at or above it.
Home(x, k) == k \in Keys /\ x \in contents[topo.index[k]] /\ x <= k /\ \A j \in Keys : x <= j => k <= j

\* What stayed is under the first key at or above it: the last node's key may
\* be behind, but only with a value whose insertion has not returned.
LEMMA Located ==
  ASSUME IInv, SInv, RInv, AboveInv, StayInv, NEW x \in kept
  PROVE  x \in Key /\ \E k \in Keys : Home(x, k)
<1> USE Zenon
<1>1. PICK k \in Keys : x \in contents[topo.index[k]]
  BY ZenonT(90) DEF StayInv, Acknowledged, Linked, Range, Keys
<1>2. k \in Int /\ x \in Key /\ Keys \subseteq Key
  BY <1>1, EntryTypes, IntegerKeys
<1>3. Covers(topo.index, x, k)
  BY <1>1 DEF RInv, Reaches, Keys
<1>4. x <= k
  <2> SUFFICES ASSUME ~(x <= k) PROVE FALSE
    OBVIOUS
  <2>1. k < x /\ x > k
    BY <1>2, IntegerKeys, SMT
  <2>2. PICK t \in Thread : op[t] = "insert" /\ Repairs(t, topo.index[k], k)
    BY <1>1, <2>1 DEF SInv, RepairInv, EntryRepaired, Keys
  <2>3. x = arg[t] /\ res[t] = TRUE
    BY <1>1, <2>1, <2>2 DEF AboveInv, OwnAbove, Repairs
  <2> QED  BY <2>2, <2>3 DEF StayInv, Acknowledged
<1>5. \A j \in Keys : x <= j => k <= j
  <2>1. ~\A j \in Keys : j < x
    BY <1>1, <1>2, <1>4, IntegerKeys, SMT
  <2> QED  BY <1>3, <2>1 DEF Covers, Keys
<1> QED  BY <1>1, <1>2, <1>4, <1>5 DEF Home

\* Nodes are apart: a key separates its node from the next.
LEMMA Apart ==
  ASSUME IInv, RInv, NEW j \in Keys, NEW k \in Keys, j < k
  PROVE  /\ \A y \in contents[topo.index[j]] : y \in Int /\ y <= j
         /\ \A y \in contents[topo.index[k]] : y \in Int /\ j < y
<1>1. j \in Int /\ k \in Int
  BY EntryTypes, IntegerKeys, Zenon
<1>2. ASSUME NEW y \in contents[topo.index[j]] PROVE y \in Int /\ y <= j
  <2>1. Covers(topo.index, y, j) /\ y \in Int
    BY EntryTypes, IntegerKeys, Zenon DEF RInv, Reaches, Keys
  <2> QED  BY <1>1, <2>1, SMT DEF Covers, IsLast, Keys
<1>3. ASSUME NEW y \in contents[topo.index[k]] PROVE y \in Int /\ j < y
  <2>1. Covers(topo.index, y, k) /\ y \in Int
    BY EntryTypes, IntegerKeys, Zenon DEF RInv, Reaches, Keys
  <2> QED  BY <1>1, <2>1, SMT DEF Covers, IsLast, Keys
<1> QED  BY <1>2, <1>3, Zenon

\* install_front_batch chooses a node at or before the one with x.
LEMMA FrontReaches ==
  ASSUME IInv, ScanTypes, RestInv, WaitInv, phase = Front, NEW x \in Key, Waiting(x), NEW h \in Keys, Home(x, h)
  PROVE  FrontEntry # {} /\ \A k \in FrontEntry : k \in Keys /\ k <= h
<1> USE Zenon
<1> DEFINE c == cursor[Front]
           able == {k \in Keys : c = None \/ k > c}
           candidate == Least(able)
           later == {j \in Keys : \E k \in candidate : j > k}
<1>1. Front \in Direction /\ c \in Key \cup {None} /\ batch[Front] = {} /\ x \in Int
  BY IntegerKeys DEF Direction, ScanTypes, RestInv
<1>2. h \in Int /\ Keys \subseteq Key /\ able \subseteq Key /\ later \subseteq Key
  BY EntryTypes, IntegerKeys
<1>3. h \in able
  <2>1. c = None \/ x > c
    BY <1>1 DEF WaitInv, Passed, Ahead
  <2>2. x <= h
    BY DEF Home
  <2>3. c # None => c \in Int
    BY <1>1, IntegerKeys
  <2>4. c # None => h > c
    <3> HIDE DEF c
    <3> QED  BY <1>1, <1>2, <2>1, <2>2, <2>3, SMT
  <2> QED  BY <2>4
<1>4. candidate # {} /\ \A k \in candidate : k \in Keys /\ k <= h
  <2>1. candidate # {} /\ \A k \in candidate : k \in able /\ k <= h
    BY <1>2, <1>3, EndsOf DEF IInv
  <2> QED  BY <2>1
<1>5. CASE ~\E k \in candidate : Exhausted(Front, k)
  BY <1>4, <1>5 DEF FrontEntry
<1>6. CASE \E k \in candidate : Exhausted(Front, k)
  <2>1. PICK k \in candidate : Exhausted(Front, k)
    BY <1>6
  <2>2. x \notin contents[topo.index[k]]
    <3>1. topo.index[k] # None
      BY <1>4, EntryTypes, NoneAssumption
    <3> QED  BY <1>1, <2>1, <3>1 DEF Exhausted, WaitInv, Emptied
  <2>3. k # h
    BY <2>2 DEF Home
  <2>4. k \in Int /\ k <= h
    BY <1>2, <1>4, IntegerKeys
  <2>5. h > k
    BY <1>2, <2>3, <2>4, SMT
  <2>6. h \in later
    BY <2>1, <2>5
  <2>7. Least(later) # {} /\ \A j \in Least(later) : j \in later /\ j <= h
    BY <1>2, <2>6, EndsOf DEF IInv
  <2> QED  BY <1>6, <2>7 DEF FrontEntry
<1> QED  BY <1>5, <1>6

\* install_back_batch chooses a node at or after the one with x.
LEMMA BackReaches ==
  ASSUME IInv, ScanTypes, RestInv, WaitInv, phase = Back, NEW x \in Key, Waiting(x), NEW h \in Keys, Home(x, h)
  PROVE  BackEntry # {} /\ \A k \in BackEntry : k \in Keys /\ h <= k
<1> USE Zenon
<1> DEFINE c == cursor[Back]
           able == {k \in Keys : c # None /\ k >= c}
           reaching == Least(able)
           candidate == IF reaching = {} THEN Greatest(Keys) ELSE reaching
           earlier == {j \in Keys : \E k \in candidate : j < k}
<1>1. Back \in Direction /\ c \in Key \cup {None} /\ batch[Back] = {} /\ x \in Int
  BY IntegerKeys DEF Direction, ScanTypes, RestInv
<1>2. h \in Int /\ Keys \subseteq Key /\ able \subseteq Key /\ earlier \subseteq Key
  BY EntryTypes, IntegerKeys
<1>3. candidate # {} /\ \A k \in candidate : k \in Keys /\ h <= k
  <2>1. CASE reaching = {}
    BY <1>2, <2>1, EndsOf DEF IInv
  <2>2. CASE reaching # {}
    <3> SUFFICES ASSUME NEW k \in reaching PROVE k \in Keys /\ h <= k
      BY <2>2
    <3>1. k \in Keys /\ c # None /\ k >= c
      BY DEF Least
    <3>2. x < c
      BY <1>1, <3>1, DirectionAssumption DEF WaitInv, Passed, Ahead
    <3>3. x <= k
      <4>1. c \in Int /\ k \in Int
        BY <1>1, <1>2, <3>1, IntegerKeys
      <4> HIDE DEF c
      <4> QED  BY <1>1, <3>1, <3>2, <4>1, SMT
    <3> QED  BY <3>1, <3>3 DEF Home
  <2> QED  BY <2>1, <2>2
<1>4. CASE ~\E k \in candidate : Exhausted(Back, k)
  BY <1>3, <1>4 DEF BackEntry
<1>5. CASE \E k \in candidate : Exhausted(Back, k)
  <2>1. PICK k \in candidate : Exhausted(Back, k)
    BY <1>5
  <2>2. x \notin contents[topo.index[k]]
    <3>1. topo.index[k] # None
      BY <1>3, EntryTypes, NoneAssumption
    <3> QED  BY <1>1, <2>1, <3>1 DEF Exhausted, WaitInv, Emptied
  <2>3. k # h
    BY <2>2 DEF Home
  <2>4. k \in Int /\ h <= k
    BY <1>2, <1>3, IntegerKeys
  <2>5. h < k
    BY <1>2, <2>3, <2>4, SMT
  <2>6. h \in earlier
    BY <2>1, <2>5
  <2>7. Greatest(earlier) # {} /\ \A j \in Greatest(earlier) : j \in earlier /\ h <= j
    BY <1>2, <2>6, EndsOf DEF IInv
  <2> QED  BY <1>5, <2>7 DEF BackEntry
<1> QED  BY <1>4, <1>5

\* What is left of the node under key k, and the batch cloned from it.
Rest(d, k) == Remaining(d, topo.index[k])
Take(d, k) == Nearest(d, Rest(d, k), limit[d])

\* The batch cloned from the chosen node holds everything that waits up to its
\* last element, and all that waits in the node when it is exhausted.
LEMMA TakeClosed ==
  ASSUME IInv, SInv, RInv, AboveInv, StayInv, ScanTypes, RestInv, WaitInv, NEW d \in Direction, phase = d,
         NEW k \in Entry(d)
  PROVE  /\ Closed(d, Take(d, k)) /\ Take(d, k) \in SUBSET Key
         /\ \A x \in contents[topo.index[k]] : Waiting(x) => x \in Rest(d, k)
         /\ Take(d, k) = {} => Rest(d, k) = {}
<1> USE Zenon
<1> DEFINE n == topo.index[k]
           c == cursor[d]
           rest == Rest(d, k)
           take == Take(d, k)
<1>1. /\ k \in Keys /\ n \in Node /\ contents[n] \in SUBSET Key /\ limit[d] \in Nat /\ limit[d] # 0
      /\ (c = None => taken[d] = None) /\ KeySetsCount
  BY EntriesAreKeys, EntryTypes, DirectionAssumption DEF ScanTypes, RestInv, IInv
<1>2. rest = {x \in contents[n] : c = None \/ Ahead(d, x, c)}
  <2>1. CASE c # None
    <3>1. c \in Key
      BY <2>1 DEF ScanTypes
    <3>2. rest = contents[n] \ Nearest(d, contents[n], RankSkip(d, contents[n], c))
      BY <2>1 DEF Remaining, Rest
    <3>3. contents[n] \ Nearest(d, contents[n], RankSkip(d, contents[n], c)) = {x \in contents[n] : Ahead(d, x, c)}
      <4>1. KeySetsCount /\ contents[n] \in SUBSET Key
        BY <1>1
      <4> HIDE DEF n, c
      <4> QED  BY <3>1, <4>1, RankedRest
    <3> HIDE DEF c, rest, n
    <3> QED  BY <2>1, <3>2, <3>3
  <2>2. CASE c = None
    <3>1. rest = contents[n] \ Nearest(d, contents[n], 0)
      BY <1>1, <2>2 DEF Remaining, Rest
    <3>2. Nearest(d, contents[n], 0) = {}
      <4>1. 0 \in Nat
        BY SMT
      <4> QED  BY <1>1, <4>1, NearestSome
    <3> QED  BY <2>2, <3>1, <3>2
  <2> QED  BY <2>1, <2>2
<1>3. rest \in SUBSET Key /\ take \subseteq rest
  BY <1>1, <1>2 DEF Nearest, Take
<1>4. take = {} => rest = {}
  BY <1>1, <1>3, NearestSome DEF Take
<1>5. \A x \in contents[n] : Waiting(x) => x \in rest
  BY <1>1, <1>2 DEF WaitInv, Passed
<1>6. ASSUME NEW x \in Key, Waiting(x), NEW y \in take, ~Ahead(d, x, y) PROVE x \in take
  <2>1. PICK h \in Keys : Home(x, h)
    BY <1>6, Located DEF Waiting
  <2>2. CASE h = k
    <3>1. x \in rest
      BY <1>5, <1>6, <2>1, <2>2 DEF Home
    <3> QED  BY <1>1, <1>3, <1>6, <3>1, NearestClosed DEF Take
  <2>3. CASE h # k
    <3>1. /\ h \in Int /\ k \in Int /\ x \in Int /\ y \in Int /\ y \in contents[n]
          /\ x <= h /\ (x <= k => h <= k)
      BY <1>1, <1>2, <1>3, <1>6, <2>1, EntryTypes, IntegerKeys DEF Home
    <3>2. CASE d = Front
      <4>1. k <= h
        BY <1>6, <2>1, <3>2, FrontReaches DEF Entry
      <4>2. k < h /\ x > k
        BY <2>3, <3>1, <4>1, SMT
      <4>3. y <= k
        BY <1>1, <3>1, <4>2, Apart
      <4>4. x > y
        BY <3>1, <4>2, <4>3, SMT
      <4> QED  BY <1>6, <3>2, <4>4 DEF Ahead
    <3>3. CASE d = Back /\ d # Front
      <4>1. h <= k
        BY <1>6, <2>1, <3>3, BackReaches DEF Entry
      <4>2. h < k
        BY <2>3, <3>1, <4>1, SMT
      <4>3. h < y
        BY <1>1, <3>1, <4>2, Apart
      <4>4. x < y
        BY <3>1, <4>3, SMT
      <4> QED  BY <1>6, <3>3, <4>4 DEF Ahead
    <3> QED  BY <3>2, <3>3 DEF Direction
  <2> QED  BY <2>2, <2>3
<1> QED  BY <1>3, <1>4, <1>5, <1>6, <1>1 DEF Closed

\* When there is no node left nothing waits.
LEMMA NoEntryNothingWaits ==
  ASSUME IInv, SInv, RInv, AboveInv, StayInv, ScanTypes, RestInv, WaitInv, NEW d \in Direction, phase = d,
         Entry(d) = {}, NEW x \in Key
  PROVE  ~Waiting(x)
<1> USE Zenon
<1> SUFFICES ASSUME Waiting(x) PROVE FALSE
  OBVIOUS
<1>1. PICK h \in Keys : Home(x, h)
  BY Located DEF Waiting
<1>2. CASE d = Front
  BY <1>1, <1>2, FrontReaches DEF Entry
<1>3. CASE d = Back /\ d # Front
  BY <1>1, <1>3, BackReaches DEF Entry
<1> QED  BY <1>2, <1>3 DEF Direction

\* Taking the next item off a batch keeps the promise, whether the item is
\* yielded, the directions meet or the batch has run out.
LEMMA ConsumeSkips ==
  ASSUME KeySetsCount, ScanTypes, WaitInv, NEW d \in Direction, phase # "done", NEW b \in SUBSET Key, Consume(d, b),
         Closed(d, b),
         \A x \in contents[node'[d]] : taken'[d] = None /\ node'[d] # None /\ Waiting(x) => x \in b,
         UNCHANGED <<kept, bounds, contents>>,
         \A e \in Direction \ {d} : taken'[e] = taken[e] /\ node'[e] = node[e]
  PROVE  WaitInv'
<1> USE Zenon
<1> DEFINE fresh == {x \in b : cursor[d] = None \/ Ahead(d, x, cursor[d])}
<1>1. /\ cursor \in [Direction -> Key \cup {None}] /\ batch \in [Direction -> SUBSET Key] /\ fresh \in SUBSET Key
      /\ \A x \in Key : Waiting(x) => ~Over /\ \A e \in Direction : ~Passed(e, x)
      /\ \A e \in Direction : Closed(e, batch[e]) /\ Emptied(e, batch[e])
      /\ d # "done" /\ \A x : InBounds(x)' = InBounds(x)
  BY DirectionAssumption DEF ScanTypes, WaitInv, InBounds, View
<1>2. yielded \subseteq yielded' /\ \A x : Waiting(x)' => Waiting(x) /\ x \notin yielded'
  BY <1>1 DEF Consume, Waiting
<1>3. \A x \in b : Waiting(x) => x \in fresh
  BY <1>1 DEF Passed
<1>4. \A x \in Key : Waiting(x) => \A y \in fresh : ~Ahead(d, x, y) => x \in fresh
  BY <1>3 DEF Closed
<1>5. \A e \in Direction \ {d} : batch'[e] = batch[e]
  BY <1>1 DEF Consume
<1>6. \A e \in Direction \ {d} : Closed(e, batch[e])' /\ Emptied(e, batch[e])'
  BY <1>1, <1>2, <1>5 DEF Closed, Emptied
<1>7. CASE fresh = {} /\ batch' = [batch EXCEPT ![d] = {}] /\ phase' = d /\ UNCHANGED <<cursor, met, yielded>>
  <2>1. \A x \in Key : Waiting(x)' => ~Over' /\ \A e \in Direction : ~Passed(e, x)'
    BY <1>1, <1>2, <1>7 DEF Over, Passed
  <2>2. Closed(d, batch[d])' /\ Emptied(d, batch[d])'
    BY <1>1, <1>2, <1>3, <1>7 DEF Closed, Emptied
  <2> QED  BY <1>6, <2>1, <2>2 DEF WaitInv
<1>8. ASSUME NEW x \in Nearest(d, fresh, 1), batch' = [batch EXCEPT ![d] = fresh \ {x}], Crosses(d, x)
      PROVE  \A w \in Key : ~Waiting(w)
  <2> SUFFICES ASSUME NEW w \in Key, Waiting(w) PROVE FALSE
    OBVIOUS
  <2>1. x \in fresh /\ \A y \in fresh : ~Ahead(d, x, y)
    BY <1>1, <1>8, NearestFirst DEF Nearest
  <2>2. Other(d) \in Direction /\ cursor[Other(d)] # None
    BY <1>8, OtherDirection DEF Crosses
  <2>3. Ahead(Other(d), w, cursor[Other(d)]) /\ ~Ahead(Other(d), x, cursor[Other(d)])
    BY <1>1, <1>8, <2>2 DEF Passed, Crosses
  <2>4. x \in Int /\ w \in Int /\ cursor[Other(d)] \in Int
    BY <1>1, <2>1, <2>2, IntegerKeys
  <2>5. Ahead(d, x, w)
    <3>1. Ahead(Other(d), w, x)
      <4>1. x # w
        BY <2>3
      <4>2. ~Ahead(Other(d), x, w)
        BY <2>2, <2>3, <2>4, AheadOrder
      <4> QED  BY <2>2, <2>4, <4>1, <4>2, AheadOrder
    <3> QED  BY <2>4, <3>1, AheadOrder
  <2>6. ~Ahead(d, w, x)
    BY <2>4, <2>5, AheadOrder
  <2>7. w \in fresh
    BY <1>4, <2>1, <2>6
  <2> QED  BY <2>1, <2>5, <2>7
<1>9. ASSUME NEW x \in Nearest(d, fresh, 1), batch' = [batch EXCEPT ![d] = fresh \ {x}],
             cursor' = [cursor EXCEPT ![d] = x], yielded' = yielded \cup {x}, phase' = "idle", met' = met
      PROVE  WaitInv'
  <2>1. x \in fresh /\ \A y \in fresh : ~Ahead(d, x, y)
    BY <1>1, <1>9, NearestFirst DEF Nearest
  <2>2. batch'[d] = fresh \ {x} /\ cursor'[d] = x /\ \A e \in Direction : e # d => cursor'[e] = cursor[e]
    BY <1>1, <1>9
  <2>3. \A w \in Key : Waiting(w)' => Waiting(w) /\ w # x
    BY <1>2, <1>9
  <2>4. ASSUME NEW w \in Key, Waiting(w)' PROVE ~Over' /\ \A e \in Direction : ~Passed(e, w)'
    <3>1. w \in Int /\ x \in Int
      BY <1>1, <2>1, IntegerKeys
    <3>2. Ahead(d, w, x)
      <4>1. ~Ahead(d, w, x) => w \in fresh
        BY <1>4, <2>1, <2>3, <2>4
      <4> QED  BY <2>1, <2>3, <2>4, <3>1, <4>1, AheadOrder
    <3>3. \A e \in Direction : ~Passed(e, w)'
      BY <1>1, <2>2, <2>3, <2>4, <3>2 DEF Passed
    <3>4. ~Over'
      BY <1>1, <1>9, <2>3, <2>4 DEF Over
    <3> QED  BY <3>3, <3>4
  <2>5. Closed(d, batch[d])'
    BY <1>4, <2>2, <2>3 DEF Closed
  <2>6. Emptied(d, batch[d])'
    <3> SUFFICES ASSUME taken'[d] = None, node'[d] # None, NEW w \in contents[node'[d]], Waiting(w)'
                 PROVE  w \in batch'[d]
      BY DEF Emptied
    <3>1. Waiting(w) /\ w # x
      BY <1>2, <1>9
    <3> QED  BY <1>3, <2>2, <3>1
  <2> QED  BY <1>6, <2>4, <2>5, <2>6 DEF WaitInv
<1>10. ASSUME NEW x \in Nearest(d, fresh, 1), batch' = [batch EXCEPT ![d] = fresh \ {x}], Crosses(d, x)
       PROVE  WaitInv'
  <2>1. \A w \in Key : ~Waiting(w)'
    BY <1>2, <1>8, <1>10
  <2>2. Closed(d, batch[d])'
    BY <2>1 DEF Closed
  <2>3. Emptied(d, batch[d])'
    <3> SUFFICES ASSUME taken'[d] = None, node'[d] # None, NEW w \in contents[node'[d]], Waiting(w)'
                 PROVE  FALSE
      BY DEF Emptied
    <3>1. w \in b
      BY <1>2
    <3> QED  BY <2>1, <3>1
  <2> QED  BY <1>6, <2>1, <2>2, <2>3 DEF WaitInv
<1> QED  BY <1>7, <1>9, <1>10, ZenonT(60) DEF Consume

\* What stays is acknowledged while the walk leaves the set alone.
LEMMA WalkStays ==
  ASSUME Walks(Direction)
  PROVE  Acknowledged' = Acknowledged /\ \A x, k : Home(x, k)' = Home(x, k)
<1>1. topo' = topo /\ contents' = contents /\ op' = op /\ arg' = arg /\ res' = res
  BY Zenon DEF Walks
<1> QED  BY <1>1, Zenon DEF Acknowledged, Linked, Home, Keys

\* What consuming a batch leaves of the cursors and the batch.
LEMMA ConsumeRests ==
  ASSUME ScanTypes, NEW d \in Direction, NEW b \in SUBSET Key, Consume(d, b)
  PROVE  /\ phase' \in {"idle", "done", d} /\ (phase' = d => batch'[d] = {})
         /\ \A e \in Direction : cursor'[e] = None => cursor[e] = None
         /\ cursor'[d] = None /\ phase' # "done" => b = {}
<1> USE Zenon
<1> DEFINE fresh == {x \in b : cursor[d] = None \/ Ahead(d, x, cursor[d])}
<1>1. /\ cursor \in [Direction -> Key \cup {None}] /\ batch \in [Direction -> SUBSET Key] /\ None \notin fresh
      /\ d \notin {"idle", "done"}
  BY DirectionAssumption, NoneAssumption DEF ScanTypes
<1>2. CASE fresh = {} /\ batch' = [batch EXCEPT ![d] = {}] /\ phase' = d /\ UNCHANGED <<cursor, met, yielded>>
  BY <1>1, <1>2
<1>3. CASE phase' = "done" /\ UNCHANGED cursor
  BY <1>1, <1>3
<1>4. ASSUME NEW x \in Nearest(d, fresh, 1), cursor' = [cursor EXCEPT ![d] = x], phase' = "idle"
      PROVE  /\ phase' \in {"idle", "done", d} /\ (phase' = d => batch'[d] = {})
             /\ \A e \in Direction : cursor'[e] = None => cursor[e] = None
             /\ cursor'[d] = None /\ phase' # "done" => b = {}
  <2>1. x # None
    BY <1>1 DEF Nearest
  <2> QED  BY <1>1, <1>4, <2>1
<1> QED  BY <1>2, <1>3, <1>4 DEF Consume

\* next and next_back skip nothing that waits.
LEMMA AdvanceSkips ==
  ASSUME IInv, SInv, RInv, ScanInv, SkipInv, NEW d \in Direction, Advance(d)
  PROVE  SkipInv'
<1> USE Zenon
<1>1. /\ AboveInv /\ ResInv /\ StayInv /\ RestInv /\ WaitInv /\ ScanTypes /\ KeySetsCount
      /\ batch \in [Direction -> SUBSET Key] /\ taken \in [Direction -> Nat \cup {None}]
      /\ DOMAIN node = Thread /\ Direction \subseteq Thread
      /\ d \notin Constructing \cup {"none", "idle", "done"}
  BY DirectionAssumption DEF SkipInv, ScanInv, ScanTypes, IInv, TypeOK
<1>2. Walks(Direction) /\ phase \in {"idle", d} /\ phase \notin {"done", "none"}
  BY <1>1, AdvanceYields
<1>3. AboveInv' /\ ResInv'
  <2>1. Direction \in SUBSET (Thread \ Callers)
    BY DirectionAssumption
  <2> QED  BY <1>1, <1>2, <2>1, WalkKeeps
<1>4. UNCHANGED <<kept, bounds, contents>>
  BY <1>2 DEF Walks, Advance, NextItem, Install
<1>5. StayInv'
  BY <1>1, <1>2, <1>4, WalkStays DEF StayInv
<1>6. CASE UNCHANGED <<cursor, batch, taken, met, yielded, node>> /\ phase' = "done" /\ \A x \in Key : ~Waiting(x)
  <2>1. \A x : Waiting(x)' <=> Waiting(x)
    BY <1>4, <1>6 DEF Waiting, InBounds, View
  <2>2. WaitInv'
    BY <1>1, <1>4, <1>6, <2>1 DEF WaitInv, Closed, Emptied
  <2>3. RestInv'
    BY <1>6, DirectionAssumption DEF RestInv
  <2> QED  BY <1>3, <1>5, <2>2, <2>3 DEF SkipInv
<1>7. ASSUME NEW b \in SUBSET Key, Consume(d, b), Closed(d, b),
             \A x \in contents[node'[d]] : taken'[d] = None /\ node'[d] # None /\ Waiting(x) => x \in b,
             \A e \in Direction \ {d} : taken'[e] = taken[e] /\ node'[e] = node[e],
             cursor'[d] = None /\ phase' # "done" => taken'[d] = None
      PROVE  SkipInv'
  <2>1. WaitInv'
    BY <1>1, <1>2, <1>4, <1>7, ConsumeSkips
  <2>2. /\ phase' \in {"idle", "done", d} /\ (phase' = d => batch'[d] = {})
        /\ \A e \in Direction : cursor'[e] = None => cursor[e] = None
    BY <1>1, <1>7, ConsumeRests
  <2>3. \A e \in Direction : cursor'[e] = None /\ phase' # "done" => taken'[e] = None
    BY <1>1, <1>2, <1>7, <2>2 DEF RestInv
  <2>4. phase' # "none" /\ (phase' \in Direction => phase' = d)
    BY <1>1, <2>2, DirectionAssumption
  <2>5. RestInv'
    BY <2>2, <2>3, <2>4 DEF RestInv
  <2> QED  BY <1>3, <1>5, <2>1, <2>5 DEF SkipInv
<1>8. CASE NextItem(d)
  <2>1. taken' = taken /\ node' = node
    BY <1>8 DEF NextItem, vars, locals
  <2>2. CASE met /\ phase' = "done" /\ UNCHANGED <<cursor, batch, met, yielded>>
    <3>1. \A x \in Key : ~Waiting(x)
      BY <1>1, <2>2 DEF WaitInv, Over
    <3> QED  BY <1>6, <2>1, <2>2, <3>1
  <2>3. CASE Consume(d, batch[d])
    <3>1. batch[d] \in SUBSET Key /\ Closed(d, batch[d]) /\ Emptied(d, batch[d])
      BY <1>1 DEF WaitInv
    <3>2. \A x \in contents[node'[d]] : taken'[d] = None /\ node'[d] # None /\ Waiting(x) => x \in batch[d]
      BY <2>1, <3>1 DEF Emptied
    <3>3. cursor'[d] = None => taken'[d] = None
      <4>1. cursor'[d] = None => cursor[d] = None
        BY <1>1, <2>3, <3>1, ConsumeRests
      <4> QED  BY <1>1, <1>2, <2>1, <4>1 DEF RestInv
    <3> QED  BY <1>7, <2>1, <2>3, <3>1, <3>2, <3>3
  <2> QED  BY <1>8, <2>2, <2>3 DEF NextItem
<1>9. CASE Install(d)
  <2>1. phase = d
    BY <1>9 DEF Install
  <2>2. CASE Entry(d) = {} /\ phase' = "done" /\ UNCHANGED <<vars, cursor, batch, taken, limit, met, yielded>>
    <3>1. \A x \in Key : ~Waiting(x)
      BY <1>1, <2>1, <2>2, NoEntryNothingWaits
    <3> QED  BY <1>6, <2>2, <3>1 DEF vars, locals
  <2>3. ASSUME NEW k \in Entry(d), NEW count, count # None,
               node' = [node EXCEPT ![d] = topo.index[k]],
               taken' = [taken EXCEPT ![d] = IF Take(d, k) = Rest(d, k) THEN None ELSE count],
               Consume(d, Take(d, k))
        PROVE  SkipInv'
    <3>1. /\ Closed(d, Take(d, k)) /\ Take(d, k) \in SUBSET Key
          /\ \A x \in contents[topo.index[k]] : Waiting(x) => x \in Rest(d, k)
          /\ Take(d, k) = {} => Rest(d, k) = {}
      BY <1>1, <2>1, <2>3, TakeClosed
    <3>2. /\ node'[d] = topo.index[k] /\ (taken'[d] = None <=> Take(d, k) = Rest(d, k))
          /\ \A e \in Direction \ {d} : taken'[e] = taken[e] /\ node'[e] = node[e]
      BY <1>1, <2>3
    <3>3. \A x \in contents[node'[d]] : taken'[d] = None /\ node'[d] # None /\ Waiting(x) => x \in Take(d, k)
      BY <3>1, <3>2
    <3>4. cursor'[d] = None /\ phase' # "done" => taken'[d] = None
      <4>1. cursor'[d] = None /\ phase' # "done" => Take(d, k) = {}
        BY <1>1, <2>3, <3>1, ConsumeRests
      <4> QED  BY <3>1, <3>2, <4>1
    <3> QED  BY <1>7, <2>3, <3>1, <3>2, <3>3, <3>4
  <2>4. ASSUME NEW k \in Entry(d)
        PROVE  Cardinality(contents[topo.index[k]] \ Rest(d, k)) + Cardinality(Take(d, k)) # None
    <3>1. Take(d, k) \in SUBSET Key
      BY <1>1, <2>1, <2>4, TakeClosed
    <3>2. contents[topo.index[k]] \ Rest(d, k) \in SUBSET Key
      BY <2>4, EntriesAreKeys, EntryTypes
    <3>3. Cardinality(contents[topo.index[k]] \ Rest(d, k)) \in Nat /\ Cardinality(Take(d, k)) \in Nat
      BY <1>1, <3>1, <3>2 DEF KeySetsCount
    <3>4. Cardinality(contents[topo.index[k]] \ Rest(d, k)) + Cardinality(Take(d, k)) \in Nat
      BY <3>3, SMT
    <3> QED  BY <3>4, BatchAssumption
  <2>5. ASSUME Entry(d) # {}
        PROVE  \E k \in Entry(d) :
                 /\ node' = [node EXCEPT ![d] = topo.index[k]]
                 /\ taken' = [taken EXCEPT ![d] =
                      IF Take(d, k) = Rest(d, k) THEN None
                      ELSE Cardinality(contents[topo.index[k]] \ Rest(d, k)) + Cardinality(Take(d, k))]
                 /\ Consume(d, Take(d, k))
    BY <1>9, <2>5 DEF Install, Take, Rest
  <2>6. CASE Entry(d) # {}
    BY <2>3, <2>4, <2>5, <2>6
  <2> QED  BY <1>9, <2>2, <2>6 DEF Install
<1> QED  BY <1>8, <1>9 DEF Advance

\* Nothing waits once the scan is dropped.
LEMMA DropSkips ==
  ASSUME IInv, ScanInv, SkipInv, DropScan
  PROVE  SkipInv'
<1> USE Zenon
<1>1. Walks(Direction)
  BY DropTypes
<1>2. AboveInv' /\ ResInv'
  <2>1. Direction \in SUBSET (Thread \ Callers)
    BY DirectionAssumption
  <2> QED  BY <1>1, <2>1, WalkKeeps DEF SkipInv
<1>3. /\ kept' = {} /\ met' = FALSE /\ phase' = "none" /\ Direction \subseteq Thread
      /\ \A d \in Direction : cursor'[d] = None /\ batch'[d] = {} /\ taken'[d] = None /\ node'[d] = None
  BY DirectionAssumption DEF DropScan, Both
<1>4. StayInv' /\ RestInv'
  BY <1>3, DirectionAssumption DEF StayInv, RestInv
<1>5. WaitInv'
  BY <1>3 DEF WaitInv, Waiting, Closed, Emptied
<1> QED  BY <1>2, <1>4, <1>5 DEF SkipInv

-----------------------------------------------------------------------------
(* The constructors skip nothing.                                          *)

\* Where an element of the range lies from the bounds.
LEMMA BoundOrder ==
  ASSUME ScanTypes, NEW x \in Key, NEW w \in Key, InBounds(w)
  PROVE  /\ \A S : x \in BeforeStart(S, bounds.start) => x < w
         /\ \A S : x \in AfterEnd(S, bounds.end) => w < x
         /\ bounds.end.kind # "unbounded" => View(w) <= bounds.end.at /\ bounds.end.at \in Nat
<1> DEFINE s == bounds.start
           e == bounds.end
           vx == View(x)
           vw == View(w)
<1>1. s \in Bound /\ e \in Bound /\ x \in Int /\ w \in Int
  BY IntegerKeys, Zenon DEF ScanTypes
<1>2. x <= w \/ w <= x
  BY <1>1, SMT
<1>3. vx \in Nat /\ vw \in Nat /\ (w <= x => vw <= vx) /\ (x <= w => vx <= vw)
  BY <1>2, ViewOrder, Zenon
<1>4. /\ s.kind \in {"included", "excluded"} => s.at \in Nat
      /\ e.kind # "unbounded" => e.kind \in {"included", "excluded"} /\ e.at \in Nat
  BY <1>1, SMT DEF Bound, Unbounded
<1>5. /\ s.kind = "included" => s.at <= vw
      /\ s.kind = "excluded" => s.at < vw
      /\ e.kind = "included" => vw <= e.at
      /\ e.kind = "excluded" => vw < e.at
  BY Zenon DEF InBounds
<1>6. \A S : x \in BeforeStart(S, s) => (s.kind = "included" /\ vx < s.at) \/ (s.kind = "excluded" /\ vx <= s.at)
  BY Zenon DEF BeforeStart
<1>7. \A S : x \in AfterEnd(S, e) => (e.kind = "included" /\ vx > e.at) \/ (e.kind = "excluded" /\ vx >= e.at)
  BY Zenon DEF AfterEnd
<1> HIDE DEF s, e, vx, vw
<1>8. (s.kind = "included" /\ vx < s.at) \/ (s.kind = "excluded" /\ vx <= s.at) => x < w
  BY <1>1, <1>3, <1>4, <1>5, SMT
<1>9. (e.kind = "included" /\ vx > e.at) \/ (e.kind = "excluded" /\ vx >= e.at) => w < x
  BY <1>1, <1>3, <1>4, <1>5, SMT
<1>10. e.kind # "unbounded" => vw <= e.at /\ e.at \in Nat
  BY <1>3, <1>4, <1>5, SMT
<1> QED  BY <1>6, <1>7, <1>8, <1>9, <1>10, Zenon DEF s, e, vw

\* Inverted bounds hold nothing.
LEMMA InvertedHoldNothing ==
  ASSUME bounds' \in [group : Nat \ {0}, start : Bound, end : Bound], Inverted(bounds'), NEW x \in Key
  PROVE  ~InBounds(x)'
<1> DEFINE s == bounds'.start
           e == bounds'.end
           g == bounds'.group
           v == View(x)'
<1>1. s \in Bound /\ e \in Bound /\ g \in Nat \ {0} /\ x \in Int /\ v = (x + g - 1) \div g
  BY IntegerKeys, Zenon DEF View
<1>2. /\ s.kind # "unbounded" => s.kind \in {"included", "excluded"} /\ s.at \in Nat
      /\ e.kind # "unbounded" => e.kind \in {"included", "excluded"} /\ e.at \in Nat
  BY <1>1, SMT DEF Bound, Unbounded
<1>3. /\ s.kind # "unbounded" /\ e.kind # "unbounded"
      /\ IF s.kind = "included" /\ e.kind = "included" THEN s.at > e.at ELSE s.at >= e.at
  BY Zenon DEF Inverted
<1>4. InBounds(x)' => /\ s.kind = "included" => s.at <= v
                      /\ s.kind = "excluded" => s.at < v
                      /\ e.kind = "included" => v <= e.at
                      /\ e.kind = "excluded" => v < e.at
  BY Zenon DEF InBounds
<1> HIDE DEF s, e, g, v
<1>5. v \in Int
  BY <1>1, SMT
<1> QED  BY <1>2, <1>3, <1>4, <1>5, SMT

\* Past the node of the end bound nothing is in the range.
LEMMA EndReached ==
  ASSUME IInv, ScanTypes, NEW k \in EndEntry, NEW j \in Keys, j > k, NEW w \in Key, InBounds(w)
  PROVE  w <= k
<1> USE Zenon
<1> DEFINE at == bounds.end.at
           past == {i \in Keys : View(i) > at}
           equal == {i \in Keys : View(i) = at}
<1>1. k \in Keys /\ k \in Key /\ j \in Key /\ j \in Int /\ k \in Int /\ w \in Int
  BY EntriesAreKeys, EntryTypes, IntegerKeys
<1>2. k \notin Greatest(Keys)
  <2>1. ~(j <= k)
    BY <1>1, SMT
  <2> QED  BY <2>1 DEF Greatest
<1>3. /\ bounds.end.kind # "unbounded"
      /\ \/ bounds.group = 1 /\ k \in Least(past \cup equal)
         \/ bounds.group # 1 /\ past # {} /\ k \in Least(past)
         \/ bounds.group # 1 /\ past = {} /\ k \in Greatest(equal)
  BY <1>2, ZenonT(60) DEF EndEntry
<1>4. View(w) <= at /\ at \in Nat
  BY <1>3, BoundOrder
<1>5. w <= k \/ k <= w
  BY <1>1, SMT
<1>6. /\ View(w) \in Nat /\ View(k) \in Nat /\ (k <= w => View(k) <= View(w))
      /\ bounds.group = 1 => View(k) = k /\ View(w) = w
  BY <1>1, <1>5, ViewOrder
<1>7. CASE bounds.group = 1 /\ k \in Least(past \cup equal)
  <2>1. View(k) > at \/ View(k) = at
    BY <1>7 DEF Least
  <2> QED  BY <1>1, <1>4, <1>6, <1>7, <2>1, SMT
<1>8. CASE past # {} /\ k \in Least(past)
  <2>1. View(k) > at
    BY <1>8 DEF Least
  <2> QED  BY <1>1, <1>4, <1>6, <2>1, SMT
<1>9. CASE past = {} /\ k \in Greatest(equal)
  <2>1. View(k) = at /\ ~(View(j) > at) /\ (View(j) = at => j <= k)
    BY <1>9 DEF Greatest
  <2>2. k <= j
    BY <1>1, SMT
  <2>3. View(j) \in Nat /\ View(k) <= View(j)
    BY <1>1, <2>2, ViewOrder
  <2> QED  BY <1>1, <1>4, <2>1, <2>3, SMT
<1> QED  BY <1>3, <1>7, <1>8, <1>9

\* A sentinel that everything in the range lies ahead of.
LEMMA SentinelSkips ==
  ASSUME ScanTypes, NEW d \in Direction, NEW found \in SUBSET Key,
         NEW otherwise, NEW next, Sentinel(d, found, otherwise, next), UNCHANGED <<kept, bounds, yielded>>,
         \A s \in found : \A w \in Key : Waiting(w) => Ahead(d, w, s),
         \A w \in Key : Waiting(w) => \A e \in Direction : ~Passed(e, w)
  PROVE  /\ \A w \in Key : Waiting(w) => \A e \in Direction : ~Passed(e, w)'
         /\ \A e \in Direction : cursor'[e] = None => cursor[e] = None
<1> USE Zenon
<1>1. DOMAIN cursor = Direction /\ \A s \in found : s # None
  BY NoneAssumption DEF ScanTypes
<1>2. CASE UNCHANGED cursor
  BY <1>2 DEF Passed, Ahead
<1>3. ASSUME NEW s \in found, cursor' = [cursor EXCEPT ![d] = s]
      PROVE  /\ \A w \in Key : Waiting(w) => \A e \in Direction : ~Passed(e, w)'
             /\ \A e \in Direction : cursor'[e] = None => cursor[e] = None
  <2>1. cursor'[d] = s /\ \A e \in Direction \ {d} : cursor'[e] = cursor[e]
    BY <1>1, <1>3
  <2>2. \A w \in Key : Waiting(w) => ~Passed(d, w)'
    BY <1>3, <2>1 DEF Passed, Ahead
  <2>3. \A w \in Key : Waiting(w) => \A e \in Direction \ {d} : ~Passed(e, w)'
    BY <2>1 DEF Passed, Ahead
  <2> QED  BY <1>1, <2>1, <2>2, <2>3
<1> QED  BY <1>2, <1>3 DEF Sentinel

\* The constructors skip nothing.
LEMMA ConstructSkips ==
  ASSUME IInv, SInv, RInv, ScanInv, SkipInv, Construct
  PROVE  SkipInv'
<1> USE Zenon
<1>1. /\ AboveInv /\ StayInv /\ RestInv /\ WaitInv /\ ScanTypes /\ Direction \subseteq Thread
      /\ Front \in Direction /\ Back \in Direction /\ Front # Back
  BY DirectionAssumption DEF SkipInv, ScanInv, Direction
<1>2. Walks(Direction) /\ ScanTypes' /\ phase \in Constructing \cup {"none"}
  BY ConstructTypes DEF ScanInv
<1>3. AboveInv' /\ ResInv'
  <2>1. Direction \in SUBSET (Thread \ Callers)
    BY DirectionAssumption
  <2> QED  BY <1>2, <2>1, WalkKeeps DEF SkipInv
<1>4. contents' = contents /\ Acknowledged' = Acknowledged
  BY <1>2, WalkStays DEF Walks
<1>5. ASSUME phase = "none", UNCHANGED <<cursor, batch, taken, node>>, phase' \in Constructing \cup {"idle"},
             kept' = Acknowledged, \A x \in Key : met' => ~InBounds(x)'
      PROVE  SkipInv'
  <2>1. \A d \in Direction : cursor'[d] = None /\ batch'[d] = {} /\ taken'[d] = None /\ node'[d] = None
    BY <1>1, <1>5 DEF RestInv
  <2>2. phase' \notin Direction \cup {"none", "done"}
    BY <1>5, DirectionAssumption DEF Constructing
  <2>3. RestInv' /\ StayInv'
    BY <1>4, <1>5, <2>1, <2>2 DEF RestInv, StayInv
  <2>4. WaitInv'
    BY <1>5, <2>1, <2>2 DEF WaitInv, Waiting, Over, Passed, Closed, Emptied
  <2> QED  BY <1>3, <2>3, <2>4 DEF SkipInv
<1>6. ASSUME phase \in Constructing, phase' \in Constructing \cup {"idle"},
             UNCHANGED <<kept, bounds, batch, taken, yielded, node>>,
             \A x \in Key : Waiting(x) => ~met' /\ \A d \in Direction : ~Passed(d, x)',
             \A d \in Direction : cursor'[d] = None => cursor[d] = None
      PROVE  SkipInv'
  <2>1. phase' \notin Direction \cup {"none", "done"} /\ phase \notin {"none", "done"}
    BY <1>6, DirectionAssumption DEF Constructing
  <2>2. \A x : Waiting(x)' <=> Waiting(x)
    BY <1>6 DEF Waiting, InBounds, View
  <2>3. RestInv' /\ StayInv'
    BY <1>1, <1>4, <1>6, <2>1 DEF RestInv, StayInv
  <2>4. \A d \in Direction : Closed(d, batch[d])' /\ Emptied(d, batch[d])'
    BY <1>1, <1>4, <1>6, <2>2 DEF WaitInv, Closed, Emptied, Ahead
  <2>5. WaitInv'
    BY <1>6, <2>1, <2>2, <2>4 DEF WaitInv, Over
  <2> QED  BY <1>3, <2>3, <2>5 DEF SkipInv
<1>7. \A x \in Key : Waiting(x) => x \in kept /\ InBounds(x) /\ ~met /\ \A d \in Direction : ~Passed(d, x)
  BY <1>1 DEF WaitInv, Over, Waiting
<1>8. Keys \subseteq Key /\ \A k \in Keys : contents[topo.index[k]] \in SUBSET Key
  BY EntryTypes
<1>9. ASSUME NEW d \in Direction, NEW found \in SUBSET Key, NEW otherwise \in Constructing, NEW next \in Constructing,
             Sentinel(d, found, otherwise, next), phase \in Constructing,
             UNCHANGED <<vars, bounds, batch, taken, limit, met, kept, yielded, calls>>,
             \A s \in found : \A w \in Key : Waiting(w) => Ahead(d, w, s)
      PROVE  SkipInv'
  <2>1. phase' \in Constructing
    BY <1>1, <1>9, SentinelTypes
  <2>2. /\ \A w \in Key : Waiting(w) => \A e \in Direction : ~Passed(e, w)'
        /\ \A e \in Direction : cursor'[e] = None => cursor[e] = None
    BY <1>1, <1>7, <1>9, SentinelSkips
  <2>3. UNCHANGED <<kept, bounds, batch, taken, yielded, node, met>>
    BY <1>9 DEF vars, locals
  <2>4. \A x \in Key : Waiting(x) => ~met' /\ \A e \in Direction : ~Passed(e, x)'
    BY <1>7, <2>2, <2>3
  <2>5. phase' \in Constructing \cup {"idle"} /\ phase \in Constructing
    BY <1>9, <2>1
  <2> QED  BY ONLY <1>6, <2>2, <2>3, <2>4, <2>5, Zenon
<1>10. CASE IterNew
  BY <1>5, <1>10 DEF IterNew, vars, locals
<1>11. CASE RangeNew
  <2>1. bounds' \in [group : Nat \ {0}, start : Bound, end : Bound] /\ (met' => Inverted(bounds'))
    BY <1>2, <1>11 DEF RangeNew, ScanTypes
  <2>2. \A x \in Key : met' => ~InBounds(x)'
    BY <2>1, InvertedHoldNothing
  <2>3. phase' \in Constructing
    BY <1>11 DEF RangeNew, Constructing
  <2> QED  BY <1>5, <1>11, <2>2, <2>3 DEF RangeNew
<1>12. CASE NewFront
  <2> DEFINE skipped == UNION {BeforeStart(contents[topo.index[k]], bounds.start) : k \in StartEntry}
  <2>1. skipped \in SUBSET Key
    BY <1>8, EntriesAreKeys DEF BeforeStart
  <2>2. ASSUME NEW s \in Greatest(skipped), NEW w \in Key, Waiting(w) PROVE Ahead(Front, w, s)
    <3>1. s \in Key /\ s \in skipped /\ s \in Int /\ w \in Int
      BY <2>1, <2>2, IntegerKeys DEF Greatest
    <3>2. s < w
      BY <1>1, <1>7, <2>2, <3>1, BoundOrder
    <3>3. w > s
      BY <3>1, <3>2, SMT
    <3> QED  BY <3>3 DEF Ahead
  <2>3. Greatest(skipped) \in SUBSET Key
    BY <2>1 DEF Greatest
  <2>4. Sentinel(Front, Greatest(skipped), "new_pre_front", "new_back")
    BY <1>12 DEF NewFront
  <2> HIDE DEF skipped
  <2> QED  BY <1>1, <1>9, <1>12, <2>2, <2>3, <2>4 DEF NewFront, Constructing
<1>13. CASE NewPreFront
  <2> DEFINE previous == Greatest({j \in Keys : \E k \in StartEntry : j < k})
             found == UNION {Greatest(contents[topo.index[j]]) : j \in previous}
  <2>1. previous \subseteq Keys /\ found \in SUBSET Key
    BY <1>8 DEF Greatest
  <2>2. ASSUME NEW s \in found, NEW w \in Key, Waiting(w) PROVE Ahead(Front, w, s)
    <3>1. PICK j \in previous : s \in contents[topo.index[j]]
      BY <2>2 DEF Greatest
    <3>2. PICK k \in StartEntry : j < k
      BY <3>1 DEF Greatest
    <3>3. /\ j \in Keys /\ k \in Keys /\ j \in Key /\ s \in Key
          /\ j \in Int /\ k \in Int /\ s \in Int /\ w \in Int
      BY <1>8, <2>1, <2>2, <3>1, <3>2, EntriesAreKeys, IntegerKeys
    <3>4. j \in BeforeStart(Keys, bounds.start)
      <4>1. ~(k <= j)
        BY <3>2, <3>3, SMT
      <4> QED  BY <3>2, <3>3, <4>1 DEF StartEntry, Least
    <3>5. j < w
      BY <1>1, <1>7, <2>2, <3>3, <3>4, BoundOrder
    <3>6. s <= j
      BY <3>1, <3>2, <3>3, Apart
    <3>7. w > s
      BY <3>3, <3>5, <3>6, SMT
    <3> QED  BY <3>7 DEF Ahead
  <2>3. Sentinel(Front, found, "new_back", "new_back")
    BY <1>13 DEF NewPreFront
  <2> HIDE DEF found
  <2> QED  BY <1>1, <1>9, <1>13, <2>1, <2>2, <2>3 DEF NewPreFront, Constructing
<1>14. CASE NewBack
  <2> DEFINE skipped == UNION {AfterEnd(contents[topo.index[k]], bounds.end) : k \in EndEntry}
  <2>1. skipped \in SUBSET Key
    BY <1>8, EntriesAreKeys DEF AfterEnd
  <2>2. ASSUME NEW s \in Least(skipped), NEW w \in Key, Waiting(w) PROVE Ahead(Back, w, s)
    <3>1. s \in Key /\ s \in skipped
      BY <2>1, <2>2 DEF Least
    <3>2. w < s
      BY <1>1, <1>7, <2>2, <3>1, BoundOrder
    <3> QED  BY <1>1, <3>2 DEF Ahead
  <2>3. Least(skipped) \in SUBSET Key
    BY <2>1 DEF Least
  <2>4. Sentinel(Back, Least(skipped), "new_next_back", "new_ends")
    BY <1>14 DEF NewBack
  <2> HIDE DEF skipped
  <2> QED  BY <1>1, <1>9, <1>14, <2>2, <2>3, <2>4 DEF NewBack, Constructing
<1>15. CASE NewNextBack
  <2> DEFINE following == Least({j \in Keys : \E k \in EndEntry : j > k})
             found == UNION {Least(contents[topo.index[j]]) : j \in following}
  <2>1. following \subseteq Keys /\ found \in SUBSET Key
    BY <1>8 DEF Least
  <2>2. ASSUME NEW s \in found, NEW w \in Key, Waiting(w) PROVE Ahead(Back, w, s)
    <3>1. PICK j \in following : s \in contents[topo.index[j]]
      BY <2>2 DEF Least
    <3>2. PICK k \in EndEntry : j > k
      BY <3>1 DEF Least
    <3>3. j \in Keys /\ k \in Keys /\ j \in Int /\ k \in Int /\ s \in Int /\ w \in Int
      BY <1>8, <2>1, <2>2, <3>1, <3>2, EntriesAreKeys, IntegerKeys
    <3>4. w <= k
      BY <1>1, <1>7, <2>2, <3>2, <3>3, EndReached
    <3>5. k < j
      BY <3>2, <3>3, SMT
    <3>6. k < s
      BY <3>1, <3>3, <3>5, Apart
    <3>7. w < s
      BY <3>3, <3>4, <3>6, SMT
    <3> QED  BY <1>1, <3>7 DEF Ahead
  <2>3. Sentinel(Back, found, "new_ends", "new_ends")
    BY <1>15 DEF NewNextBack
  <2> HIDE DEF found
  <2> QED  BY <1>1, <1>9, <1>15, <2>1, <2>2, <2>3 DEF NewNextBack, Constructing
<1>16. CASE NewEnds
  <2> DEFINE max == UNION {Greatest(contents[topo.index[k]]) : k \in Greatest(Keys)}
             min == UNION {Least(contents[topo.index[k]]) : k \in Least(Keys)}
  <2>1. ASSUME NEW w \in Key, Waiting(w) PROVE BeforeStart(max, bounds.start) = {} /\ AfterEnd(min, bounds.end) = {}
    <3>1. PICK h \in Keys : Home(w, h)
      BY <1>1, <1>7, <2>1, Located
    <3>2. w \in contents[topo.index[h]] /\ w \in Int /\ h \in Int
      BY <1>8, <3>1, IntegerKeys DEF Home
    <3>3. ASSUME NEW x \in BeforeStart(max, bounds.start) PROVE FALSE
      <4>1. PICK k \in Greatest(Keys) : x \in Greatest(contents[topo.index[k]])
        BY <3>3 DEF BeforeStart
      <4>2. k \in Keys /\ h <= k /\ x \in contents[topo.index[k]] /\ x \in Key /\ x \in Int /\ k \in Int
        BY <1>8, <3>1, <4>1, IntegerKeys DEF Greatest
      <4>3. x < w
        BY <1>1, <1>7, <2>1, <3>3, <4>2, BoundOrder
      <4>4. h = k => w <= x
        BY <3>2, <4>1 DEF Greatest
      <4>5. h < k => h < x /\ w <= h
        BY <3>1, <3>2, <4>2, Apart
      <4> QED  BY <3>2, <4>2, <4>3, <4>4, <4>5, SMT
    <3>4. ASSUME NEW x \in AfterEnd(min, bounds.end) PROVE FALSE
      <4>1. PICK k \in Least(Keys) : x \in Least(contents[topo.index[k]])
        BY <3>4 DEF AfterEnd
      <4>2. k \in Keys /\ k <= h /\ x \in contents[topo.index[k]] /\ x \in Key /\ x \in Int /\ k \in Int
        BY <1>8, <3>1, <4>1, IntegerKeys DEF Least
      <4>3. w < x
        BY <1>1, <1>7, <2>1, <3>4, <4>2, BoundOrder
      <4>4. h = k => x <= w
        BY <3>2, <4>1 DEF Least
      <4>5. k < h => x <= k /\ k < w
        BY <3>1, <3>2, <4>2, Apart
      <4> QED  BY <3>2, <4>2, <4>3, <4>4, <4>5, SMT
    <3> QED  BY <3>3, <3>4
  <2>2. met' => met \/ BeforeStart(max, bounds.start) # {} \/ AfterEnd(min, bounds.end) # {}
    BY <1>16 DEF NewEnds
  <2> HIDE DEF max, min
  <2>3. UNCHANGED <<kept, bounds, batch, taken, yielded, node, cursor>> /\ phase = "new_ends" /\ phase' = "idle"
    BY <1>16 DEF NewEnds
  <2>4. \A x \in Key : Waiting(x) => ~met' /\ \A d \in Direction : ~Passed(d, x)'
    BY <1>7, <2>1, <2>2, <2>3 DEF Passed, Ahead
  <2> QED  BY <1>6, <2>3, <2>4 DEF Constructing
<1> QED  BY <1>10, <1>11, <1>12, <1>13, <1>14, <1>15, <1>16 DEF Construct

-----------------------------------------------------------------------------
(* From the initial state to the properties.                               *)

\* The invariants of the scan hold initially.
LEMMA ScanStarts ==
  ASSUME ScanInit
  PROVE  ScanInv /\ SkipInv
<1> USE Zenon
<1>1. /\ Init /\ phase = "none" /\ bounds = Everything /\ met = FALSE /\ kept = {} /\ yielded = {}
      /\ cursor = Both(None) /\ batch = Both({}) /\ taken = Both(None) /\ limit = Both(InitialBatch)
  BY DEF ScanInit
<1>2. \A t \in Thread : pc[t] = "idle" /\ op[t] = None /\ node[t] = None /\ res[t] = None
  BY <1>1 DEF Init
<1>3. WalkInv
  BY <1>1, <1>2, DirectionAssumption DEF WalkInv, Constructing
<1>4. ScanTypes
  <2>1. Everything \in [group : Nat \ {0}, start : Bound, end : Bound]
    BY SMT DEF Everything, Bound, Unbounded
  <2> QED  BY <1>1, <2>1, BatchAssumption DEF ScanTypes, Both
<1>5. YieldInv
  BY <1>1 DEF YieldInv
<1>6. ResInv /\ AboveInv
  BY <1>2 DEF ResInv, ResOK, Pending, Undecided, Decided, AboveInv, OwnAbove, Repairing
<1>7. /\ Direction \subseteq Thread
      /\ \A d \in Direction : cursor[d] = None /\ batch[d] = {} /\ taken[d] = None /\ node[d] = None
  BY <1>1, <1>2, DirectionAssumption DEF Both
<1>8. StayInv /\ RestInv
  BY <1>1, <1>7, DirectionAssumption DEF StayInv, RestInv
<1>9. WaitInv
  BY <1>1, <1>7 DEF WaitInv, Waiting, Closed, Emptied
<1> QED  BY <1>3, <1>4, <1>5, <1>6, <1>8, <1>9 DEF ScanInv, SkipInv

\* What waits is ahead of both cursors while the scan lasts.
LEMMA WaitingIsAhead ==
  ASSUME IInv, SkipInv
  PROVE  NothingSkipped
<1>1. kept \subseteq Key
  <2>1. \A n \in Linked : contents[n] \subseteq Key
    BY EntryTypes, Zenon DEF Linked, Range, Keys
  <2> QED  BY <2>1, Zenon DEF SkipInv, StayInv, Acknowledged
<1> QED  BY <1>1, Zenon DEF SkipInv, WaitInv, NothingSkipped, Waiting, Passed, Over

\* What a cursor moves to was not yielded before.
YieldsFresh ==
  \A d \in Direction :
    phase \in {"idle", d} /\ cursor'[d] # cursor[d] /\ phase' = "idle" => cursor'[d] \notin yielded

\* The scan's own steps, and steps that change nothing.
ScanMoves == Construct \/ (\E d \in Direction : Advance(d)) \/ DropScan \/ UNCHANGED <<vars, scan>>

\* They keep the invariants of the set and of the scan.
LEMMA ScanMovesKeep ==
  ASSUME IInv, ScanInv, ScanMoves
  PROVE  /\ IInv' /\ ScanInv' /\ YieldsFresh
         /\ SInv /\ RInv => SInv' /\ RInv' /\ (SkipInv => SkipInv')
<1> USE Zenon
<1>1. Direction \in SUBSET (Thread \ Callers)
  BY DirectionAssumption
<1>2. CASE Construct
  <2>1. Walks(Direction) /\ ScanInv' /\ phase \in Constructing \cup {"none"}
    BY <1>2, ConstructTypes
  <2>2. YieldsFresh
    BY <2>1, DirectionAssumption DEF YieldsFresh, Constructing
  <2> QED  BY <1>1, <1>2, <2>1, <2>2, WalkKeeps, ConstructSkips
<1>3. ASSUME NEW d \in Direction, Advance(d)
      PROVE  /\ IInv' /\ ScanInv' /\ YieldsFresh
             /\ SInv /\ RInv => SInv' /\ RInv' /\ (SkipInv => SkipInv')
  <2>1. /\ Walks(Direction) /\ ScanInv'
        /\ \A e \in Direction : cursor'[e] # cursor[e] => cursor'[e] \notin yielded
    BY <1>3, AdvanceYields
  <2> QED  BY <1>1, <1>3, <2>1, WalkKeeps, AdvanceSkips DEF YieldsFresh
<1>4. CASE DropScan
  <2>1. Walks(Direction) /\ ScanInv' /\ phase' = "none"
    BY <1>4, DropTypes DEF DropScan
  <2>2. YieldsFresh
    BY <2>1 DEF YieldsFresh
  <2> QED  BY <1>1, <1>4, <2>1, <2>2, WalkKeeps, DropSkips
<1>5. CASE UNCHANGED <<vars, scan>>
  <2>1. UNCHANGED vars /\ UNCHANGED <<phase, bounds, cursor, batch, taken, limit, met, kept, yielded, calls>>
    BY <1>5 DEF scan
  <2>2. Walks(Direction)
    BY <2>1, ScanOnly DEF ScanInv
  <2>3. topo' = topo /\ contents' = contents /\ pc' = pc /\ op' = op /\ arg' = arg /\ node' = node /\ res' = res
    BY <2>1 DEF vars, shared, locals
  <2>4. ScanInv'
    BY <2>1, <2>3 DEF ScanInv, WalkInv, ScanTypes, YieldInv, Passed, Ahead
  <2>5. StayInv => StayInv'
    BY <2>1, <2>2, WalkStays DEF StayInv
  <2>6. \A x : Waiting(x)' <=> Waiting(x)
    BY <2>1 DEF Waiting, InBounds, View
  <2>7. RestInv /\ WaitInv => RestInv' /\ WaitInv'
    BY <2>1, <2>3, <2>6 DEF RestInv, WaitInv, Over, Passed, Ahead, Closed, Emptied
  <2> QED  BY <1>1, <2>1, <2>2, <2>4, <2>5, <2>7, WalkKeeps DEF YieldsFresh, SkipInv
<1> QED  BY <1>2, <1>3, <1>4, <1>5 DEF ScanMoves

\* The writers' steps are steps of the set.
LEMMA WritersRunTheSet ==
  ASSUME NEW t \in Writers, WriterCall(t) \/ WriterStep(t)
  PROVE  t \in Thread /\ (Call(t) \/ Step(t)) /\ YieldsFresh
BY Zenon DEF Writers, WriterCall, WriterStep, YieldsFresh

-----------------------------------------------------------------------------
(* The export: the elements of a node in order.                            *)

\* How many elements of c come before x.
Below(c, x) == {y \in c : y < x}

Rank(c, x) == Cardinality(Below(c, x))

\* The next element has the next rank.
LEMMA RankNext ==
  ASSUME KeySetsCount, NEW c \in SUBSET Key, NEW x \in c, NEW y \in c, x < y, \A z \in c : x < z => y <= z
  PROVE  Rank(c, y) = Rank(c, x) + 1
<1>1. \A z \in c : z \in Int
  BY IntegerKeys, Zenon
<1>2. Below(c, y) \ {x} = Below(c, x) /\ x \in Below(c, y)
  BY <1>1, SMT DEF Below
<1>3. Below(c, y) \in SUBSET Key /\ Below(c, x) \in SUBSET Key
  BY Zenon DEF Below
<1>4. Cardinality(Below(c, x)) = Cardinality(Below(c, y)) - 1
  BY <1>2, <1>3, Zenon DEF KeySetsCount
<1>5. Cardinality(Below(c, y)) \in Nat
  BY <1>3, Zenon DEF KeySetsCount
<1> QED  BY <1>4, <1>5, SMT DEF Rank

\* Ranks count from zero, and order the elements.
LEMMA RankOrder ==
  ASSUME KeySetsCount, NEW c \in SUBSET Key, NEW x \in c
  PROVE  /\ Rank(c, x) \in Nat /\ Cardinality(c) \in Nat /\ Rank(c, x) < Cardinality(c)
         /\ \A y \in c : x < y => Rank(c, x) < Rank(c, y) /\ Rank(c, y) \in Nat
<1>1. \A z \in c : z \in Int
  BY IntegerKeys, Zenon
<1>2. \A d \in SUBSET c : d \in SUBSET Key /\ Cardinality(d) \in Nat
  BY Zenon DEF KeySetsCount
<1>3. ASSUME NEW d \in SUBSET c, x \in d, Below(c, x) \subseteq d PROVE Rank(c, x) < Cardinality(d)
  <2>1. x \notin Below(c, x)
    BY <1>1, SMT DEF Below
  <2>2. Below(c, x) \subseteq d \ {x} /\ d \ {x} \in SUBSET c /\ Below(c, x) \in SUBSET c
    BY <1>3, <2>1, Zenon DEF Below
  <2>3. Cardinality(Below(c, x)) <= Cardinality(d \ {x}) /\ Cardinality(d \ {x}) = Cardinality(d) - 1
    BY <1>2, <1>3, <2>2, Zenon DEF KeySetsCount
  <2>4. Cardinality(Below(c, x)) \in Nat /\ Cardinality(d) \in Nat
    BY <1>2, <1>3, <2>2, Zenon
  <2> QED  BY <2>3, <2>4, SMT DEF Rank
<1>4. \A y \in c : Below(c, y) \in SUBSET c
  BY Zenon DEF Below
<1>5. ASSUME NEW y \in c, x < y PROVE Rank(c, x) < Rank(c, y)
  <2>1. x \in Below(c, y) /\ Below(c, x) \subseteq Below(c, y)
    BY <1>1, <1>5, SMT DEF Below
  <2> QED  BY <1>3, <1>4, <2>1, Zenon DEF Rank
<1>6. Rank(c, x) < Cardinality(c)
  <2>1. c \in SUBSET c
    BY Zenon
  <2> QED  BY <1>3, <1>4, <2>1, Zenon
<1> QED  BY <1>2, <1>4, <1>5, <1>6, Zenon DEF Rank

\* Every rank up to the number of elements is that of an element.
LEMMA RankExists ==
  ASSUME KeySetsCount, NEW c \in SUBSET Key, NEW i \in Nat, i < Cardinality(c)
  PROVE  \E x \in c : Rank(c, x) = i
<1>1. \A z \in c : z \in Int
  BY IntegerKeys, Zenon
<1>2. /\ \A z \in c : Rank(c, z) \in Nat /\ Rank(c, z) < Cardinality(c)
      /\ Cardinality(c) \in Nat
  BY RankOrder, Zenon DEF KeySetsCount
<1>3. c # {}
  <2> SUFFICES ASSUME c = {} PROVE FALSE
    OBVIOUS
  <2>1. Cardinality(c) = 0
    BY Zenon DEF KeySetsCount
  <2> QED  BY <2>1, SMT
<1>4. PICK first \in c : \A y \in c : first <= y
  BY <1>3, Zenon DEF KeySetsCount
<1>5. Rank(c, first) = 0
  <2>1. Below(c, first) = {}
    BY <1>1, <1>4, SMT DEF Below
  <2> QED  BY <2>1, Zenon DEF Rank, KeySetsCount
<1>6. CASE i = 0
  BY <1>5, <1>6, Zenon
<1>7. CASE i # 0
  <2> DEFINE S == {y \in c : Rank(c, y) < i}
             T(m) == {y \in c : m < y}
  <2>1. first \in S
    BY <1>5, <1>7, SMT
  <2>2. PICK m \in S : \A y \in S : y <= m
    <3>1. S \in SUBSET Key /\ S # {}
      BY <2>1, Zenon
    <3> HIDE DEF S
    <3> QED  BY <3>1, Zenon DEF KeySetsCount
  <2>3. m \in c /\ Rank(c, m) < i
    BY <2>2, Zenon
  <2>4. T(m) # {}
    <3> SUFFICES ASSUME T(m) = {} PROVE FALSE
      OBVIOUS
    <3>1. c \ {m} = Below(c, m)
      <4>1. \A y \in c : ~(m < y)
        BY Zenon
      <4> QED  BY <1>1, <2>3, <4>1, SMT DEF Below
    <3>2. Rank(c, m) = Cardinality(c) - 1
      BY <2>3, <3>1, Zenon DEF Rank, KeySetsCount
    <3> HIDE DEF S, T
    <3> QED  BY <1>2, <2>3, <3>2, SMT
  <2>5. PICK n \in T(m) : \A y \in T(m) : n <= y
    <3>1. T(m) \in SUBSET Key
      BY Zenon
    <3> HIDE DEF T
    <3> QED  BY <2>4, <3>1, Zenon DEF KeySetsCount
  <2>6. n \in c /\ m < n /\ \A z \in c : m < z => n <= z
    BY <2>5, Zenon
  <2>7. Rank(c, n) = Rank(c, m) + 1
    BY <2>3, <2>6, RankNext, Zenon
  <2>8. ~(Rank(c, n) < i)
    <3>1. ~(n <= m)
      BY <1>1, <2>3, <2>6, SMT
    <3> QED  BY <2>2, <2>6, <3>1, Zenon
  <2> HIDE DEF S, T
  <2>9. Rank(c, n) = i
    BY <1>2, <2>3, <2>6, <2>7, <2>8, SMT
  <2> QED  BY <2>6, <2>9, Zenon
<1> QED  BY <1>6, <1>7, Zenon

\* InOrder lists a node's elements, each once and in increasing order.
LEMMA Listed ==
  ASSUME KeySetsCount, NEW c \in SUBSET Key
  PROVE  /\ InOrder(c) \in Seq(Key) /\ Len(InOrder(c)) = Cardinality(c) /\ Cardinality(c) \in Nat
         /\ \A i \in 1 .. Cardinality(c) : InOrder(c)[i] \in c
         /\ \A i, j \in 1 .. Cardinality(c) : i < j => InOrder(c)[i] < InOrder(c)[j]
         /\ \A x \in c : \E i \in 1 .. Cardinality(c) : InOrder(c)[i] = x
<1> DEFINE n == Cardinality(c)
           At(i) == CHOOSE x \in c : Rank(c, x) = i - 1
<1>1. n \in Nat
  BY Zenon DEF KeySetsCount
<1>2. \A z \in c : z \in Int
  BY IntegerKeys, Zenon
<1>3. ASSUME NEW i \in 1 .. n PROVE At(i) \in c /\ Rank(c, At(i)) = i - 1
  <2>1. i - 1 \in Nat /\ i - 1 < n
    <3> HIDE DEF n
    <3> QED  BY <1>1, SMT
  <2>2. \E x \in c : Rank(c, x) = i - 1
    BY <2>1, RankExists, Zenon
  <2> QED  BY <2>2, Zenon
<1>4. InOrder(c) = [i \in 1 .. n |-> At(i)]
  BY Zenon DEF InOrder, Rank, Below
<1> HIDE DEF At, n
<1>5. InOrder(c) \in [1 .. n -> Key]
  BY <1>3, <1>4, Zenon
<1>6. InOrder(c) \in Seq(Key) /\ Len(InOrder(c)) = n
  BY <1>1, <1>5, SMT
<1>7. \A i \in 1 .. n : InOrder(c)[i] = At(i)
  BY <1>4, Zenon
<1>8. ASSUME NEW x \in c, NEW y \in c, Rank(c, x) < Rank(c, y) PROVE x < y
  <2>1. x \in Int /\ y \in Int /\ Rank(c, x) \in Nat /\ Rank(c, y) \in Nat
    BY <1>2, RankOrder, Zenon
  <2>2. y < x => Rank(c, y) < Rank(c, x)
    BY RankOrder, Zenon
  <2> QED  BY <1>8, <2>1, <2>2, SMT
<1>9. ASSUME NEW i \in 1 .. n, NEW j \in 1 .. n, i < j PROVE At(i) < At(j)
  <2>1. i - 1 < j - 1
    BY <1>1, <1>9, SMT
  <2> QED  BY <1>3, <1>8, <2>1, Zenon
<1>10. ASSUME NEW x \in c PROVE \E i \in 1 .. n : At(i) = x
  <2>1. Rank(c, x) \in Nat /\ Rank(c, x) < n
    BY RankOrder, Zenon DEF n
  <2>2. Rank(c, x) + 1 \in 1 .. n /\ (Rank(c, x) + 1) - 1 = Rank(c, x)
    BY <1>1, <2>1, SMT
  <2> DEFINE y == At(Rank(c, x) + 1)
  <2>3. y \in c /\ Rank(c, y) = Rank(c, x)
    BY <1>3, <2>2, Zenon
  <2> HIDE DEF y
  <2>4. ~(Rank(c, y) < Rank(c, x)) /\ ~(Rank(c, x) < Rank(c, y)) /\ x \in Int /\ y \in Int
    BY <1>2, <2>1, <2>3, SMT
  <2>5. ~(x < y) /\ ~(y < x)
    BY <2>3, <2>4, RankOrder, Zenon
  <2>6. x = y
    BY <2>4, <2>5, SMT
  <2> QED  BY <2>2, <2>6, Zenon DEF y
<1> QED  BY <1>1, <1>3, <1>6, <1>7, <1>9, <1>10, Zenon DEF n

\* A part of a set and the rest are as many as the set.
DifferencesCount ==
  \A c \in SUBSET Key : \A d \in SUBSET c : Cardinality(c \ d) = Cardinality(c) - Cardinality(d)

\* halve leaves half of the elements, rounded down, in place.
LEMMA HalfCount ==
  ASSUME KeySetsCount, DifferencesCount, NEW c \in SUBSET Key
  PROVE  /\ Cardinality(c) \in Nat
         /\ Cardinality(LowerHalf(c)) = Cardinality(c) \div 2
         /\ Cardinality(c \ LowerHalf(c)) = Cardinality(c) - Cardinality(c) \div 2
<1>1. Cardinality(c) \in Nat
  BY Zenon DEF KeySetsCount
<1>2. \A z \in c : z \in Int
  BY IntegerKeys, Zenon
<1>3. LowerHalf(c) = {x \in c : Rank(c, x) < Cardinality(c) \div 2}
  BY Zenon DEF LowerHalf, Rank, Below
<1>4. Cardinality(LowerHalf(c)) = Cardinality(c) \div 2
  <2>1. CASE c = {}
    <3>1. LowerHalf(c) = {} /\ Cardinality(c) = 0 /\ Cardinality(LowerHalf(c)) = 0
      BY <2>1, Zenon DEF LowerHalf, KeySetsCount
    <3> QED  BY <3>1, SMT
  <2>2. CASE c # {}
    <3>1. PICK z \in c : TRUE
      BY <2>2, Zenon
    <3>2. Rank(c, z) \in Nat /\ Rank(c, z) < Cardinality(c)
      BY RankOrder, Zenon
    <3>3. Cardinality(c) \div 2 \in Nat /\ Cardinality(c) \div 2 < Cardinality(c)
      BY <1>1, <3>2, SMT
    <3>4. PICK x \in c : Rank(c, x) = Cardinality(c) \div 2
      BY <3>3, RankExists, Zenon
    <3>5. ASSUME NEW y \in c PROVE Rank(c, y) < Rank(c, x) <=> y < x
      <4>1. x \in Int /\ y \in Int /\ Rank(c, x) \in Nat /\ Rank(c, y) \in Nat
        BY <1>2, RankOrder, Zenon
      <4>2. (x < y => Rank(c, x) < Rank(c, y)) /\ (y < x => Rank(c, y) < Rank(c, x))
        BY RankOrder, Zenon
      <4>3. CASE x = y
        BY <4>1, <4>3, SMT
      <4>4. CASE x # y
        BY <4>1, <4>2, <4>4, SMT
      <4> QED  BY <4>3, <4>4
    <3>6. LowerHalf(c) = Below(c, x)
      BY <1>3, <3>4, <3>5, Zenon DEF Below
    <3> QED  BY <3>4, <3>6, Zenon DEF Rank
  <2> QED  BY <2>1, <2>2
<1>5. LowerHalf(c) \in SUBSET c
  BY Zenon DEF LowerHalf
<1>6. Cardinality(c \ LowerHalf(c)) = Cardinality(c) - Cardinality(LowerHalf(c))
  BY <1>5, Zenon DEF DifferencesCount
<1> QED  BY <1>1, <1>4, <1>6, Zenon

-----------------------------------------------------------------------------
(* The export: its inductive invariant.                                    *)

\* The exporter makes no calls of the set, and copies under the read guard.
ExportWalk == op[Exporter] = None /\ pc[Exporter] = IF stage = "copying" THEN "walk" ELSE "idle"

\* What is still to be copied is in the index.
CopyInv ==
  /\ stage = "none" => image = <<>>
  /\ stage = "copying" => todo \subseteq Keys
  /\ stage \in {"copying", "held"} => image \in Seq(Seq(Key))

ExportInv == ExportWalk /\ CopyInv

InImage(x) == \E i \in DOMAIN image : x \in Range(image[i])

\* What stayed has been copied, or is in a node that will be.
KeptInv ==
  /\ stage = "given" => stayed = {}
  /\ stage = "copying" => \A x \in stayed : InImage(x) \/ \E k \in todo : x \in contents[topo.index[k]]
  /\ stage \in {"held", "restored"} => \A x \in stayed : InImage(x)

\* Nodes hold no more than they may.
CapInv == \A n \in Node : Cardinality(contents[n]) <= Capacity

LastOf(s) == s[Len(s)]

\* The copies are in order, and end at or below a key before those to come.
OrderInv ==
  /\ stage \in {"copying", "held"} => \A i \in DOMAIN image : ValidNode(image, i)
  /\ stage = "copying" /\ image # <<>> =>
       \A k \in todo : \E b \in Keys : b < k /\ LastOf(LastOf(image)) <= b

-----------------------------------------------------------------------------
(* The export: steps of the writers.                                       *)

\* A set that gains one element at most has room for it.
LEMMA OneMore ==
  ASSUME KeySetsCount, NEW c \in SUBSET Key, NEW d \in SUBSET Key, NEW v \in Key, d \subseteq c \cup {v},
         Cardinality(c) < Capacity
  PROVE  Cardinality(d) <= Capacity
<1>1. d \ {v} \subseteq c /\ d \ {v} \in SUBSET Key
  BY Zenon
<1>2. Cardinality(d \ {v}) <= Cardinality(c)
  BY <1>1, Zenon DEF KeySetsCount
<1>3. Cardinality(d \ {v}) \in Nat /\ Cardinality(c) \in Nat /\ Cardinality(d) \in Nat
  BY <1>1, Zenon DEF KeySetsCount
<1>4. CASE v \in d
  <2>1. Cardinality(d \ {v}) = Cardinality(d) - 1
    BY <1>4, Zenon DEF KeySetsCount
  <2> QED  BY <1>2, <1>3, <2>1, CapacityAssumption, SMT
<1>5. CASE v \notin d
  <2>1. d \ {v} = d
    BY <1>5, Zenon
  <2> QED  BY <1>2, <1>3, <2>1, CapacityAssumption, SMT
<1> QED  BY <1>4, <1>5

\* No step overfills a node whose capacity is more than one element.
LEMMA NodesKeepToCapacity ==
  ASSUME IInv, IInv', DifferencesCount, Capacity > 1, Attachers = {}, CallerInv, CapInv,
         NEW t \in Thread, NodesChange(t)
  PROVE  CapInv'
<1> SUFFICES ASSUME NEW n \in Node PROVE Cardinality(contents'[n]) <= Capacity
  BY Zenon DEF CapInv
<1>1. KeySetsCount /\ contents[n] \in SUBSET Key /\ contents'[n] \in SUBSET Key
      /\ \A m \in Node : contents[m] \in SUBSET Key
  BY Zenon DEF IInv, TypeOK
<1>2. /\ \A m \in Node : Cardinality(contents[m]) <= Capacity /\ Cardinality(contents[m]) \in Nat
      /\ Cardinality(contents'[n]) \in Nat /\ Capacity \in Nat
  BY <1>1, CapacityAssumption, Zenon DEF CapInv, KeySetsCount
<1>3. ASSUME NEW m \in Node
      PROVE  /\ LowerHalf(contents[m]) \in SUBSET Key /\ Cardinality(LowerHalf(contents[m])) < Capacity
             /\ contents[m] \ LowerHalf(contents[m]) \in SUBSET Key
             /\ Cardinality(contents[m] \ LowerHalf(contents[m])) < Capacity
  <2> DEFINE N == Cardinality(contents[m])
  <2>1. /\ Cardinality(LowerHalf(contents[m])) = N \div 2
        /\ Cardinality(contents[m] \ LowerHalf(contents[m])) = N - N \div 2
    BY <1>1, HalfCount, Zenon
  <2>2. N \in Nat /\ N <= Capacity
    BY <1>2, Zenon
  <2> HIDE DEF N
  <2>3. N \div 2 < Capacity /\ N - N \div 2 < Capacity
    BY <1>2, <2>2, SMT
  <2>4. LowerHalf(contents[m]) \subseteq contents[m]
    BY Zenon DEF LowerHalf
  <2> QED  BY <1>1, <2>1, <2>3, <2>4, Zenon
<1>4. CASE contents'[n] \subseteq contents[n]
  <2>1. Cardinality(contents'[n]) <= Cardinality(contents[n])
    BY <1>1, <1>4, Zenon DEF KeySetsCount
  <2> QED  BY <1>2, <2>1, SMT
<1>5. ASSUME NEW c \in SUBSET Key, Cardinality(c) < Capacity, arg[t] \in Key, contents'[n] \subseteq c \cup {arg[t]}
      PROVE  Cardinality(contents'[n]) <= Capacity
  BY <1>1, <1>5, OneMore, Zenon
<1>6. op[t] # "attach_node"
  BY NoneAssumption, Zenon DEF CallerInv, MayCall, Operations
<1>7. CASE arg[t] \in Key /\ contents'[n] \subseteq {arg[t]}
  <2>1. {} \in SUBSET Key /\ Cardinality({}) < Capacity /\ contents'[n] \subseteq {} \cup {arg[t]}
    <3>1. Cardinality({}) = 0
      BY <1>1, Zenon DEF KeySetsCount
    <3>2. Cardinality({}) < Capacity
      BY <1>2, <3>1, SMT
    <3> QED  BY <1>7, <3>2, Zenon
  <2> QED  BY <1>5, <1>7, <2>1, Zenon
<1> QED  BY <1>1, <1>3, <1>4, <1>5, <1>6, <1>7, Zenon DEF NodesChange

\* What a writer leaves alone while the exporter holds the read guard: the
\* index, and every node but the one it works in.
Confined(t) ==
  stage = "copying" => topo' = topo /\ \A n \in Node : contents'[n] = contents[n] \/ n = node[t]

WriterBeside(t) ==
  /\ t \in Thread \ {Exporter} /\ (Call(t) \/ Step(t))
  /\ stayed' = stayed \cap Acknowledged' /\ UNCHANGED <<stage, todo, image>>

\* A writer's step leaves the copies alone.
LEMMA WriterCopies ==
  ASSUME ExportInv, NEW t, WriterBeside(t), OthersStay(t), Confined(t)
  PROVE  ExportInv' /\ (OrderInv => OrderInv')
<1> USE Zenon
<1>1. stage' = stage /\ todo' = todo /\ image' = image /\ Exporter \in Thread \ {t}
  BY ExporterAssumption DEF WriterBeside
<1>2. ExportWalk'
  BY <1>1 DEF ExportInv, ExportWalk, OthersStay
<1>3. stage = "copying" => Keys' = Keys
  BY DEF Confined, Keys
<1>4. CopyInv'
  BY <1>1, <1>3 DEF ExportInv, CopyInv
<1>5. OrderInv => OrderInv'
  BY <1>1, <1>3 DEF OrderInv, LastOf, ValidNode
<1> QED  BY <1>2, <1>4, <1>5 DEF ExportInv

\* What stays where it is to be copied stays there: removed and inserted again
\* it is not acknowledged before the insert returns.
LEMMA WriterStays ==
  ASSUME IInv, RInv, ExportInv, KeptInv, NEW t, WriterBeside(t), Confined(t), GrowsByInsert(t)
  PROVE  KeptInv'
<1> USE Zenon
<1>1. stage' = stage /\ todo' = todo /\ image' = image /\ t \in Thread
      /\ stayed' \subseteq stayed /\ stayed' \subseteq Acknowledged'
  BY DEF WriterBeside
<1>2. \A x : InImage(x)' <=> InImage(x)
  BY <1>1 DEF InImage
<1>3. ASSUME stage = "copying", NEW x \in stayed', NEW k \in todo, x \in contents[topo.index[k]]
      PROVE  x \in contents'[topo'.index[k]]
  <2>1. topo' = topo /\ todo \subseteq Keys /\ Keys' = Keys
    BY <1>3 DEF Confined, ExportInv, CopyInv, Keys
  <2>2. /\ \E j \in Keys : x \in contents'[topo.index[j]]
        /\ \A u \in Thread : ~(op'[u] = "insert" /\ res'[u] = TRUE /\ arg'[u] = x)
    <3>1. x \in Acknowledged' /\ Linked' = Linked
      BY <1>1, <1>3, <2>1 DEF Linked
    <3>2. \E n \in Linked : x \in contents'[n]
      BY <3>1 DEF Acknowledged
    <3>3. \A u \in Thread : ~(op'[u] = "insert" /\ res'[u] = TRUE /\ arg'[u] = x)
      BY <3>1 DEF Acknowledged
    <3> QED  BY <3>2, <3>3 DEF Linked, Range, Keys
  <2>3. PICK j \in Keys : x \in contents'[topo.index[j]]
    BY <2>2
  <2>4. k \in Keys /\ topo.index[j] \in Node /\ j \in Int /\ k \in Int
    BY <2>1, EntryTypes, IntegerKeys
  <2>5. x \in contents[topo.index[j]]
    <3>1. CASE contents'[topo.index[j]] = contents[topo.index[j]]
      BY <2>3, <3>1
    <3>2. CASE topo.index[j] = node[t]
      BY <1>1, <2>2, <2>3, <2>4, <3>2 DEF GrowsByInsert
    <3> QED  BY <1>3, <2>4, <3>1, <3>2 DEF Confined
  <2>6. ~(j < k) /\ ~(k < j)
    <3>1. ASSUME NEW a \in Keys, NEW b \in Keys, a < b, x \in contents[topo.index[a]], x \in contents[topo.index[b]]
          PROVE  FALSE
      <4>1. x \in Int /\ x <= a /\ a < x /\ a \in Int
        BY <3>1, Apart, EntryTypes, IntegerKeys
      <4> QED  BY <4>1, SMT
    <3> QED  BY <1>3, <2>4, <2>5, <3>1
  <2>7. j = k
    BY <2>4, <2>6, SMT
  <2> QED  BY <2>1, <2>3, <2>7
<1> QED  BY <1>1, <1>2, <1>3 DEF KeptInv

-----------------------------------------------------------------------------
(* The export: its own steps.                                              *)

\* The exporter's steps, and steps that change nothing.
ExportMoves ==
  ExportBegin \/ ExportNode \/ ExportEnd \/ Restore \/ Discard \/ UNCHANGED <<vars, checkpoint>>

\* The exporter is a walk over the set.
LEMMA ExporterWalks ==
  ASSUME IInv, ExportInv, ExportMoves
  PROVE  Walks({Exporter}) /\ ExportWalk'
<1> USE Zenon
<1>1. Exporter \in Thread /\ op[Exporter] = None /\ DOMAIN pc = Thread /\ node \in [Thread -> Node \cup {None}]
      /\ pc[Exporter] = IF stage = "copying" THEN "walk" ELSE "idle"
  BY ExporterAssumption DEF ExportInv, ExportWalk, IInv, TypeOK
<1>2. ASSUME UNCHANGED vars, (stage' = "copying") <=> (stage = "copying") PROVE Walks({Exporter}) /\ ExportWalk'
  <2>1. /\ topo' = topo /\ root' = root /\ odd' = odd /\ unmoved' = unmoved /\ contents' = contents
        /\ pc' = pc /\ op' = op /\ arg' = arg /\ node' = node /\ key' = key /\ retries' = retries /\ res' = res
    BY <1>2 DEF vars, shared, locals
  <2> QED  BY <1>1, <1>2, <2>1 DEF Walks, ExportWalk
<1>3. ASSUME NEW l \in {"idle", "walk"}, Goto(Exporter, l), UNCHANGED <<shared, op, arg, node, key, retries, res>>,
             l = "walk" => CanReadTopology /\ stage' = "copying", l = "idle" => stage' = "held"
      PROVE  Walks({Exporter}) /\ ExportWalk'
  <2>1. /\ topo' = topo /\ root' = root /\ odd' = odd /\ unmoved' = unmoved /\ contents' = contents
        /\ op' = op /\ arg' = arg /\ node' = node /\ key' = key /\ retries' = retries /\ res' = res
    BY <1>3 DEF shared
  <2>2. DOMAIN pc' = Thread /\ pc'[Exporter] = l /\ \A t \in Thread \ {Exporter} : pc'[t] = pc[t]
    BY <1>1, <1>3 DEF Goto
  <2> QED  BY <1>1, <1>3, <2>1, <2>2 DEF Walks, ExportWalk
<1>4. CASE ExportBegin
  BY <1>3, <1>4 DEF ExportBegin
<1>5. CASE ExportNode
  BY <1>2, <1>5 DEF ExportNode
<1>6. CASE ExportEnd
  BY <1>3, <1>6 DEF ExportEnd
<1>7. CASE Restore
  BY <1>2, <1>7 DEF Restore
<1>8. CASE Discard
  BY <1>2, <1>8 DEF Discard
<1>9. CASE UNCHANGED <<vars, checkpoint>>
  BY <1>2, <1>9 DEF checkpoint
<1> QED  BY <1>4, <1>5, <1>6, <1>7, <1>8, <1>9 DEF ExportMoves

\* Copying a node: the copies so far, and one list more.
LEMMA Copied ==
  ASSUME IInv, ExportInv, ExportNode
  PROVE  \E k \in todo :
           /\ \A j \in todo : k <= j
           /\ k \in Keys /\ KeySetsCount /\ contents[topo.index[k]] \in SUBSET Key /\ image \in Seq(Seq(Key))
           /\ image' = Append(image, InOrder(contents[topo.index[k]])) /\ todo' = todo \ {k}
           /\ stage = "copying" /\ stage' = stage /\ stayed' = stayed
           /\ topo' = topo /\ contents' = contents /\ Keys' = Keys
<1> USE Zenon
<1>1. /\ stage = "copying" /\ stage' = stage /\ stayed' = stayed /\ todo \subseteq Keys /\ image \in Seq(Seq(Key))
      /\ KeySetsCount
  BY DEF ExportNode, ExportInv, CopyInv, IInv
<1>2. topo' = topo /\ contents' = contents
  BY DEF ExportNode, vars, shared
<1>3. PICK k \in todo : /\ \A j \in todo : k <= j
                        /\ image' = Append(image, InOrder(contents[topo.index[k]]))
                        /\ todo' = todo \ {k}
  BY DEF ExportNode
<1>4. k \in Keys /\ contents[topo.index[k]] \in SUBSET Key /\ Keys' = Keys
  BY <1>1, <1>2, <1>3, EntryTypes DEF Keys
<1> QED  BY <1>1, <1>2, <1>3, <1>4

\* The sequence l is s with e at its end.
Longer(l, s, e) ==
  /\ Len(s) \in Nat /\ DOMAIN s = 1 .. Len(s) /\ DOMAIN l = 1 .. Len(s) + 1 /\ Len(l) = Len(s) + 1
  /\ \A i \in 1 .. Len(s) : l[i] = s[i] /\ i \in 1 .. Len(s) + 1
  /\ l[Len(s) + 1] = e /\ Len(s) + 1 \in 1 .. Len(s) + 1

\* Appending keeps what is there, and adds the new list at the end.
LEMMA OneCopyMore ==
  ASSUME NEW s \in Seq(Seq(Key)), NEW e \in Seq(Key)
  PROVE  Append(s, e) \in Seq(Seq(Key)) /\ Longer(Append(s, e), s, e)
<1> DEFINE S == Seq(Key)
<1> HIDE DEF S
<1> SUFFICES ASSUME s \in Seq(S), e \in S PROVE Append(s, e) \in Seq(S) /\ Longer(Append(s, e), s, e)
  BY DEF S
<1>1. Append(s, e) \in Seq(S) /\ Len(s) \in Nat /\ Len(Append(s, e)) = Len(s) + 1
  BY SMT
<1>2. DOMAIN s = 1 .. Len(s) /\ DOMAIN Append(s, e) = 1 .. Len(s) + 1
  BY <1>1, SMT
<1>3. \A i \in 1 .. Len(s) : Append(s, e)[i] = s[i] /\ i \in 1 .. Len(s) + 1
  BY <1>1, SMT
<1>4. Append(s, e)[Len(s) + 1] = e /\ Len(s) + 1 \in 1 .. Len(s) + 1
  BY <1>1, SMT
<1> QED  BY <1>1, <1>2, <1>3, <1>4, Zenon DEF Longer

\* The exporter keeps the copies it has.
LEMMA ExporterCopies ==
  ASSUME IInv, ExportInv, ExportMoves
  PROVE  CopyInv' /\ (KeptInv => KeptInv')
<1> USE Zenon
<1>1. CASE ExportBegin
  <2>1. stage = "none" /\ stage' = "copying" /\ todo' = DOMAIN topo.index /\ stayed' = Acknowledged /\ image' = image
        /\ topo' = topo /\ contents' = contents /\ image = <<>>
    BY <1>1 DEF ExportBegin, shared, ExportInv, CopyInv
  <2>2. CopyInv'
    <3>1. <<>> \in Seq(Seq(Key))
      BY SMT
    <3> QED  BY <2>1, <3>1 DEF CopyInv, Keys
  <2>3. \A x \in Acknowledged : \E k \in DOMAIN topo.index : x \in contents[topo.index[k]]
    BY DEF Acknowledged, Linked, Range
  <2> QED  BY <2>1, <2>2, <2>3 DEF KeptInv
<1>2. CASE ExportNode
  <2>1. PICK k \in todo :
          /\ k \in Keys /\ KeySetsCount /\ contents[topo.index[k]] \in SUBSET Key /\ image \in Seq(Seq(Key))
          /\ image' = Append(image, InOrder(contents[topo.index[k]])) /\ todo' = todo \ {k}
          /\ stage = "copying" /\ stage' = stage /\ stayed' = stayed
          /\ topo' = topo /\ contents' = contents /\ Keys' = Keys
    BY <1>2, Copied
  <2> DEFINE c == contents[topo.index[k]]
             new == InOrder(c)
             s == image
  <2>2. /\ new \in Seq(Key) /\ Len(new) = Cardinality(c)
        /\ \A x \in c : \E i \in 1 .. Cardinality(c) : new[i] = x
    BY <2>1, Listed
  <2> HIDE DEF new
  <2>3. image' \in Seq(Seq(Key)) /\ Longer(image', s, new)
    <3>1. image' = Append(s, new) /\ s \in Seq(Seq(Key)) /\ new \in Seq(Key)
      BY <2>1, <2>2 DEF new
    <3> HIDE DEF s
    <3> QED  BY <3>1, OneCopyMore
  <2>4. CopyInv'
    BY <2>1, <2>3 DEF ExportInv, CopyInv
  <2>5. \A x : InImage(x) => InImage(x)'
    BY <2>3 DEF InImage, Longer
  <2>6. \A x \in c : InImage(x)'
    <3>1. DOMAIN new = 1 .. Cardinality(c)
      <4> HIDE DEF c
      <4> QED  BY <2>2, SMT
    <3>2. \A x \in c : x \in Range(new)
      BY <2>2, <3>1 DEF Range
    <3> QED  BY <2>3, <3>2 DEF InImage, Longer
  <2>7. KeptInv => KeptInv'
    BY <2>1, <2>5, <2>6 DEF KeptInv
  <2> QED  BY <2>4, <2>7
<1>3. CASE ExportEnd
  <2>1. stage = "copying" /\ stage' = "held" /\ todo \cap Keys = {} /\ stayed' = stayed /\ image' = image
    BY <1>3 DEF ExportEnd, Keys
  <2>2. todo = {}
    BY <2>1 DEF ExportInv, CopyInv
  <2> QED  BY <2>1, <2>2 DEF ExportInv, CopyInv, KeptInv, InImage
<1>4. CASE Restore
  <2>1. stage \in {"held", "given"} /\ stage' \in {"restored", "rejected"} /\ stayed' = stayed /\ image' = image
    BY <1>4 DEF Restore
  <2> QED  BY <2>1 DEF CopyInv, KeptInv, InImage
<1>5. CASE Discard
  BY <1>5 DEF Discard, CopyInv, KeptInv
<1>6. CASE UNCHANGED <<vars, checkpoint>>
  <2>1. stage' = stage /\ todo' = todo /\ image' = image /\ stayed' = stayed /\ topo' = topo /\ contents' = contents
    BY <1>6 DEF checkpoint, vars, shared
  <2> QED  BY <2>1 DEF ExportInv, CopyInv, KeptInv, InImage, Keys
<1> QED  BY <1>1, <1>2, <1>3, <1>4, <1>5, <1>6 DEF ExportMoves

\* The list of a node that holds something, within its capacity, is in order.
LEMMA ListIsValid ==
  ASSUME KeySetsCount, NEW c \in SUBSET Key, c # {}, Cardinality(c) <= Capacity
  PROVE  /\ InOrder(c) # <<>> /\ Len(InOrder(c)) <= Capacity
         /\ \A j \in 1 .. Len(InOrder(c)) - 1 : InOrder(c)[j] < InOrder(c)[j + 1]
         /\ InOrder(c)[1] \in c /\ LastOf(InOrder(c)) \in c
<1> DEFINE l == InOrder(c)
           n == Cardinality(c)
<1>1. /\ l \in Seq(Key) /\ Len(l) = n /\ n \in Nat
      /\ \A i \in 1 .. n : l[i] \in c
      /\ \A i, j \in 1 .. n : i < j => l[i] < l[j]
  BY Listed, Zenon
<1>2. n >= 1
  <2>1. PICK x \in c : TRUE
    BY Zenon
  <2>2. n - 1 \in Nat
    BY Zenon DEF KeySetsCount
  <2> HIDE DEF n
  <2> QED  BY <1>1, <2>2, SMT
<1>3. n <= Capacity
  BY Zenon
<1> HIDE DEF l, n
<1>4. l # <<>> /\ Len(l) <= Capacity
  BY <1>1, <1>2, <1>3, SMT
<1>5. \A j \in 1 .. Len(l) - 1 : l[j] < l[j + 1]
  <2> SUFFICES ASSUME NEW j \in 1 .. Len(l) - 1 PROVE l[j] < l[j + 1]
    OBVIOUS
  <2>1. j \in 1 .. n /\ j + 1 \in 1 .. n /\ j < j + 1
    BY <1>1, SMT
  <2> QED  BY <1>1, <2>1, Zenon
<1>6. l[1] \in c /\ LastOf(l) \in c
  <2>1. 1 \in 1 .. n /\ n \in 1 .. n
    BY <1>1, <1>2, SMT
  <2> QED  BY <1>1, <2>1, Zenon DEF LastOf
<1> QED  BY <1>4, <1>5, <1>6, Zenon DEF l

\* The exporter copies the nodes in the order of their elements.
LEMMA ExporterOrders ==
  ASSUME IInv, SInv, RInv, CapInv, ExportInv, OrderInv, ExportMoves
  PROVE  OrderInv'
<1> USE Zenon
<1>1. CASE ExportBegin
  <2>1. image = <<>> /\ image' = <<>>
    BY <1>1 DEF ExportBegin, ExportInv, CopyInv
  <2>2. DOMAIN image' = {}
    BY <2>1, SMT
  <2> QED  BY <2>1, <2>2 DEF OrderInv
<1>2. CASE ExportNode
  <2>1. PICK k \in todo :
          /\ \A j \in todo : k <= j
          /\ k \in Keys /\ KeySetsCount /\ contents[topo.index[k]] \in SUBSET Key /\ image \in Seq(Seq(Key))
          /\ image' = Append(image, InOrder(contents[topo.index[k]])) /\ todo' = todo \ {k}
          /\ stage = "copying" /\ stage' = stage /\ stayed' = stayed
          /\ topo' = topo /\ contents' = contents /\ Keys' = Keys
    BY <1>2, Copied
  <2> DEFINE c == contents[topo.index[k]]
             new == InOrder(c)
             N == Len(image)
  <2>2. /\ new # <<>> /\ Len(new) <= Capacity
        /\ \A j \in 1 .. Len(new) - 1 : new[j] < new[j + 1]
        /\ new[1] \in c /\ LastOf(new) \in c
    <3>1. c # {} /\ Cardinality(c) <= Capacity
      BY <2>1, EntryTypes DEF CapInv, SInv, RepairInv, EntryRepaired, Keys
    <3> QED  BY <2>1, <3>1, ListIsValid
  <2>3. image' \in Seq(Seq(Key)) /\ Longer(image', image, new)
    BY <2>1, Listed, OneCopyMore
  <2> HIDE DEF new
  <2>4. /\ N \in Nat /\ DOMAIN image = 1 .. N /\ DOMAIN image' = 1 .. N + 1 /\ Len(image') = N + 1
        /\ (\A i \in 1 .. N : image'[i] = image[i]) /\ image'[N + 1] = new
    BY <2>3 DEF Longer
  <2>5. todo \subseteq Keys /\ \A i \in DOMAIN image : ValidNode(image, i)
    BY <2>1 DEF ExportInv, CopyInv, OrderInv
  <2>6. ASSUME N > 0 PROVE LastOf(LastOf(image)) < new[1]
    <3>1. image # <<>> /\ N \in 1 .. N /\ N \in DOMAIN image /\ image[N] \in Seq(Key)
      BY <2>1, <2>4, <2>6, SMT
    <3>2. PICK b \in Keys : b < k /\ LastOf(LastOf(image)) <= b
      BY <2>1, <3>1 DEF OrderInv
    <3>3. b < new[1] /\ new[1] \in Int /\ b \in Int
      BY <2>1, <2>2, <3>2, Apart, EntryTypes, IntegerKeys
    <3>4. LastOf(image[N]) \in Key
      <4>1. image[N] # <<>>
        BY <2>5, <3>1 DEF ValidNode
      <4> QED  BY <3>1, <4>1, SMT DEF LastOf
    <3>5. LastOf(LastOf(image)) \in Int
      BY <3>4, IntegerKeys DEF LastOf
    <3> HIDE DEF N, c
    <3> QED  BY <3>2, <3>3, <3>5, SMT
  <2>7. ASSUME NEW i \in 1 .. N + 1 PROVE ValidNode(image, i)'
    <3>1. CASE i \in 1 .. N
      <4>1. ValidNode(image, i)
        BY <2>4, <2>5, <3>1
      <4>2. image'[i] = image[i] /\ (i > 1 => image'[i - 1] = image[i - 1])
        <5>1. i > 1 => i - 1 \in 1 .. N
          BY <2>4, <3>1, SMT
        <5> QED  BY <2>4, <3>1, <5>1
      <4> QED  BY <4>1, <4>2 DEF ValidNode
    <3>2. CASE i \notin 1 .. N
      <4>1. i = N + 1 /\ (i > 1 => N > 0 /\ N \in 1 .. N /\ i - 1 = N)
        BY <2>4, <3>2, SMT
      <4>2. i > 1 => image'[i - 1][Len(image'[i - 1])] < image'[i][1]
        BY <2>4, <2>6, <4>1 DEF LastOf
      <4> QED  BY <2>2, <2>4, <4>1, <4>2 DEF ValidNode
    <3> QED  BY <3>1, <3>2
  <2>8. ASSUME NEW j \in todo' PROVE \E b \in Keys' : b < j /\ LastOf(LastOf(image')) <= b
    <3>1. j \in Keys /\ k < j
      <4>1. j \in todo /\ j # k /\ k <= j /\ j \in Int /\ k \in Int
        BY <2>1, <2>5, <2>8, EntryTypes, IntegerKeys
      <4>2. k < j
        BY <4>1, SMT
      <4> QED  BY <2>5, <4>1, <4>2
    <3>2. LastOf(image') = new
      BY <2>4 DEF LastOf
    <3>3. LastOf(new) <= k
      BY <2>1, <2>2, <3>1, Apart
    <3> QED  BY <2>1, <3>1, <3>2, <3>3
  <2> QED  BY <2>1, <2>4, <2>7, <2>8 DEF OrderInv
<1>3. CASE ExportEnd
  BY <1>3 DEF ExportEnd, OrderInv, ValidNode
<1>4. CASE Restore \/ Discard
  <2>1. stage' \in {"restored", "rejected", "none"}
    BY <1>4 DEF Restore, Discard
  <2> QED  BY <2>1 DEF OrderInv
<1>5. CASE UNCHANGED <<vars, checkpoint>>
  <2>1. stage' = stage /\ todo' = todo /\ image' = image /\ topo' = topo
    BY <1>5 DEF checkpoint, vars, shared
  <2> QED  BY <2>1 DEF OrderInv, ValidNode, LastOf, Keys
<1> QED  BY <1>1, <1>2, <1>3, <1>4, <1>5 DEF ExportMoves

\* The invariants of the export hold initially.
LEMMA ExportStarts ==
  ASSUME ImageInit
  PROVE  /\ ExportInv /\ KeptInv /\ OrderInv
         /\ (\A c \in Restored : \A n \in Node : Cardinality(c[n]) <= Capacity) => CapInv
<1> USE Zenon
<1>1. Init /\ stayed = {} /\ ((stage = "none" /\ image = <<>>) \/ stage = "given")
  BY DEF ImageInit
<1>2. pc[Exporter] = "idle" /\ op[Exporter] = None
  BY <1>1, ExporterAssumption DEF Init
<1>3. ExportInv /\ KeptInv /\ OrderInv
  BY <1>1, <1>2 DEF ExportInv, ExportWalk, CopyInv, KeptInv, OrderInv
<1> QED  BY <1>1, <1>3 DEF Init, CapInv

\* What the properties of the export follow from.
LEMMA ExportKeeps == (KeptInv => ExportKeepsWhatStays) /\ (OrderInv => ExportIsRestorable)
<1>1. Capacity # 0
  BY CapacityAssumption, SMT
<1> QED  BY <1>1, Zenon DEF KeptInv, ExportKeepsWhatStays, InImage, OrderInv, ExportIsRestorable, Accepted
=============================================================================
