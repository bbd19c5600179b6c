----------------------------- MODULE MapProofs ------------------------------
(***************************************************************************)
(* The concurrent map implements the atomic map, step by step, and keeps   *)
(* the entries under references.                                           *)
(***************************************************************************)
EXTENDS ConcurrentMap, LinearizabilityProofs

-----------------------------------------------------------------------------
(* The map: what a step does to the pairs.                                 *)

\* The set's invariants, as the map uses them.
PInv == IInv /\ SInv /\ RInv /\ LInv

\* One thread inserts; the map has no range removal.
OneMapInserter == OneInserter /\ RangeRemovers = {}

\* The value of key k.
ValueOf(k) == stored[CHOOSE n \in Linked : k \in contents[n]][k]

\* A key is in one node.
LEMMA OneHolder ==
  ASSUME PInv, NEW m \in Node, NEW n \in Node, NEW k, k \in contents[m], k \in contents[n]
  PROVE  m = n /\ n \in Linked
<1> USE Zenon
<1>1. PICK i \in DOMAIN topo.index : topo.index[i] = m
  BY DEF PInv, LInv, UnlinkedAreEmpty, Linked, Range
<1>2. PICK j \in DOMAIN topo.index : topo.index[j] = n
  BY DEF PInv, LInv, UnlinkedAreEmpty, Linked, Range
<1>3. Covers(topo.index, k, i) /\ Covers(topo.index, k, j)
  BY <1>1, <1>2 DEF PInv, RInv, Reaches
<1>4. DOMAIN topo.index \subseteq Key /\ contents \in [Node -> SUBSET Key]
  BY IndexTypes DEF PInv
<1>5. k \in Key
  BY <1>4
<1>6. i = j
  BY <1>3, <1>4, <1>5, CoversOnce
<1> QED  BY <1>1, <1>2, <1>6 DEF Linked, Range

\* Its value is the one stored there.
LEMMA ValueThere ==
  ASSUME PInv, NEW n \in Node, NEW k \in contents[n]
  PROVE  ValueOf(k) = stored[n][k] /\ k \in Elements
<1> USE Zenon
<1> DEFINE m == CHOOSE i \in Linked : k \in contents[i]
<1>1. n \in Linked
  BY OneHolder
<1>2. m \in Linked /\ k \in contents[m]
  BY <1>1
<1> HIDE DEF m
<1>3. m \in Node
  BY <1>2, IndexTypes DEF PInv, Linked, Range
<1>4. m = n
  BY <1>2, <1>3, OneHolder
<1> QED  BY <1>1, <1>4 DEF ValueOf, m, Elements

\* A key that a step puts into a node was there, or in the node the thread
\* holds, or is the one that it inserts.
Moves(t) ==
  \A n \in Node : \A k \in contents'[n] :
    k \in contents[n] \/ (node[t] \in Node /\ k \in contents[node[t]]) \/ (k = arg[t] /\ Writes(t))

\* An insert that reports TRUE stores its pair.
LEMMA InsertWrites ==
  ASSUME PInv, NEW t \in Thread, op[t] = "insert", pc[t] \in Pending, Decide(t, TRUE)
  PROVE  Writes(t)
<1> USE Zenon
<1>1. res[t] = None /\ DOMAIN res = Thread
  BY DEF PInv, LInv, ResInv, ResOK, Undecided, IInv, TypeOK
<1>2. res'[t] = TRUE
  BY <1>1 DEF Decide
<1>3. TRUE # None
  BY NoneAssumption
<1> QED  BY <1>1, <1>2, <1>3 DEF Writes, Decides

\* No range is removed and no node attached.
LEMMA MapOperations ==
  ASSUME OneMapInserter, PInv, NEW t \in Thread
  PROVE  ~RangeCommit(t) /\ ~AttachCommit(t)
<1> USE Zenon
<1>1. (RangeCommit(t) => op[t] = "remove_range") /\ (AttachCommit(t) => op[t] = "attach_node")
  BY LabelOperation DEF PInv, IInv, RangeCommit, AttachCommit
<1>2. "remove_range" # None /\ "attach_node" # None
  BY NoneAssumption DEF Operations
<1> QED  BY <1>1, <1>2 DEF PInv, RInv, CallerInv, MayCall, OneMapInserter, OneInserter

\* Every step moves keys in this way.
LEMMA StepMoves ==
  ASSUME OneMapInserter, PInv, IInv', NEW t \in Thread, Step(t)
  PROVE  Moves(t)
<1> USE Zenon
<1>0. IInv /\ SInv /\ contents \in [Node -> SUBSET Key]
  BY IndexTypes DEF PInv
<1>1. CASE contents' = contents
  BY <1>1 DEF Moves
<1>2. CASE KeepsNodes(t) \/ UpdateMax(t)
  <2>1. contents' = contents
    BY <1>0, <1>2, IdleSteps, UpdateMaxEffect DEF Idle
  <2> QED  BY <1>1, <2>1, SMT
<1>3. CASE PutNode(t)
  <2>1. op[t] = "insert" /\ pc[t] \in Pending /\ node[t] \in Node
    BY <1>0, <1>3, LabelOperation DEF IInv, PutNode, Pending, AtNode
  <2>2. CASE Store(node[t], contents[node[t]] \cup {arg[t]}) /\ Decide(t, TRUE)
    <3>1. Writes(t)
      BY <2>1, <2>2, InsertWrites
    <3>2. \A n \in Node : \A k \in contents'[n] : k \in contents[n] \/ k = arg[t]
      BY <1>0, <2>1, <2>2 DEF Store
    <3> QED  BY <3>1, <3>2 DEF Moves
  <2> QED  BY <1>1, <1>3, <2>2 DEF PutNode
<1>4. CASE PutRoot(t)
  <2>1. op[t] = "insert" /\ pc[t] \in Pending
    BY <1>0, <1>4, LabelOperation DEF IInv, PutRoot, Pending
  <2>2. CASE Store(NewNode, {arg[t]}) /\ Decide(t, TRUE)
    <3>1. Writes(t)
      BY <2>1, <2>2, InsertWrites
    <3>2. \A n \in Node : \A k \in contents'[n] : k \in contents[n] \/ k = arg[t]
      BY <1>0, <2>2 DEF Store
    <3> QED  BY <3>1, <3>2 DEF Moves
  <2> QED  BY <1>1, <1>4, <2>2 DEF PutRoot
<1>5. CASE SplitCommit(t)
  <2> DEFINE left == SplitLeft(t)
             right == SplitRight(t)
  <2>1. node[t] \in Node /\ op[t] = "insert" /\ pc[t] = "split_commit"
    BY <1>0, <1>5, LabelOperation DEF IInv, SplitCommit, AtNode
  <2>2. CASE Splits(t, left, right) /\ right # {} /\ Decide(t, arg[t] \notin contents[node[t]])
    <3>1. left \in SUBSET Key /\ right \in SUBSET Key
      BY <1>0, <1>5, SplitEffect
    <3>2. /\ contents'[node[t]] = left /\ contents'[NewNode] = right
          /\ \A n \in Node \ {node[t], NewNode} : contents'[n] = contents[n]
      <4>1. SplitOutcome(t, left, right)
        BY <1>0, <2>1, <2>2, <3>1, SplitResult, SMT
      <4> QED  BY <4>1 DEF SplitOutcome
    <3>3. \A x \in left \cup right : x \in contents[node[t]] \/ x = arg[t]
      BY DEF SplitLeft, SplitRight, LowerHalf
    <3>4. arg[t] \in contents[node[t]] \/ Writes(t)
      <4>1. res[t] = None /\ DOMAIN res = Thread
        BY <2>1 DEF PInv, LInv, ResInv, ResOK, Undecided, Pending, IInv, TypeOK
      <4>2. ASSUME arg[t] \notin contents[node[t]] PROVE Decide(t, TRUE)
        BY <2>2, <4>2
      <4>3. pc[t] \in Pending
        BY <2>1 DEF Pending
      <4> QED  BY <2>1, <4>2, <4>3, InsertWrites
    <3> HIDE DEF left, right
    <3>5. \A n \in Node : \A k \in contents'[n] : k \in contents[n] \/ k \in contents[node[t]] \/ k = arg[t]
      BY <3>2, <3>3
    <3> QED  BY <2>1, <3>4, <3>5 DEF Moves
  <2> QED  BY <1>0, <1>1, <1>5, <2>2, SplitEffect
<1>6. CASE RemoveNode(t) \/ RemoveCommit(t)
  <2>1. contents' = contents \/ Store(node[t], contents[node[t]] \ {arg[t]})
    BY <1>6 DEF RemoveNode, RemoveCommit
  <2>2. \A n \in Node : \A k \in contents'[n] : k \in contents[n]
    BY <1>0, <2>1 DEF Store
  <2> QED  BY <2>2 DEF Moves
<1> QED  BY <1>2, <1>3, <1>4, <1>5, <1>6, MapOperations
         DEF KeepsNodes, Step, Put, Commit, Delete, RemoveRange, Attach

\* Every key keeps its value, except the one that is inserted.
LEMMA StepValues ==
  ASSUME OneMapInserter, PInv, IInv', NEW t \in Thread, Step(t), stored' = StoredAfter(t), NEW k \in Elements'
  PROVE  \/ Writes(t) /\ k = arg[t] /\ ValueOf(k)' = given[t].value
         \/ ~(Writes(t) /\ k = arg[t]) /\ k \in Elements /\ ValueOf(k)' = ValueOf(k)
<1> USE Zenon
<1> DEFINE n == CHOOSE i \in Linked' : k \in contents'[i]
<1>1. n \in Linked' /\ k \in contents'[n]
  BY DEF Elements
<1>2. ValueOf(k)' = stored'[n][k]
  BY DEF ValueOf
<1> HIDE DEF n
<1>3. n \in Node
  BY <1>1, IndexTypesNext DEF Linked, Range
<1>4. stored'[n][k] = IF Writes(t) /\ k = arg[t] THEN given[t].value
                      ELSE IF k \in contents[n] THEN stored[n][k] ELSE stored[node[t]][k]
  BY <1>1, <1>3 DEF StoredAfter
<1>5. k \in contents[n] \/ (node[t] \in Node /\ k \in contents[node[t]]) \/ (k = arg[t] /\ Writes(t))
  BY <1>1, <1>3, StepMoves DEF Moves
<1>6. CASE Writes(t) /\ k = arg[t]
  BY <1>2, <1>4, <1>6
<1>7. CASE ~(Writes(t) /\ k = arg[t]) /\ k \in contents[n]
  BY <1>2, <1>3, <1>4, <1>7, ValueThere
<1>8. CASE ~(Writes(t) /\ k = arg[t]) /\ k \notin contents[n]
  BY <1>2, <1>4, <1>5, <1>8, ValueThere
<1> QED  BY <1>6, <1>7, <1>8

-----------------------------------------------------------------------------
(* The map: what a call hands back.                                        *)

\* An insert decides where it stores its pair or finds its key.
LEMMA InsertDecides ==
  ASSUME PInv, NEW t \in Thread, Step(t), Decides(t), op[t] = "insert"
  PROVE  PutNode(t) \/ PutRoot(t) \/ SplitCommit(t)
<1> USE Zenon
<1>1. TypeOK /\ DOMAIN res = Thread
  BY DEF PInv, IInv, TypeOK
<1>2. pc[t] \notin {"remove_read", "remove_node", "remove_write", "remove_commit", "get_gen", "get_root", "get_lock",
                    "get_check", "ref", "select_read", "select_node", "range_write", "range_commit",
                    "attach_write", "attach_commit"}
  BY <1>1, LabelOperation
<1>3. ~(Delete(t) \/ RemoveRange(t) \/ Attach(t) \/ Get(t) \/ SelectOptimistic(t))
  BY <1>2 DEF Delete, RemoveRead, RemoveNode, RemoveWrite, RemoveCommit, RemoveRange, RangeWrite, RangeCommit,
                     Attach, AttachWrite, AttachCommit, Get, GetGeneration, GetRoot, GetLock, GetCheck, GetFallback,
                     DropRef, SelectOptimistic, SelectRead, SelectNode
<1>4. PutRead(t) \/ SplitWrite(t) \/ RekeyWrite(t) \/ UpdateMax(t) \/ Drop(t) => res' = res
  BY DEF PutRead, SplitWrite, RekeyWrite, UpdateMax, Drop, SwapRoot, Release
<1>5. Return(t) => res'[t] = None
  BY <1>1 DEF Return, Decide
<1> QED  BY <1>3, <1>4, <1>5 DEF Step, Put, Commit, Decides

\* The locked node is the one the key is routed to.
LEMMA LockedFallback ==
  ASSUME IInv, NEW t \in Thread, pc[t] = "get_gen", arg[t] \in Key,
         NEW k \in DOMAIN topo.index, Covers(topo.index, arg[t], k)
  PROVE  Locked(t) = topo.index[k]
<1> USE Zenon
<1> DEFINE j == CHOOSE i \in DOMAIN topo.index : Covers(topo.index, arg[t], i)
<1>1. j \in DOMAIN topo.index /\ Covers(topo.index, arg[t], j)
  OBVIOUS
<1>2. Locked(t) = topo.index[j]
  BY DEF Locked
<1> HIDE DEF j
<1>3. DOMAIN topo.index \subseteq Key
  BY IndexTypes
<1>4. j = k
  BY <1>1, <1>3, CoversOnce
<1> QED  BY <1>2, <1>4, SMT

\* The node that the deciding step locks holds the key of the call.
LockedHas(t) == Locked(t) # None /\ arg[t] \in contents[Locked(t)]

\* A call reports that its key was there when the locked node holds it.
LEMMA LockedDecides ==
  ASSUME OneMapInserter, PInv, NEW t \in Thread, Step(t), Decides(t)
  PROVE  /\ Locked(t) \in Node \cup {None}
         /\ res'[t] \in BOOLEAN
         /\ op[t] = "insert" => (LockedHas(t) <=> ~res'[t])
         /\ op[t] # "insert" => (LockedHas(t) <=> res'[t])
<1> USE Zenon
<1>1. IInv /\ TypeOK /\ DOMAIN res = Thread
  BY DEF PInv, IInv, TypeOK
<1>2. ASSUME NEW r \in BOOLEAN, Decide(t, r), pc[t] # "get_gen", node[t] \in Node \cup {None},
             op[t] = "insert" => (~r <=> node[t] # None /\ arg[t] \in contents[node[t]]),
             op[t] # "insert" => (r <=> node[t] # None /\ arg[t] \in contents[node[t]])
      PROVE  /\ Locked(t) \in Node \cup {None}
             /\ res'[t] \in BOOLEAN
             /\ op[t] = "insert" => (LockedHas(t) <=> ~res'[t])
             /\ op[t] # "insert" => (LockedHas(t) <=> res'[t])
  <2>1. res'[t] = r /\ Locked(t) = node[t]
    BY <1>1, <1>2 DEF Decide, Locked
  <2> QED  BY <1>2, <2>1 DEF LockedHas
<1>3. ASSUME NEW r \in BOOLEAN, Decide(t, r), pc[t] # "get_gen", pc[t] \notin AtNode \cup {"idle", "walk"},
             r <=> op[t] = "insert"
      PROVE  /\ Locked(t) \in Node \cup {None}
             /\ res'[t] \in BOOLEAN
             /\ op[t] = "insert" => (LockedHas(t) <=> ~res'[t])
             /\ op[t] # "insert" => (LockedHas(t) <=> res'[t])
  <2>1. node[t] = None
    BY <1>1, <1>3, LabelOperation
  <2>2. res'[t] = r /\ Locked(t) = node[t]
    BY <1>1, <1>3 DEF Decide, Locked
  <2> QED  BY <1>3, <2>1, <2>2 DEF LockedHas
<1>4. res' # res /\ ~Return(t)
  <2>1. Return(t) => res'[t] = None
    BY <1>1 DEF Return, Decide
  <2> QED  BY <2>1 DEF Decides
<1>5. \A n \in Node : n # None
  BY NoneAssumption
<1>6. CASE PutNode(t) \/ SplitCommit(t)
  <2>1. pc[t] # "get_gen" /\ op[t] = "insert" /\ node[t] \in Node
    BY <1>1, <1>6, LabelOperation DEF PutNode, SplitCommit, AtNode
  <2>2. \/ Decide(t, FALSE) /\ arg[t] \in contents[node[t]]
        \/ Decide(t, TRUE) /\ arg[t] \notin contents[node[t]]
    BY <1>4, <1>6 DEF PutNode, SplitCommit
  <2> QED  BY <1>2, <1>5, <2>1, <2>2
<1>7. CASE RemoveNode(t) \/ RemoveCommit(t)
  <2>1. pc[t] # "get_gen" /\ op[t] # "insert" /\ node[t] \in Node
    BY <1>1, <1>7, LabelOperation DEF RemoveNode, RemoveCommit, AtNode
  <2>2. \/ Decide(t, TRUE) /\ arg[t] \in contents[node[t]]
        \/ Decide(t, FALSE) /\ arg[t] \notin contents[node[t]]
    BY <1>4, <1>7 DEF RemoveNode, RemoveCommit
  <2> QED  BY <1>2, <1>5, <2>1, <2>2
<1>8. CASE PutRoot(t)
  <2>1. pc[t] # "get_gen" /\ op[t] = "insert" /\ pc[t] \notin AtNode \cup {"idle", "walk"}
    BY <1>1, <1>8, LabelOperation DEF PutRoot, AtNode
  <2>2. Decide(t, TRUE)
    BY <1>4, <1>8 DEF PutRoot
  <2> QED  BY <1>3, <2>1, <2>2
<1>9. CASE RemoveRead(t) \/ RemoveWrite(t) \/ SelectRead(t)
  <2>1. pc[t] # "get_gen" /\ op[t] # "insert" /\ pc[t] \notin AtNode \cup {"idle", "walk"}
    BY <1>1, <1>9, LabelOperation DEF RemoveRead, RemoveWrite, SelectRead, AtNode
  <2>2. Decide(t, FALSE)
    BY <1>4, <1>9 DEF RemoveRead, RemoveWrite, SelectRead
  <2> QED  BY <1>3, <2>1, <2>2
<1>10. CASE SelectNode(t)
  <2> DEFINE r == arg[t] \in contents[node[t]]
  <2>1. pc[t] # "get_gen" /\ op[t] # "insert" /\ node[t] \in Node
    BY <1>1, <1>10, LabelOperation DEF SelectNode, AtNode
  <2>2. r \in BOOLEAN
    BY SMT
  <2>3. Decide(t, r)
    BY <1>10 DEF SelectNode
  <2>4. r <=> node[t] # None /\ arg[t] \in contents[node[t]]
    BY <1>5, <2>1, SMT
  <2> HIDE DEF r
  <2> QED  BY <1>2, <2>1, <2>2, <2>3, <2>4, SMT
<1>11. CASE GetCheck(t)
  <2> DEFINE r == node[t] # None /\ arg[t] \in contents[node[t]]
  <2>1. pc[t] # "get_gen" /\ op[t] # "insert" /\ node[t] \in Node \cup {None}
    BY <1>1, <1>11, LabelOperation DEF GetCheck, TypeOK
  <2>2. r \in BOOLEAN
    BY SMT
  <2>3. Decide(t, r)
    BY <1>4, <1>11 DEF GetCheck, Answer
  <2>4. r <=> node[t] # None /\ arg[t] \in contents[node[t]]
    BY SMT
  <2> HIDE DEF r
  <2> QED  BY <1>2, <2>1, <2>2, <2>3, <2>4, SMT
<1>12. CASE GetFallback(t)
  <2>1. pc[t] = "get_gen" /\ op[t] # "insert" /\ arg[t] \in Key
    BY <1>1, <1>12, LabelOperation DEF GetFallback
  <2>2. CASE DOMAIN topo.index = {} /\ Decide(t, FALSE)
    <3>1. Locked(t) = None /\ res'[t] = FALSE
      BY <1>1, <2>1, <2>2 DEF Locked, Decide
    <3> QED  BY <2>1, <3>1 DEF LockedHas
  <2>3. ASSUME NEW k \in DOMAIN topo.index, Covers(topo.index, arg[t], k),
               Decide(t, arg[t] \in contents[topo.index[k]])
        PROVE  /\ Locked(t) \in Node \cup {None}
               /\ res'[t] \in BOOLEAN
               /\ LockedHas(t) <=> res'[t]
    <3>1. Locked(t) = topo.index[k]
      BY <1>1, <2>1, <2>3, LockedFallback, SMT
    <3>2. topo.index[k] \in Node
      BY <1>1, IndexTypes
    <3> DEFINE r == arg[t] \in contents[topo.index[k]]
    <3>3. r \in BOOLEAN
      BY SMT
    <3>4. res'[t] = r
      BY <1>1, <2>3 DEF Decide
    <3>5. LockedHas(t) <=> r
      BY <1>5, <3>1, <3>2 DEF LockedHas
    <3> HIDE DEF r
    <3> QED  BY <3>1, <3>2, <3>3, <3>4, <3>5, SMT
  <2> QED  BY <1>12, <2>1, <2>2, <2>3 DEF GetFallback, Answer
<1>13. ~(PutRead(t) \/ SplitWrite(t) \/ RekeyWrite(t) \/ UpdateMax(t) \/ Drop(t) \/ RangeWrite(t) \/ AttachWrite(t)
         \/ GetGeneration(t) \/ GetRoot(t) \/ GetLock(t) \/ DropRef(t))
  BY <1>4 DEF PutRead, SplitWrite, RekeyWrite, UpdateMax, Drop, SwapRoot, Release, RangeWrite, AttachWrite,
                     GetGeneration, GetRoot, GetLock, DropRef
<1> QED  BY <1>4, <1>6, <1>7, <1>8, <1>9, <1>10, <1>11, <1>12, <1>13, MapOperations
         DEF Step, Put, Commit, Delete, RemoveRange, Attach, Get, SelectOptimistic

\* What it hands back is the value of that key.
LEMMA FoundValue ==
  ASSUME PInv, NEW t \in Thread, Locked(t) \in Node \cup {None}
  PROVE  Found(t) = (IF LockedHas(t) THEN ValueOf(arg[t]) ELSE None) /\ (LockedHas(t) => arg[t] \in Elements)
<1> USE Zenon
<1>1. ASSUME LockedHas(t)
      PROVE  Found(t) = ValueOf(arg[t]) /\ arg[t] \in Elements
  BY <1>1, ValueThere DEF LockedHas, Found
<1>2. ASSUME ~LockedHas(t)
      PROVE  Found(t) = None
  BY <1>2 DEF LockedHas, Found
<1> QED  BY <1>1, <1>2

-----------------------------------------------------------------------------
(* The map: refinement of AtomicMap.                                       *)

\* The abstract map.
pairs == [k \in Elements |-> ValueOf(k)]

\* What callers bring is theirs until they return.
HandInv ==
  /\ given = [u \in Thread |-> given[u]] /\ got = [u \in Thread |-> got[u]]
  /\ \A u \in Thread : op[u] = None => given[u] = None

\* A step is one of a call in progress, and the last one returns.
LEMMA StepLabels ==
  ASSUME NEW t \in Thread, Step(t)
  PROVE  pc[t] # "idle" /\ (pc[t] = "done" => Return(t)) /\ (Return(t) => pc[t] = "done")
BY Zenon DEF Step, Return, Put, PutRead, PutRoot, PutNode, Commit, SplitWrite, SplitCommit, RekeyWrite, UpdateMax,
             Drop, SwapRoot, Release, Delete, RemoveRead, RemoveNode, RemoveWrite, RemoveCommit,
             RemoveRange, RangeWrite, RangeCommit, Attach, AttachWrite, AttachCommit,
             Get, GetGeneration, GetRoot, GetLock, GetCheck, GetFallback, DropRef,
             SelectOptimistic, SelectRead, SelectNode

\* The keys of the abstract map are the elements of the abstract set.
LEMMA PairsDomain ==
  ASSUME PInv, IInv', LInv'
  PROVE  DOMAIN pairs = Members /\ Elements = Members /\ Elements' = Members'
<1> USE Zenon
<1>1. UnlinkedAreEmpty /\ UnlinkedAreEmpty' /\ IInv
  BY DEF PInv, LInv
<1>2. UNION {contents[n] : n \in Linked} = Members /\ (UNION {contents[n] : n \in Linked})' = Members'
  BY <1>1, AbstractSet
<1> QED  BY <1>2 DEF pairs, Elements

\* The pairs are made of index, nodes and values.
LEMMA PairsUnchanged ==
  ASSUME PInv, topo' = topo, contents' = contents, stored' = stored
  PROVE  pairs' = pairs
<1> USE Zenon
<1>1. Linked' = Linked
  BY DEF Linked
<1>2. Elements' = Elements
  BY <1>1 DEF Elements
<1>3. ASSUME NEW k \in Elements' PROVE ValueOf(k)' = ValueOf(k)
  <2> DEFINE n == CHOOSE i \in Linked' : k \in contents'[i]
  <2>1. n \in Linked' /\ k \in contents'[n]
    BY <1>3 DEF Elements
  <2>2. ValueOf(k)' = stored'[n][k]
    BY DEF ValueOf
  <2> HIDE DEF n
  <2>3. n \in Node /\ k \in contents[n]
    BY <1>1, <2>1, IndexTypes DEF PInv, Linked, Range
  <2> QED  BY <2>2, <2>3, ValueThere
<1>4. pairs' = [k \in Elements' |-> ValueOf(k)']
  BY DEF pairs
<1> QED  BY <1>2, <1>3, <1>4 DEF pairs

\* A step that writes nothing and keeps the keys keeps the pairs.
LEMMA PairsStay ==
  ASSUME OneMapInserter, PInv, IInv', LInv', NEW t \in Thread, Step(t), stored' = StoredAfter(t),
         ~Writes(t), Members' = Members
  PROVE  pairs' = pairs
<1> USE Zenon
<1>1. Elements' = Elements
  BY PairsDomain
<1>2. \A k \in Elements' : ValueOf(k)' = ValueOf(k)
  BY StepValues
<1>3. pairs' = [k \in Elements' |-> ValueOf(k)']
  BY DEF pairs
<1> QED  BY <1>1, <1>2, <1>3 DEF pairs

\* An insert that writes its pair puts it.
LEMMA PairsPut ==
  ASSUME OneMapInserter, PInv, IInv', LInv', NEW t \in Thread, Step(t), stored' = StoredAfter(t),
         Writes(t), Members' = Members \cup {arg[t]}
  PROVE  pairs' = [j \in DOMAIN pairs \cup {arg[t]} |-> IF j = arg[t] THEN given[t].value ELSE pairs[j]]
<1> USE Zenon
<1>1. DOMAIN pairs = Elements /\ Elements' = Elements \cup {arg[t]}
  BY PairsDomain
<1>2. \A k \in Elements' : ValueOf(k)' = IF k = arg[t] THEN given[t].value ELSE ValueOf(k)
  BY StepValues
<1>3. \A k \in Elements' : k # arg[t] => pairs[k] = ValueOf(k)
  BY <1>1 DEF pairs
<1>4. pairs' = [k \in Elements' |-> ValueOf(k)']
  BY DEF pairs
<1>5. \A k \in Elements' : ValueOf(k)' = IF k = arg[t] THEN given[t].value ELSE pairs[k]
  BY <1>2, <1>3
<1> QED  BY <1>1, <1>4, <1>5

\* A removal takes its pair away.
LEMMA PairsWithout ==
  ASSUME OneMapInserter, PInv, IInv', LInv', NEW t \in Thread, Step(t), stored' = StoredAfter(t),
         ~Writes(t), Members' = Members \ {arg[t]}
  PROVE  pairs' = [j \in DOMAIN pairs \ {arg[t]} |-> pairs[j]]
<1> USE Zenon
<1>1. DOMAIN pairs = Elements /\ Elements' = Elements \ {arg[t]}
  BY PairsDomain
<1>2. \A k \in Elements' : ValueOf(k)' = ValueOf(k)
  BY StepValues
<1>3. \A k \in Elements' : pairs[k] = ValueOf(k)
  BY <1>1 DEF pairs
<1>4. pairs' = [k \in Elements' |-> ValueOf(k)']
  BY DEF pairs
<1>5. \A k \in Elements' : ValueOf(k)' = pairs[k]
  BY <1>2, <1>3
<1> QED  BY <1>1, <1>4, <1>5

\* The map is made of calls that it offers.
LEMMA MapCalls ==
  ASSUME OneMapInserter, NEW t \in Thread, NEW o \in Operations, MayCall(t, o)
  PROVE  o \in {"insert", "remove", "contains", "get", "select_optimistic"} /\ Arguments(o) = Key
<1> USE Zenon
<1>1. o # "remove_range" /\ o # "attach_node"
  BY DEF OneMapInserter, OneInserter, MayCall
<1> QED  BY <1>1 DEF Operations, Arguments

\* A call takes effect on the pairs with the outcome and the value it reports.
LEMMA MapTakesEffect ==
  ASSUME OneMapInserter, PInv, IInv', LInv', HandInv, NEW t \in Thread, MapStep(t), pc[t] # "done", Takes(t)
  PROVE  Map!TakeEffect(t)
<1> USE Zenon
<1>1. /\ Step(t) /\ stored' = StoredAfter(t) /\ given' = given
      /\ got' = [got EXCEPT ![t] = IF Decides(t) THEN Found(t) ELSE @]
  BY DEF MapStep
<1>2. PICK r \in BOOLEAN : Decide(t, r) /\ Effective(t, r)
  BY DEF Takes
<1>3. op' = op /\ arg' = arg /\ pc[t] \in Pending
  BY DEF Takes
<1>4. res[t] = None /\ DOMAIN res = Thread /\ TypeOK /\ IInv
  BY <1>3 DEF PInv, LInv, ResInv, ResOK, Undecided, IInv, TypeOK
<1>5. res'[t] = r /\ Decides(t)
  <2>1. r # None
    BY NoneAssumption
  <2> QED  BY <1>2, <1>4, <2>1 DEF Decide, Decides
<1>6. op[t] \in {"insert", "remove", "contains", "get", "select_optimistic"}
  <2>1. op[t] \in Operations /\ op[t] # None
    <3>1. pc[t] \notin {"idle", "walk"}
      BY <1>3 DEF Pending
    <3> QED  BY <1>4, <3>1, LabelOperation, NoneAssumption
  <2>2. MayCall(t, op[t])
    BY <2>1 DEF PInv, RInv, CallerInv
  <2> QED  BY <2>1, <2>2, MapCalls
<1>7. PICK found \in BOOLEAN : (op[t] = "insert" => found = ~r) /\ (op[t] # "insert" => found = r)
  BY <1>2
<1>8. (op[t] = "insert" => r = ~found) /\ (op[t] # "insert" => r = found)
  BY <1>2, <1>7, SMT
<1>9. LockedHas(t) <=> found
  BY <1>1, <1>5, <1>7, LockedDecides, SMT
<1>10. got' = [got EXCEPT ![t] = IF found THEN pairs[arg[t]] ELSE None]
  <2>1. Locked(t) \in Node \cup {None}
    BY <1>1, <1>5, LockedDecides
  <2>2. Found(t) = IF found THEN ValueOf(arg[t]) ELSE None
    BY <1>9, <2>1, FoundValue
  <2>3. found => ValueOf(arg[t]) = pairs[arg[t]]
    BY <1>9, <2>1, FoundValue DEF pairs
  <2>4. Found(t) = IF found THEN pairs[arg[t]] ELSE None
    BY <2>2, <2>3
  <2> QED  BY <1>1, <1>5, <2>4
<1>11. DOMAIN pairs = Members
  BY PairsDomain
<1>12. op[t] # "select_optimistic" => (found <=> arg[t] \in Members)
  BY <1>2, <1>6, <1>7, SMT DEF Effective
<1>13. op[t] = "select_optimistic" => (found => arg[t] \in Members)
  BY <1>2, <1>7 DEF Effective
<1>14. found = (arg[t] \in DOMAIN pairs) \/ (op[t] = "select_optimistic" /\ ~found)
  BY <1>7, <1>11, <1>12, <1>13, SMT
<1>15. res' = [res EXCEPT ![t] = IF op[t] = "insert" THEN ~found ELSE found]
  BY <1>2, <1>8 DEF Decide
<1>16. Map!Put(arg[t], given[t].value) =
         [j \in DOMAIN pairs \cup {arg[t]} |-> IF j = arg[t] THEN given[t].value ELSE pairs[j]]
  BY DEF Map!Put, pairs, ValueOf
<1>17. Map!Without(arg[t]) = [j \in DOMAIN pairs \ {arg[t]} |-> pairs[j]]
  BY DEF Map!Without, pairs, ValueOf
<1>18. op[t] # "insert" => ~Writes(t)
  BY DEF Writes
<1>19. Map!Effect(t, found)
  <2>1. CASE op[t] = "insert"
    <3>1. Members' = Members \cup {arg[t]}
      BY <1>2, <2>1 DEF Effective
    <3>2. CASE Writes(t)
      <4>1. pairs' = Map!Put(arg[t], given[t].value)
        BY <1>1, <1>16, <3>1, <3>2, PairsPut
      <4> QED  BY <2>1, <4>1 DEF Map!Effect, pairs, ValueOf
    <3>3. CASE ~Writes(t)
      <4>1. ~r /\ given[t].checked
        BY <1>5, <2>1, <3>3 DEF Writes
      <4>2. found
        BY <1>8, <2>1, <4>1
      <4>3. Members' = Members
        BY <1>12, <2>1, <3>1, <4>2, SMT
      <4>4. pairs' = pairs
        BY <1>1, <3>3, <4>3, PairsStay
      <4> QED  BY <2>1, <4>1, <4>2, <4>4 DEF Map!Effect, pairs, ValueOf
    <3> QED  BY <3>2, <3>3, SMT
  <2>2. CASE op[t] = "remove"
    <3>1. Members' = Members \ {arg[t]}
      BY <1>2, <2>2 DEF Effective
    <3>2. pairs' = Map!Without(arg[t])
      BY <1>1, <1>17, <1>18, <2>2, <3>1, PairsWithout
    <3> QED  BY <2>2, <3>2 DEF Map!Effect, pairs, ValueOf
  <2>3. CASE op[t] \in {"contains", "get", "select_optimistic"}
    <3>1. Members' = Members /\ op[t] # "insert" /\ op[t] # "remove"
      BY <1>2, <2>3 DEF Effective
    <3>2. pairs' = pairs
      BY <1>1, <1>18, <3>1, PairsStay
    <3> QED  BY <3>1, <3>2 DEF Map!Effect, pairs, ValueOf
  <2> QED  BY <1>6, <2>1, <2>2, <2>3
<1>20. op[t] # None
  BY <1>6, NoneAssumption DEF Operations
<1>21. found \in BOOLEAN
  BY <1>7, SMT
<1>22. /\ found = (arg[t] \in DOMAIN pairs) \/ (op[t] = "select_optimistic" /\ ~found)
       /\ Map!Effect(t, found)
       /\ res' = [res EXCEPT ![t] = IF op[t] = "insert" THEN ~found ELSE found]
       /\ got' = [got EXCEPT ![t] = IF found THEN pairs[arg[t]] ELSE None]
  BY <1>10, <1>14, <1>15, <1>19
<1> DEFINE map == [k \in Elements |-> stored[CHOOSE n \in Linked : k \in contents[n]][k]]
<1>23. map = pairs
  BY DEF pairs, ValueOf
<1> DEFINE P(x) == /\ x = (arg[t] \in DOMAIN map) \/ (op[t] = "select_optimistic" /\ ~x)
                   /\ Map!Effect(t, x)
                   /\ res' = [res EXCEPT ![t] = IF op[t] = "insert" THEN ~x ELSE x]
                   /\ got' = [got EXCEPT ![t] = IF x THEN map[arg[t]] ELSE None]
<1>24. Map!TakeEffect(t) <=>
         op[t] # None /\ res[t] = None /\ (\E x \in BOOLEAN : P(x)) /\ UNCHANGED <<op, arg, given>>
  BY DEF Map!TakeEffect
<1> HIDE DEF map
<1>25. UNCHANGED <<op, arg, given>>
  BY <1>1, <1>3
<1>26. P(found)
  BY <1>22, <1>23, SMT
<1> HIDE DEF P
<1>27. \E x \in BOOLEAN : P(x)
  BY <1>21, <1>26, SMT
<1> QED  BY <1>4, <1>20, <1>24, <1>25, <1>27

\* A call, an instant at which a call takes effect, a return, or nothing.
LEMMA MapStepLinear ==
  ASSUME OneMapInserter, PInv, IInv', HandInv, NEW t \in Thread, MapCall(t) \/ MapStep(t)
  PROVE  LInv' /\ HandInv' /\ [Map!Next]_Map!vars
<1> USE Zenon
<1>1. Call(t) \/ Step(t)
  BY DEF MapCall, MapStep
<1>2. OneInserter /\ RangeRemovers \subseteq Inserters /\ IInv /\ SInv /\ RInv /\ LInv
  BY DEF OneMapInserter, PInv
<1>3. LInv' /\ (Call(t) \/ Return(t) \/ Linear(t))
  BY <1>1, <1>2, StepLinear, SMT
<1>4. /\ DOMAIN op = Thread /\ DOMAIN arg = Thread /\ DOMAIN given = Thread /\ DOMAIN got = Thread /\ TypeOK
      /\ given = [u \in Thread |-> given[u]] /\ got = [u \in Thread |-> got[u]]
      /\ \A u \in Thread : op[u] = None => given[u] = None
  BY <1>2 DEF HandInv, IInv, TypeOK
<1> DEFINE map == [k \in Elements |-> stored[CHOOSE n \in Linked : k \in contents[n]][k]]
<1>5. map = pairs /\ map' = pairs'
  BY DEF pairs, ValueOf
<1>6. CASE MapCall(t)
  <2>1. topo' = topo /\ contents' = contents /\ stored' = stored /\ got' = got /\ res' = res /\ pc[t] = "idle"
    BY <1>6 DEF MapCall, Call, shared
  <2>2. op[t] = None
    <3>1. ThreadOK(t) /\ op[t] \in Operations \cup {None}
      BY <1>4 DEF TypeOK
    <3> QED  BY <2>1, <3>1 DEF ThreadOK, Labels, Operations
  <2>3. PICK o \in Operations : MayCall(t, o) /\ op' = [op EXCEPT ![t] = o]
                                /\ \E a \in Arguments(o) : arg' = [arg EXCEPT ![t] = a]
    BY <1>6 DEF MapCall, Call
  <2>4. PICK a \in Arguments(o) : arg' = [arg EXCEPT ![t] = a]
    BY <2>3
  <2>5. op'[t] = o /\ arg'[t] = a
    BY <1>4, <2>3, <2>4
  <2>6. o \in {"insert", "remove", "contains", "get", "select_optimistic"} /\ a \in Map!Key
    BY <2>3, MapCalls DEF Key, Map!Key
  <2>7. PICK g \in [value : Value, checked : BOOLEAN] \cup {None} :
          given' = [given EXCEPT ![t] = g] /\ g \in IF o = "insert" THEN [value : Value, checked : BOOLEAN] ELSE {None}
    <3>1. CASE o = "insert"
      <4>1. PICK v \in Value, c \in BOOLEAN : given' = [given EXCEPT ![t] = [value |-> v, checked |-> c]]
        BY <1>6, <2>5, <3>1 DEF MapCall
      <4>2. [value |-> v, checked |-> c] \in [value : Value, checked : BOOLEAN]
        OBVIOUS
      <4> QED  BY <3>1, <4>1, <4>2
    <3>2. CASE o # "insert"
      <4>1. given' = given
        BY <1>6, <2>5, <3>2 DEF MapCall
      <4>2. given[t] = None
        BY <1>4, <2>2
      <4>3. given' = [given EXCEPT ![t] = None]
        BY <1>4, <4>1, <4>2
      <4> QED  BY <3>2, <4>3
    <3> QED  BY <3>1, <3>2
  <2>8. given'[t] = g
    BY <1>4, <2>7
  <2>9. o # None
    BY NoneAssumption
  <2>10. HandInv'
    <3>1. given' = [u \in Thread |-> given'[u]] /\ got' = [u \in Thread |-> got'[u]]
      BY <1>4, <2>1, <2>7
    <3>2. ASSUME NEW u \in Thread, op'[u] = None PROVE given'[u] = None
      BY <1>4, <2>3, <2>7, <2>9, <3>2
    <3> QED  BY <3>1, <3>2 DEF HandInv
  <2>11. map' = map
    BY <1>5, <2>1, PairsUnchanged, SMT
  <2>12. Map!Invoke(t)
    BY <2>1, <2>2, <2>3, <2>4, <2>5, <2>6, <2>7, <2>8, <2>11 DEF Map!Invoke
  <2> QED  BY <1>3, <2>10, <2>12 DEF Map!Next
<1>7. CASE MapStep(t)
  <2>0. Step(t) /\ stored' = StoredAfter(t) /\ pc[t] # "idle" /\ (pc[t] = "done" <=> Return(t))
    BY <1>7, StepLabels DEF MapStep
  <2>1. CASE Return(t)
    <3>1. given' = [given EXCEPT ![t] = None] /\ got' = [got EXCEPT ![t] = None]
      BY <1>7, <2>0, <2>1 DEF MapStep
    <3>2. HandInv'
      <4>1. given' = [u \in Thread |-> given'[u]] /\ got' = [u \in Thread |-> got'[u]]
        BY <1>4, <3>1
      <4>2. op' = [op EXCEPT ![t] = None]
        BY <2>1 DEF Return
      <4>3. ASSUME NEW u \in Thread, op'[u] = None PROVE given'[u] = None
        BY <1>4, <3>1, <4>2, <4>3
      <4> QED  BY <4>1, <4>3 DEF HandInv
    <3>3. contents' = contents /\ res'[t] = None
      BY <1>4, <2>1 DEF Return, Decide, shared, TypeOK
    <3>4. ~Writes(t) /\ Members' = Members
      BY <3>3 DEF Writes, Decides, Members
    <3>5. map' = map
      BY <1>3, <1>5, <2>0, <3>4, PairsStay
    <3>6. res[t] # None
      BY <1>2, <2>0, <2>1 DEF LInv, ResInv, ResOK, Decided
    <3>7. Map!Return(t)
      BY <2>1, <3>1, <3>5, <3>6 DEF Return, Decide, Map!Return
    <3> QED  BY <1>3, <3>2, <3>7 DEF Map!Next
  <2>2. CASE ~Return(t)
    <3>1. given' = given /\ got' = [got EXCEPT ![t] = IF Decides(t) THEN Found(t) ELSE @]
      BY <1>7, <2>0, <2>2 DEF MapStep
    <3>2. Silent(t) \/ Takes(t)
      BY <1>3, <2>0, <2>2 DEF Linear, Call
    <3>3. HandInv'
      <4>1. given' = [u \in Thread |-> given'[u]] /\ got' = [u \in Thread |-> got'[u]]
        BY <1>4, <3>1
      <4>2. op' = op
        BY <3>2 DEF Silent, Takes
      <4> QED  BY <1>4, <3>1, <4>1, <4>2 DEF HandInv
    <3>4. CASE Silent(t)
      <4>1. ~Decides(t) /\ Members' = Members /\ op' = op /\ arg' = arg /\ res' = res
        BY <3>4 DEF Silent, Decides
      <4>2. map' = map
        BY <1>3, <1>5, <2>0, <4>1, PairsStay DEF Writes
      <4>3. got' = got
        BY <1>4, <3>1, <4>1
      <4> QED  BY <1>3, <3>1, <3>3, <4>1, <4>2, <4>3 DEF Map!vars
    <3>5. CASE Takes(t)
      <4>1. Map!TakeEffect(t)
        BY <1>3, <1>7, <2>0, <2>2, <3>5, MapTakesEffect, SMT
      <4> QED  BY <1>3, <3>3, <4>1 DEF Map!Next
    <3> QED  BY <3>2, <3>4, <3>5, SMT
  <2> QED  BY <2>1, <2>2, SMT
<1> QED  BY <1>6, <1>7, SMT

-----------------------------------------------------------------------------
(* The map: the entry under a Ref.                                         *)

RefOK(u) ==
  pc[u] = "ref" => node[u] \in Node /\ arg[u] \in contents[node[u]] /\ stored[node[u]][arg[u]] = got[u]

RefInv == \A u \in Thread : RefOK(u)

\* A node under a Ref keeps its keys.
LEMMA LockedNodeStays ==
  ASSUME OneMapInserter, PInv, IInv', NEW t \in Thread, Step(t), NEW u \in Thread, pc[u] = "ref", node[u] \in Node
  PROVE  contents'[node[u]] = contents[node[u]]
<1> USE Zenon
<1>1. IInv /\ SInv /\ contents \in [Node -> SUBSET Key] /\ DOMAIN node = Thread
  BY IndexTypes DEF PInv, IInv, TypeOK
<1>2. CanWriteNode(node[t]) => node[t] # node[u]
  BY DEF CanWriteNode
<1>3. FreeNodes # {} => NewNode # node[u]
  <2>1. node[u] \notin FreeNodes
    BY <1>1 DEF FreeNodes, Range
  <2> QED  BY <2>1 DEF NewNode
<1>4. CASE KeepsNodes(t) \/ UpdateMax(t)
  BY <1>1, <1>4, IdleSteps, UpdateMaxEffect DEF Idle
<1>5. CASE PutNode(t) \/ RemoveNode(t) \/ RemoveCommit(t)
  <2>1. CanWriteNode(node[t]) /\ (contents' = contents \/ \E c : Store(node[t], c))
    BY <1>5 DEF PutNode, RemoveNode, RemoveCommit
  <2> QED  BY <1>1, <1>2, <2>1 DEF Store
<1>6. CASE PutRoot(t)
  <2>1. contents' = contents \/ (FreeNodes # {} /\ Store(NewNode, {arg[t]}))
    BY <1>6 DEF PutRoot
  <2> QED  BY <1>1, <1>3, <2>1 DEF Store
<1>7. CASE SplitCommit(t)
  <2>1. CanWriteNode(node[t])
    BY <1>7 DEF SplitCommit
  <2>2. contents' = contents \/ (FreeNodes # {} /\ \E a, b : contents' = [contents EXCEPT ![node[t]] = a, ![NewNode] = b])
    BY <1>7 DEF SplitCommit
  <2> QED  BY <1>1, <1>2, <1>3, <2>1, <2>2
<1> QED  BY <1>4, <1>5, <1>6, <1>7, MapOperations
         DEF KeepsNodes, Step, Put, Commit, Delete, RemoveRange, Attach

\* Nobody overwrites the entry under a Ref.
LEMMA NoWriteUnderRef ==
  ASSUME OneMapInserter, PInv, IInv', NEW t \in Thread, Step(t), NEW u \in Thread, pc[u] = "ref", node[u] \in Node,
         arg[u] \in contents[node[u]]
  PROVE  ~(Writes(t) /\ arg[t] = arg[u])
<1> USE Zenon
<1> SUFFICES ASSUME Writes(t), arg[t] = arg[u] PROVE FALSE
  BY SMT
<1>1. Decides(t) /\ op[t] = "insert"
  BY DEF Writes
<1>2. PutNode(t) \/ PutRoot(t) \/ SplitCommit(t)
  BY <1>1, InsertDecides
<1>3. pc[t] # "done" /\ pc[t] # "idle" /\ pc[t] # "get_gen"
  BY <1>2 DEF PutNode, PutRoot, SplitCommit
<1>4. OneInserter /\ RangeRemovers \subseteq Inserters /\ IInv /\ SInv /\ RInv /\ LInv
  BY DEF OneMapInserter, PInv
<1>5. Takes(t)
  <2>1. Call(t) \/ Return(t) \/ Linear(t)
    BY <1>4, StepLinear
  <2>2. ~Silent(t)
    BY <1>1 DEF Silent, Decides
  <2> QED  BY <1>3, <2>1, <2>2 DEF Call, Return, Linear
<1>6. PICK r \in BOOLEAN : Decide(t, r) /\ Effective(t, r)
  BY <1>5 DEF Takes
<1>7. res'[t] = r
  BY <1>4, <1>6 DEF Decide, IInv, TypeOK
<1>8. arg[t] \in Members
  BY DEF Members
<1>9. ~r
  BY <1>1, <1>6, <1>8 DEF Effective
<1>10. Locked(t) = node[t] /\ node[t] \in Node \cup {None} /\ LockedHas(t)
  <2>1. Locked(t) \in Node \cup {None} /\ LockedHas(t)
    BY <1>1, <1>7, <1>9, LockedDecides, SMT
  <2> QED  BY <1>3, <2>1 DEF Locked
<1>11. node[t] \in Node /\ arg[t] \in contents[node[t]]
  BY <1>10 DEF LockedHas
<1>12. node[t] = node[u]
  BY <1>11, OneHolder
<1>13. ~PutRoot(t)
  <2>1. PutRoot(t) => pc[t] \notin AtNode \cup {"idle", "walk"}
    BY DEF PutRoot, AtNode
  <2>2. node[t] # None
    BY <1>11, NoneAssumption
  <2> QED  BY <1>4, <2>1, <2>2, LabelOperation DEF IInv
<1>14. CanWriteNode(node[t])
  BY <1>2, <1>13 DEF PutNode, SplitCommit
<1> QED  BY <1>12, <1>14 DEF CanWriteNode

\* Only a lookup hands out a Ref.
LEMMA RefFrom ==
  ASSUME TypeOK, NEW t \in Thread, Step(t), pc'[t] = "ref"
  PROVE  GetCheck(t) \/ GetFallback(t)
<1> USE Zenon
<1>1. DOMAIN pc = Thread
  BY DEF TypeOK
<1>2. ASSUME NEW l, Goto(t, l) PROVE l = "ref"
  BY <1>1, <1>2 DEF Goto
<1>3. ~(Put(t) \/ Return(t))
  BY <1>2 DEF Put, PutRead, PutRoot, PutNode, Return
<1>4. ~(Commit(t) \/ SwapRoot(t))
  BY <1>2 DEF Commit, SplitWrite, SplitCommit, RekeyWrite, UpdateMax, SwapRoot
<1>5. ~Release(t)
  <2>1. ASSUME Release(t) PROVE FALSE
    <3>1. op[t] \in {"insert", "remove", "remove_range", "attach_node"}
      BY <2>1, LabelOperation DEF Release
    <3>2. FirstStep(op[t]) \in {"put_read", "remove_read", "range_write", "attach_write"}
      BY <3>1 DEF FirstStep
    <3>3. (IF res[t] = None THEN FirstStep(op[t]) ELSE "done") = "ref"
      BY <1>2, <2>1 DEF Release
    <3> QED  BY <3>2, <3>3
  <2> QED  BY <2>1, SMT
<1>6. ~(Delete(t) \/ RemoveRange(t) \/ Attach(t))
  BY <1>2 DEF Delete, RemoveRead, RemoveNode, RemoveWrite, RemoveCommit, RemoveRange, RangeWrite, RangeCommit,
                     RangeInOneNode, RangeAcrossNodes, Attach, AttachWrite, AttachCommit
<1>7. ~(GetGeneration(t) \/ GetRoot(t) \/ GetLock(t) \/ DropRef(t) \/ SelectOptimistic(t))
  BY <1>2 DEF GetGeneration, Retry, GetRoot, GetLock, DropRef, SelectOptimistic, SelectRead, SelectNode
<1> QED  BY <1>3, <1>4, <1>5, <1>6, <1>7 DEF Step, Drop, Get

\* A get that hits hands out the entry of the node it has locked.
LEMMA RefTaken ==
  ASSUME OneMapInserter, PInv, HandInv, NEW t \in Thread, MapStep(t), pc'[t] = "ref"
  PROVE  RefOK(t)'
<1> USE Zenon
<1>1. IInv /\ TypeOK /\ DOMAIN pc = Thread /\ DOMAIN node = Thread /\ DOMAIN res = Thread /\ DOMAIN got = Thread
  BY DEF PInv, HandInv, IInv, TypeOK
<1>2. Step(t) /\ stored' = StoredAfter(t) /\ (GetCheck(t) \/ GetFallback(t))
  BY <1>1, RefFrom DEF MapStep
<1>3. op[t] # "insert" /\ arg[t] \in Key /\ pc[t] \in {"get_check", "get_gen"} /\ arg' = arg /\ contents' = contents
  BY <1>1, <1>2, LabelOperation DEF GetCheck, GetFallback, shared
<1>4. PICK hit \in BOOLEAN : Answer(t, Locked(t), hit)
  <2>1. CASE GetCheck(t)
    <3> DEFINE r == node[t] # None /\ arg[t] \in contents[node[t]]
    <3>1. r \in BOOLEAN
      BY SMT
    <3>2. t \in unmoved
      BY <1>1, <2>1 DEF GetCheck, Retry, Goto
    <3>3. Answer(t, node[t], r) /\ Locked(t) = node[t]
      BY <2>1, <3>2 DEF GetCheck, Locked
    <3> HIDE DEF r
    <3> QED  BY <3>1, <3>3, SMT
  <2>2. CASE GetFallback(t)
    <3>1. CASE DOMAIN topo.index = {} /\ Answer(t, None, FALSE)
      BY <2>2, <3>1 DEF GetFallback, Locked
    <3>2. ASSUME NEW k \in DOMAIN topo.index, Covers(topo.index, arg[t], k),
                 Answer(t, topo.index[k], arg[t] \in contents[topo.index[k]])
          PROVE  \E hit \in BOOLEAN : Answer(t, Locked(t), hit)
      <4> DEFINE r == arg[t] \in contents[topo.index[k]]
      <4>1. Locked(t) = topo.index[k]
        BY <1>1, <1>3, <2>2, <3>2, LockedFallback DEF GetFallback
      <4>2. r \in BOOLEAN
        BY SMT
      <4>3. Answer(t, Locked(t), r)
        BY <3>2, <4>1
      <4> HIDE DEF r
      <4> QED  BY <4>2, <4>3, SMT
    <3> QED  BY <2>2, <3>1, <3>2 DEF GetFallback
  <2> QED  BY <1>2, <2>1, <2>2, SMT
<1>5. hit /\ res'[t] = hit /\ node'[t] = Locked(t)
  BY <1>1, <1>4 DEF Answer, Decide, Goto, Hold
<1>6. Decides(t) /\ pc[t] # "done"
  <2>1. res[t] = None
    BY <1>1, <1>3 DEF PInv, LInv, ResInv, ResOK, Undecided, Pending
  <2>2. hit # None
    BY NoneAssumption, SMT
  <2> QED  BY <1>3, <1>5, <2>1, <2>2 DEF Decides
<1>7. LockedHas(t) /\ Locked(t) \in Node
  <2>1. Locked(t) \in Node \cup {None} /\ LockedHas(t)
    BY <1>2, <1>3, <1>5, <1>6, LockedDecides
  <2> QED  BY <2>1 DEF LockedHas
<1>8. got'[t] = stored[Locked(t)][arg[t]]
  <2>1. got'[t] = Found(t)
    BY <1>1, <1>6 DEF MapStep
  <2> QED  BY <1>7, <2>1 DEF Found, LockedHas
<1>9. arg[t] \in contents[Locked(t)] /\ ~Writes(t)
  BY <1>3, <1>7 DEF LockedHas, Writes
<1> DEFINE n == Locked(t)
<1>10. n \in Node /\ arg[t] \in contents[n] /\ got'[t] = stored[n][arg[t]] /\ node'[t] = n
  BY <1>5, <1>7, <1>8, <1>9, SMT
<1> HIDE DEF n
<1>11. stored'[n][arg[t]] = stored[n][arg[t]]
  BY <1>2, <1>3, <1>9, <1>10 DEF StoredAfter
<1> QED  BY <1>3, <1>10, <1>11 DEF RefOK

\* The entry under a Ref stays through the steps of the others.
LEMMA RefStays ==
  ASSUME OneMapInserter, PInv, IInv', HandInv, RefInv, NEW t \in Thread, MapCall(t) \/ MapStep(t)
  PROVE  RefInv'
<1> USE Zenon
<1>1. IInv /\ TypeOK /\ DOMAIN pc = Thread /\ DOMAIN got = Thread /\ DOMAIN op = Thread
  BY DEF PInv, HandInv, IInv, TypeOK
<1>2. Call(t) \/ Step(t)
  BY DEF MapCall, MapStep
<1>3. OthersStay(t)
  <2>1. CASE KeepsNodes(t) \/ Commits(t)
    BY <1>1, <2>1, IdleSteps, CommitFrame DEF Idle
  <2>2. CASE PutNode(t) \/ RemoveNode(t)
    BY <1>1, <2>2, NodeStepFrame
  <2> QED  BY <1>2, <2>1, <2>2 DEF Commits, KeepsNodes, Step, Put, Commit, Delete, RemoveRange, Attach
<1>4. ASSUME pc'[t] = "ref" PROVE RefOK(t)'
  <2>1. ~Call(t)
    <3>1. ASSUME Call(t) PROVE FALSE
      <4>1. PICK o \in Operations : Goto(t, FirstStep(o))
        BY <3>1 DEF Call
      <4>2. FirstStep(o) = "ref"
        BY <1>1, <1>4, <4>1 DEF Goto
      <4> QED  BY <4>2 DEF FirstStep, Operations
    <3> QED  BY <3>1, SMT
  <2> QED  BY <1>4, <2>1, RefTaken DEF MapCall
<1>5. ASSUME NEW u \in Thread \ {t}, pc'[u] = "ref" PROVE RefOK(u)'
  <2>1. pc[u] = "ref" /\ node'[u] = node[u] /\ arg'[u] = arg[u]
    BY <1>3, <1>5 DEF OthersStay
  <2>2. got'[u] = got[u]
    BY <1>1, <1>5 DEF MapCall, MapStep
  <2>3. node[u] \in Node /\ arg[u] \in contents[node[u]] /\ stored[node[u]][arg[u]] = got[u]
    BY <2>1 DEF RefInv, RefOK
  <2>4. CASE MapCall(t)
    <3>1. contents' = contents /\ stored' = stored
      BY <2>4 DEF MapCall, Call, shared
    <3> QED  BY <2>1, <2>2, <2>3, <3>1 DEF RefOK
  <2>5. CASE MapStep(t)
    <3>1. Step(t) /\ stored' = StoredAfter(t)
      BY <2>5 DEF MapStep
    <3>2. contents'[node[u]] = contents[node[u]]
      BY <2>1, <2>3, <3>1, LockedNodeStays
    <3>3. ~(Writes(t) /\ arg[t] = arg[u])
      BY <2>1, <2>3, <3>1, NoWriteUnderRef
    <3>4. stored'[node[u]][arg[u]] = stored[node[u]][arg[u]]
      BY <2>3, <3>1, <3>2, <3>3 DEF StoredAfter
    <3> QED  BY <2>1, <2>2, <2>3, <3>2, <3>4 DEF RefOK
  <2> QED  BY <2>4, <2>5, SMT
<1>6. ASSUME NEW u \in Thread PROVE RefOK(u)'
  BY <1>4, <1>5 DEF RefOK
<1> QED  BY <1>6 DEF RefInv

\* The initial states.
LEMMA MapInitLinear == MapInit => HandInv /\ RefInv /\ (IInv => Map!Init)
<1> USE Zenon
<1> SUFFICES ASSUME MapInit PROVE HandInv /\ RefInv /\ (IInv => Map!Init)
  BY SMT
<1>1. Init /\ given = [t \in Thread |-> None] /\ got = [t \in Thread |-> None]
  BY DEF MapInit
<1>2. HandInv
  BY <1>1 DEF HandInv
<1>3. RefInv
  BY <1>1 DEF RefInv, RefOK, Init
<1>4. ASSUME IInv PROVE Map!Init
  <2>1. PICK v \in Value : stored = [n \in Node |-> [k \in contents[n] |-> v]]
    BY DEF MapInit
  <2>2. contents \in [Node -> SUBSET Key] /\ Linked \subseteq Node
    BY <1>4, IndexTypes DEF Linked, Range
  <2>3. Elements \in SUBSET Key
    BY <2>2 DEF Elements
  <2>4. ASSUME NEW k \in Elements PROVE ValueOf(k) = v
    <3> DEFINE n == CHOOSE i \in Linked : k \in contents[i]
    <3>1. n \in Linked /\ k \in contents[n]
      BY DEF Elements
    <3>2. ValueOf(k) = stored[n][k]
      BY DEF ValueOf
    <3> HIDE DEF n
    <3> QED  BY <2>1, <2>2, <3>1, <3>2
  <2>5. pairs \in [Elements -> Value]
    BY <2>4 DEF pairs
  <2>6. \E D \in SUBSET Map!Key : pairs \in [D -> Value]
    BY <2>3, <2>5 DEF Key, Map!Key
  <2> QED  BY <1>1, <2>6 DEF Init, Map!Init, pairs, ValueOf
<1> QED  BY <1>2, <1>3, <1>4, SMT

-----------------------------------------------------------------------------
(* The map: every step.                                                    *)

\* On its keys the map takes the steps of the set.
LEMMA MapRunsTheSet == MapSpec => Spec
<1>1. MapInit => Init
  BY Zenon DEF MapInit
<1>2. [MapNext]_<<vars, values>> => [Next]_vars
  BY Zenon DEF MapNext, MapCall, MapStep, Next
<1> QED  BY <1>1, <1>2, PTL DEF MapSpec, Spec

\* Every step keeps the map's invariants and is one of the atomic map.
LEMMA MapNextLinear ==
  ASSUME OneMapInserter
  PROVE  (IInv /\ SInv /\ RInv) /\ IInv' /\ LInv /\ HandInv /\ RefInv /\ [MapNext]_<<vars, values>>
           => LInv' /\ HandInv' /\ RefInv' /\ [Map!Next]_Map!vars
<1> USE Zenon
<1> SUFFICES ASSUME IInv, SInv, RInv, IInv', LInv, HandInv, RefInv, [MapNext]_<<vars, values>>
             PROVE  LInv' /\ HandInv' /\ RefInv' /\ [Map!Next]_Map!vars
  BY SMT
<1>1. PInv
  BY DEF PInv
<1>2. CASE UNCHANGED <<vars, values>>
  <2>1. UNCHANGED <<topo, contents, pc, op, arg, node, res, stored, given, got>>
    BY <1>2 DEF vars, shared, locals, values
  <2>2. LInv'
    BY <2>1 DEF LInv, ResInv, ResOK, UnlinkedAreEmpty, Linked
  <2>3. HandInv' /\ RefInv'
    BY <2>1 DEF HandInv, RefInv, RefOK
  <2>4. pairs' = pairs
    BY <1>1, <2>1, PairsUnchanged
  <2> QED  BY <2>1, <2>2, <2>3, <2>4 DEF Map!vars, pairs, ValueOf
<1>3. ASSUME NEW t \in Thread, MapCall(t) \/ MapStep(t)
      PROVE  LInv' /\ HandInv' /\ RefInv' /\ [Map!Next]_Map!vars
  <2>1. LInv' /\ HandInv' /\ [Map!Next]_Map!vars
    BY <1>1, <1>3, MapStepLinear, SMT
  <2>2. RefInv'
    BY <1>1, <1>3, RefStays, SMT
  <2> QED  BY <2>1, <2>2, SMT
<1> QED  BY <1>2, <1>3 DEF MapNext

=============================================================================
