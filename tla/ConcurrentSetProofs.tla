------------------------ MODULE ConcurrentSetProofs -------------------------
(***************************************************************************)
(* Every step of the concurrent set keeps IInv, and what a step of one     *)
(* thread leaves alone for those who walk beside it; for any number of     *)
(* keys, nodes and threads and any node capacity.                          *)
(***************************************************************************)
EXTENDS ConcurrentSetLemmas

-----------------------------------------------------------------------------
(* Steps under the structural write lock.                                  *)

\* A step under the structural write lock of a publishing guard, or one that
\* takes it: readers are out of date, and a changed topology marks it dirty.
Guarded(t) ==
  /\ OthersStay(t)
  /\ root' = root /\ unmoved' = {} /\ odd' = TRUE
  /\ pc'[t] \in Publishing
  /\ \A u \in Thread \ {t} : pc[u] \notin Writing \cup Reading
  /\ Mirrors(topo')
  /\ pc'[t] = "dirty" \/ (pc[t] # "dirty" /\ topo' = topo)

-----------------------------------------------------------------------------
(* Initial states.                                                         *)

\* A published index built from scratch mirrors an injective canonical one.
LEMMA FreshMirrors ==
  ASSUME NEW f, DOMAIN f \subseteq Key, f \in [DOMAIN f -> Node],
         \A j, k \in DOMAIN f : f[j] = f[k] => j = k
  PROVE  LET T == [index |-> f, routes |-> f, keys |-> AntiFunction(f)]
         IN  T \in Topologies /\ Mirrors(T)
<1> USE Zenon
<1> DEFINE g == AntiFunction(f)
           T == [index |-> f, routes |-> f, keys |-> g]
<1>1. g = [n \in Range(f) |-> CHOOSE k \in DOMAIN f : n \in Range(f) => f[k] = n]
  BY DEF AntiFunction, Inverse
<1>2. Range(f) = {f[k] : k \in DOMAIN f}
  BY DEF Range
<1>3. \A n \in Range(f) : \E k \in DOMAIN f : f[k] = n
  BY <1>2
<1>4. DOMAIN g = Range(f) /\ \A n \in Range(f) : g[n] \in DOMAIN f /\ f[g[n]] = n
  BY <1>1, <1>3, SMT
<1>5. Range(f) \subseteq Node /\ g \in [DOMAIN g -> Key]
  BY <1>1, <1>2, <1>4, SMT
<1>6. \A k \in DOMAIN f : f[k] \in DOMAIN g /\ g[f[k]] = k
  BY <1>2, <1>4, SMT
<1> HIDE DEF g
<1>7. T \in Topologies
  BY <1>4, <1>5, TopologyType
<1>8. T.index = f /\ T.routes = f /\ T.keys = g
  OBVIOUS
<1> HIDE DEF T
<1>9. Mirrors(T)
  BY <1>3, <1>4, <1>6, <1>8, MirrorsPointwise, SMTT(60)
<1> QED  BY <1>7, <1>9 DEF T, g

\* A set built by with_maximum_node_size and attach_nodes satisfies the invariant.
LEMMA InitInv == KeySetsCount /\ Init => IInv
<1> USE Zenon
<1> SUFFICES ASSUME KeySetsCount, Init PROVE IInv
  OBVIOUS
<1>1. contents \in [Node -> SUBSET Key]
  BY RestoredAssumption DEF Init
<1>2. /\ DOMAIN root \subseteq Key /\ root \in [DOMAIN root -> Node]
      /\ \A k \in DOMAIN root : Max(contents[root[k]]) = k
  BY <1>1, AttachedIndexType DEF Init
<1>3. \A j, k \in DOMAIN root : root[j] = root[k] => j = k
  BY <1>2
<1>4. topo \in Topologies /\ Mirrors(topo) /\ root = topo.routes
  <2>1. topo = [index |-> root, routes |-> root, keys |-> AntiFunction(root)]
    BY DEF Init
  <2> QED  BY <1>2, <1>3, <2>1, FreshMirrors
<1>5. TypeOK
  <2>1. root \in PartialFunctions(Key, Node)
    BY <1>2, PartialFunctionType
  <2>2. /\ odd \in BOOLEAN /\ unmoved \in SUBSET Thread
        /\ DOMAIN pc = Thread /\ DOMAIN arg = Thread
        /\ op \in [Thread -> Operations \cup {None}]
        /\ node \in [Thread -> Node \cup {None}] /\ key \in [Thread -> Key \cup {None}]
        /\ res \in [Thread -> BOOLEAN \cup {None}]
    BY ZenonT(60) DEF Init
  <2>3. retries \in [Thread -> 0 .. FallbackAfter]
    BY SMT DEF Init, FallbackAfter
  <2>4. \A t \in Thread : ThreadOK(t)
    <3> SUFFICES ASSUME NEW t \in Thread PROVE ThreadOK(t)
      OBVIOUS
    <3>1. pc[t] = "idle" /\ op[t] = None /\ arg[t] = None /\ node[t] = None
      BY DEF Init
    <3> QED  BY <3>1 DEF ThreadOK, AtNode, AtEntry
  <2> QED  BY <1>1, <1>4, <2>1, <2>2, <2>3, <2>4 DEF TypeOK
<1>6. LockInv /\ ReaderInv
  BY DEF Init, LockInv, ReaderInv, Writing, Reading, Publishing
<1> QED  BY <1>4, <1>5, <1>6 DEF IInv, PublicationInvariant

-----------------------------------------------------------------------------
(* Every step.                                                             *)

\* Guarded steps preserve the invariant: no reader's generation is current.
LEMMA GuardedStep ==
  ASSUME IInv, TypeOK', NEW t \in Thread, Guarded(t)
  PROVE  IInv'
<1> USE Zenon
<1>1. PublicationInvariant'
  <2>1. ASSUME \A u \in Thread : pc'[u] # "dirty" PROVE root' = topo'.routes
    <3>1. \A u \in Thread : pc[u] # "dirty"
      BY <2>1 DEF Guarded, OthersStay
    <3> QED  BY <2>1, <3>1 DEF IInv, PublicationInvariant, Guarded
  <2> QED  BY <2>1 DEF PublicationInvariant, Guarded
<1>2. LockInv'
  <2>1. \A u \in Thread \ {t} : pc'[u] \notin Writing \cup Reading
    BY DEF Guarded, OthersStay
  <2>2. pc'[t] \in Publishing /\ pc'[t] \in Writing
    BY DEF Guarded, Writing
  <2> QED  BY <2>1, <2>2 DEF LockInv, Guarded
<1>3. ReaderInv'
  BY DEF ReaderInv, Guarded
<1> QED  BY <1>1, <1>2, <1>3 DEF IInv

\* Every step of every thread preserves the invariant, one case per operation.
LEMMA NextInv == IInv /\ [Next]_vars => IInv'
<1> SUFFICES ASSUME KeySetsCount PROVE IInv /\ [Next]_vars => IInv'
  BY Zenon DEF IInv

\* Topology::write before a split makes the generation odd.
<1>SplitWriteInv.
     ASSUME IInv, NEW t \in Thread, SplitWrite(t)
     PROVE  IInv'
  <2> USE <1>SplitWriteInv, Zenon
  <2>1. op[t] = "insert" /\ arg[t] \in Key /\ node[t] \in Node /\ key[t] \in Key
    BY LabelOperation DEF IInv, SplitWrite, AtNode, AtEntry
  <2>2. SharedTypes' /\ LocalTypes' /\ OthersStay(t)
    BY DEF IInv, TypeOK, SharedTypes, LocalTypes, OthersStay, BumpGeneration, SplitWrite, Goto
  <2>3. ThreadOK(t)'
    BY <2>1, NoneAssumption DEF IInv, TypeOK, ThreadOK, AtNode, AtEntry, Labels, Arguments, SplitWrite, Goto
  <2>4. Guarded(t)
    BY <2>2, Acquire, ZenonT(60) DEF Guarded, IInv, TypeOK, BumpGeneration, Publishing, SplitWrite, Goto
  <2> QED  BY <2>2, <2>3, <2>4, StepType, GuardedStep DEF IInv

\* Topology::write in remove_range makes the generation odd.
<1>RangeWriteInv.
     ASSUME IInv, NEW t \in Thread, RangeWrite(t)
     PROVE  IInv'
  <2> USE <1>RangeWriteInv, Zenon
  <2>1. op[t] = "remove_range" /\ arg[t] \in Ranges /\ node[t] = None
    BY LabelOperation DEF IInv, RangeWrite, AtNode
  <2>2. SharedTypes' /\ LocalTypes' /\ OthersStay(t)
    BY DEF IInv, TypeOK, SharedTypes, LocalTypes, OthersStay, BumpGeneration, RangeWrite, Goto
  <2>3. ThreadOK(t)'
    BY <2>1, NoneAssumption DEF IInv, TypeOK, ThreadOK, AtNode, AtEntry, Labels, Arguments, RangeWrite, Goto
  <2>4. Guarded(t)
    BY <2>2, Acquire, ZenonT(60) DEF Guarded, IInv, TypeOK, BumpGeneration, Publishing, RangeWrite, Goto
  <2> QED  BY <2>2, <2>3, <2>4, StepType, GuardedStep DEF IInv

\* Topology::write in attach_nodes makes the generation odd.
<1>AttachWriteInv.
     ASSUME IInv, NEW t \in Thread, AttachWrite(t)
     PROVE  IInv'
  <2> USE <1>AttachWriteInv, Zenon
  <2>1. op[t] = "attach_node" /\ arg[t] \in (SUBSET Key) \ {{}} /\ node[t] = None
    BY LabelOperation DEF IInv, AttachWrite, AtNode
  <2>2. SharedTypes' /\ LocalTypes' /\ OthersStay(t)
    BY DEF IInv, TypeOK, SharedTypes, LocalTypes, OthersStay, BumpGeneration, AttachWrite, Goto
  <2>3. ThreadOK(t)'
    BY <2>1, NoneAssumption DEF IInv, TypeOK, ThreadOK, AtNode, AtEntry, Labels, Arguments, AttachWrite, Goto
  <2>4. Guarded(t)
    BY <2>2, Acquire, ZenonT(60) DEF Guarded, IInv, TypeOK, BumpGeneration, Publishing, AttachWrite, Goto
  <2> QED  BY <2>2, <2>3, <2>4, StepType, GuardedStep DEF IInv

\* remove_inner takes the write guard for a node's last element and routes again.
<1>RemoveWriteInv.
     ASSUME IInv, NEW t \in Thread, RemoveWrite(t)
     PROVE  IInv'
  <2> USE <1>RemoveWriteInv, Zenon
  <2>1. op[t] = "remove" /\ arg[t] \in Key
    BY LabelOperation DEF IInv, RemoveWrite, AtNode
  <2>2. SharedTypes'
    BY DEF IInv, TypeOK, SharedTypes, BumpGeneration, RemoveWrite
  <2>3. LocalTypes' /\ OthersStay(t)
    <3>1. node' \in [Thread -> Node \cup {None}] /\ key' \in [Thread -> Key \cup {None}]
      BY TopologyFields, SMT DEF IInv, TypeOK, RemoveWrite, Select, Hold, Forget
    <3>2. DOMAIN pc' = Thread /\ res' \in [Thread -> BOOLEAN \cup {None}]
      BY ZenonT(60) DEF IInv, TypeOK, RemoveWrite, Goto, Decide
    <3>3. OthersStay(t)
      BY ZenonT(60) DEF IInv, TypeOK, OthersStay, RemoveWrite, Select, Hold, Forget, Goto
    <3> QED  BY <3>1, <3>2, <3>3 DEF IInv, TypeOK, LocalTypes, RemoveWrite
  <2>4. ThreadOK(t)'
    <3>1. topo.index \in PartialFunctions(Key, Node)
      BY TopologyFields, PartialFunctionType DEF IInv, TypeOK
    <3>2. /\ DOMAIN topo.index = {} => node'[t] = None
          /\ DOMAIN topo.index # {} => node'[t] # None /\ key'[t] # None
      BY <3>1, SelectType, ZenonT(60) DEF IInv, RemoveWrite
    <3>3. pc'[t] = IF DOMAIN topo.index = {} THEN "clean" ELSE "remove_commit"
      BY ZenonT(60) DEF IInv, TypeOK, RemoveWrite, Goto
    <3>4. op'[t] = "remove" /\ arg'[t] \in Key
      BY <2>1 DEF RemoveWrite
    <3> QED  BY <3>2, <3>3, <3>4, NoneAssumption DEF ThreadOK, AtNode, AtEntry, Labels, Arguments, Operations
  <2>5. Guarded(t)
    BY <2>3, Acquire, ZenonT(60) DEF Guarded, IInv, TypeOK, BumpGeneration, Publishing, RemoveWrite, Goto
  <2> QED  BY <2>2, <2>3, <2>4, <2>5, StepType, GuardedStep DEF IInv

\* put_checked_inner inserts the first node, or finds that another writer did.
<1>PutRootInv.
     ASSUME IInv, NEW t \in Thread, PutRoot(t)
     PROVE  IInv'
  <2> USE <1>PutRootInv, Zenon
  <2>1. op[t] = "insert" /\ arg[t] \in Key /\ node[t] = None
    BY LabelOperation DEF IInv, PutRoot, AtNode
  <2>2. topo' \in Topologies /\ Mirrors(topo') /\ contents' \in [Node -> SUBSET Key]
    <3>1. CASE UNCHANGED <<topo, contents>>
      BY <3>1 DEF IInv, TypeOK, PublicationInvariant
    <3>2. CASE /\ FreeNodes # {}
               /\ Store(NewNode, {arg[t]})
               /\ topo' = Insert(topo, arg[t], NewNode)
      BY <2>1, <3>2, NewNodeIsFree, InsertMirrors DEF IInv, TypeOK, PublicationInvariant, Store
    <3> QED  BY <3>1, <3>2, ZenonT(60) DEF PutRoot
  <2>3. SharedTypes' /\ LocalTypes' /\ OthersStay(t)
    <3>1. SharedTypes'
      BY <2>2 DEF IInv, TypeOK, SharedTypes, BumpGeneration, PutRoot
    <3>2. DOMAIN pc' = Thread /\ res' \in [Thread -> BOOLEAN \cup {None}]
      BY ZenonT(60) DEF IInv, TypeOK, PutRoot, Goto, Decide
    <3>3. OthersStay(t)
      BY ZenonT(60) DEF IInv, TypeOK, OthersStay, PutRoot, Goto
    <3> QED  BY <3>1, <3>2, <3>3 DEF IInv, TypeOK, LocalTypes, PutRoot
  <2>4. ThreadOK(t)'
    BY <2>1, NoneAssumption, ZenonT(60) DEF IInv, TypeOK, ThreadOK, AtNode, AtEntry, Labels, Arguments, PutRoot, Goto
  <2>5. Guarded(t)
    BY <2>2, <2>3, Acquire, ZenonT(60) DEF Guarded, IInv, TypeOK, BumpGeneration, Publishing, PutRoot, Goto
  <2> QED  BY <2>3, <2>4, <2>5, StepType, GuardedStep DEF IInv

\* Topology::write_rekey takes the lock and leaves the generation even.
<1>RekeyWriteInv.
     ASSUME IInv, NEW t \in Thread, RekeyWrite(t)
     PROVE  IInv'
  <2> USE <1>RekeyWriteInv, Zenon
  <2>1. op[t] \in {"insert", "remove"} /\ arg[t] \in Key /\ node[t] \in Node /\ key[t] \in Key
    BY LabelOperation DEF IInv, RekeyWrite, AtNode, AtEntry
  <2>2. SharedTypes' /\ LocalTypes' /\ OthersStay(t)
    BY DEF IInv, TypeOK, SharedTypes, LocalTypes, OthersStay, shared, RekeyWrite, Goto
  <2>3. ThreadOK(t)'
    BY <2>1, NoneAssumption DEF IInv, TypeOK, ThreadOK, AtNode, AtEntry, Labels, Arguments, RekeyWrite, Goto
  <2>4. TypeOK'
    BY <2>2, <2>3, StepType DEF IInv
  <2>5. \A u \in Thread : pc[u] \notin Writing \cup Reading
    BY Acquire, ZenonT(60) DEF RekeyWrite
  <2>6. pc'[t] = "rekey_commit" /\ \A u \in Thread \ {t} : pc'[u] = pc[u]
    BY DEF IInv, TypeOK, RekeyWrite, Goto
  <2>7. LockInv'
    <3>1. \A w, u \in Thread : w # u /\ pc'[w] \in Writing => pc'[u] \notin Writing \cup Reading
      BY <2>5, <2>6
    <3>2. odd = FALSE /\ \A u \in Thread : pc'[u] \notin Publishing
      BY <2>5, <2>6, Acquire, ZenonT(60) DEF RekeyWrite, Writing, Publishing
    <3> QED  BY <3>1, <3>2 DEF LockInv, RekeyWrite, shared
  <2>8. PublicationInvariant'
    BY <2>5 DEF IInv, PublicationInvariant, RekeyWrite, shared, Writing, Publishing
  <2>9. ReaderInv'
    <3> SUFFICES ASSUME NEW u \in unmoved', pc'[u] \in {"get_lock", "get_check"}
                 PROVE  RoutedBy(root', arg'[u], node'[u])
      BY DEF ReaderInv
    <3>1. u \in Thread \ {t}
      BY <2>6 DEF IInv, TypeOK, RekeyWrite, shared
    <3> QED  BY <2>6, <3>1 DEF IInv, ReaderInv, RekeyWrite, shared
  <2> QED  BY <2>4, <2>7, <2>8, <2>9 DEF IInv

\* Operation::commit splits a node, or finds its entry gone.
<1>SplitCommitInv.
     ASSUME IInv, NEW t \in Thread, SplitCommit(t)
     PROVE  IInv'
  <2> USE <1>SplitCommitInv, Zenon
  <2>1. op[t] = "insert" /\ arg[t] \in Key /\ node[t] \in Node /\ key[t] \in Key
    BY LabelOperation DEF IInv, SplitCommit, AtNode, AtEntry
  <2>2. /\ topo' \in Topologies /\ Mirrors(topo') /\ contents' \in [Node -> SUBSET Key]
        /\ (topo' = topo /\ pc'[t] = "clean") \/ pc'[t] = "dirty"
        /\ DOMAIN pc' = Thread /\ res' \in [Thread -> BOOLEAN \cup {None}]
    <3> DEFINE c == contents[node[t]]
               low == LowerHalf(c)
               left == IF RidesLow(low, arg[t]) THEN low \cup {arg[t]} ELSE low
               right == IF RidesLow(low, arg[t]) THEN c \ low ELSE (c \ low) \cup {arg[t]}
    <3>1. CASE Goto(t, "clean") /\ UNCHANGED <<topo, contents, res>>
      BY <3>1 DEF IInv, TypeOK, PublicationInvariant, Goto
    <3>2. CASE /\ EntryIsCurrent(t) /\ c # {} /\ FreeNodes # {}
               /\ contents' = [contents EXCEPT ![node[t]] = left, ![NewNode] = right]
               /\ topo' = SplitTopology(topo, key[t], node[t], left, NewNode, right)
               /\ Decide(t, arg[t] \notin c) /\ Goto(t, "dirty")
      <4>1. c \in SUBSET Key /\ low \in SUBSET Key
        BY <2>1 DEF IInv, TypeOK, LowerHalf
      <4>2. left \in SUBSET Key /\ right \in SUBSET Key /\ right # {}
        BY <2>1, <3>2, <4>1, UpperHalf, ZenonT(60) DEF IInv
      <4>3. NewNode \in Node /\ NewNode \notin Range(topo.index)
        BY <3>2, NewNodeIsFree DEF IInv
      <4> HIDE DEF left, right
      <4>4. topo' \in Topologies /\ Mirrors(topo')
        BY <2>1, <3>2, <4>2, <4>3, SplitMirrors, ZenonT(60) DEF IInv, TypeOK, PublicationInvariant, EntryIsCurrent
      <4>5. contents' \in [Node -> SUBSET Key]
        BY <2>1, <3>2, <4>2, <4>3 DEF IInv, TypeOK
      <4>6. DOMAIN pc' = Thread /\ pc'[t] = "dirty" /\ res' \in [Thread -> BOOLEAN \cup {None}]
        BY <3>2 DEF IInv, TypeOK, Goto, Decide
      <4> QED  BY <4>4, <4>5, <4>6
    <3> QED  BY <3>1, <3>2 DEF SplitCommit
  <2>3. SharedTypes' /\ LocalTypes' /\ OthersStay(t)
    <3>1. SharedTypes'
      BY <2>2 DEF IInv, TypeOK, SharedTypes, SplitCommit
    <3>2. LocalTypes'
      BY <2>2, ForgetType, ZenonT(60) DEF IInv, TypeOK, LocalTypes, SplitCommit
    <3>3. OthersStay(t)
      BY ZenonT(60) DEF IInv, TypeOK, OthersStay, SplitCommit, Forget, Hold, Goto
    <3> QED  BY <3>1, <3>2, <3>3
  <2>4. ThreadOK(t)'
    <3>1. node'[t] = None /\ op'[t] = "insert" /\ arg'[t] \in Key
      BY <2>1, ForgetType DEF IInv, SplitCommit
    <3> QED  BY <2>2, <3>1, NoneAssumption DEF ThreadOK, AtNode, AtEntry, Labels, Arguments, Operations
  <2>5. Guarded(t)
    <3>1. /\ pc[t] = "split_commit" /\ pc[t] \in Publishing /\ pc[t] \in Writing
          /\ UNCHANGED <<root, odd, unmoved>>
      BY DEF SplitCommit, Publishing, Writing
    <3> QED  BY <2>2, <2>3, <3>1, Alone DEF Guarded, IInv, TypeOK, Publishing
  <2> QED  BY <2>3, <2>4, <2>5, StepType, GuardedStep DEF IInv

\* remove_inner unlinks a node with its last element, or starts over.
<1>RemoveCommitInv.
     ASSUME IInv, NEW t \in Thread, RemoveCommit(t)
     PROVE  IInv'
  <2> USE <1>RemoveCommitInv, Zenon
  <2>1. op[t] = "remove" /\ arg[t] \in Key /\ node[t] \in Node /\ key[t] \in Key
    BY LabelOperation, ZenonT(60) DEF IInv, RemoveCommit, AtNode, AtEntry
  <2>2. /\ topo' \in Topologies /\ Mirrors(topo') /\ contents' \in [Node -> SUBSET Key]
        /\ (topo' = topo /\ pc'[t] = "clean") \/ pc'[t] = "dirty"
        /\ DOMAIN pc' = Thread /\ res' \in [Thread -> BOOLEAN \cup {None}]
    <3>1. CASE Goto(t, "clean") /\ UNCHANGED <<topo, contents, res>>
      BY <3>1 DEF IInv, TypeOK, PublicationInvariant, Goto
    <3>2. CASE Decide(t, FALSE) /\ Goto(t, "clean") /\ UNCHANGED <<topo, contents>>
      BY <3>2 DEF IInv, TypeOK, PublicationInvariant, Goto, Decide
    <3>3. CASE /\ Store(node[t], contents[node[t]] \ {arg[t]}) /\ topo' = Remove(topo, key[t])
               /\ Decide(t, TRUE) /\ Goto(t, "dirty")
      <4>1. topo' \in Topologies /\ Mirrors(topo')
        BY <3>3, RemoveAllMirrors, ZenonT(60) DEF IInv, TypeOK, PublicationInvariant, Remove
      <4> QED  BY <2>1, <3>3, <4>1 DEF IInv, TypeOK, Store, Goto, Decide
    <3> QED  BY <3>1, <3>2, <3>3, ZenonT(60) DEF RemoveCommit
  <2>3. SharedTypes' /\ LocalTypes' /\ OthersStay(t)
    <3>1. SharedTypes'
      BY <2>2 DEF IInv, TypeOK, SharedTypes, RemoveCommit
    <3>2. LocalTypes'
      BY <2>2, ForgetType, ZenonT(60) DEF IInv, TypeOK, LocalTypes, RemoveCommit
    <3>3. OthersStay(t)
      BY ZenonT(60) DEF IInv, TypeOK, OthersStay, RemoveCommit, Forget, Hold, Goto
    <3> QED  BY <3>1, <3>2, <3>3
  <2>4. ThreadOK(t)'
    <3>1. node'[t] = None /\ op'[t] = "remove" /\ arg'[t] \in Key
      BY <2>1, ForgetType DEF IInv, RemoveCommit
    <3> QED  BY <2>2, <3>1, NoneAssumption DEF ThreadOK, AtNode, AtEntry, Labels, Arguments, Operations
  <2>5. Guarded(t)
    <3>1. /\ pc[t] = "remove_commit" /\ pc[t] \in Publishing /\ pc[t] \in Writing
          /\ UNCHANGED <<root, odd, unmoved>>
      BY DEF RemoveCommit, Publishing, Writing
    <3> QED  BY <2>2, <2>3, <3>1, Alone DEF Guarded, IInv, TypeOK, Publishing
  <2> QED  BY <2>3, <2>4, <2>5, StepType, GuardedStep DEF IInv

\* attach_nodes links a node in one critical section.
<1>AttachCommitInv.
     ASSUME IInv, NEW t \in Thread, AttachCommit(t)
     PROVE  IInv'
  <2> USE <1>AttachCommitInv, Zenon
  <2>1. op[t] = "attach_node" /\ arg[t] \in (SUBSET Key) \ {{}} /\ node[t] = None
    BY LabelOperation, ZenonT(60) DEF IInv, AttachCommit, AtNode
  <2>2. /\ topo' \in Topologies /\ Mirrors(topo') /\ contents' \in [Node -> SUBSET Key]
        /\ (topo' = topo /\ pc'[t] = "clean") \/ pc'[t] = "dirty"
        /\ DOMAIN pc' = Thread
    <3>1. CASE Goto(t, "clean") /\ UNCHANGED <<topo, contents>>
      BY <3>1 DEF IInv, TypeOK, PublicationInvariant, Goto
    <3>2. CASE /\ FreeNodes # {} /\ Store(NewNode, arg[t])
               /\ topo' = Insert(topo, Max(arg[t]), NewNode) /\ Goto(t, "dirty")
      <4>0. Max(arg[t]) \in Key
        <5>1. arg[t] \in SUBSET Key /\ arg[t] # {}
          BY <2>1
        <5> QED  BY <5>1, MaxInKey
      <4>1. NewNode \in Node /\ NewNode \notin Range(topo.index)
        BY <3>2, NewNodeIsFree DEF IInv
      <4>2. topo' \in Topologies /\ Mirrors(topo')
        BY <3>2, <4>0, <4>1, InsertMirrors DEF IInv, TypeOK, PublicationInvariant
      <4> QED  BY <2>1, <3>2, <4>1, <4>2 DEF IInv, TypeOK, Store, Goto
    <3> QED  BY <3>1, <3>2 DEF AttachCommit
  <2>3. SharedTypes' /\ LocalTypes' /\ OthersStay(t)
    <3>1. SharedTypes'
      BY <2>2 DEF IInv, TypeOK, SharedTypes, AttachCommit
    <3>2. res' \in [Thread -> BOOLEAN \cup {None}]
      <4>1. Fits(arg[t]) \in BOOLEAN
        BY DEF Fits
      <4> QED  BY <4>1, DecideType DEF IInv, AttachCommit
    <3>3. LocalTypes'
      BY <2>2, <3>2 DEF IInv, TypeOK, LocalTypes, AttachCommit
    <3>4. OthersStay(t)
      BY DEF IInv, TypeOK, OthersStay, AttachCommit, Goto
    <3> QED  BY <3>1, <3>3, <3>4
  <2>4. ThreadOK(t)'
    <3>1. node'[t] = None /\ op'[t] = "attach_node" /\ arg'[t] \in (SUBSET Key) \ {{}}
      BY <2>1 DEF IInv, AttachCommit
    <3> QED  BY <2>2, <3>1, NoneAssumption DEF ThreadOK, AtNode, AtEntry, Labels, Arguments, Operations
  <2>5. Guarded(t)
    <3>1. /\ pc[t] = "attach_commit" /\ pc[t] \in Publishing /\ pc[t] \in Writing
          /\ UNCHANGED <<root, odd, unmoved>>
      BY ZenonT(60) DEF AttachCommit, Publishing, Writing
    <3> QED  BY <2>2, <2>3, <3>1, Alone DEF Guarded, IInv, TypeOK, Publishing
  <2> QED  BY <2>3, <2>4, <2>5, StepType, GuardedStep DEF IInv

\* remove_range trims, re-keys and unlinks in one critical section.
<1>RangeCommitInv.
     ASSUME IInv, NEW t \in Thread, RangeCommit(t)
     PROVE  IInv'
  <2> USE <1>RangeCommitInv, Zenon
  <2>1. op[t] = "remove_range" /\ arg[t] \in Ranges /\ node[t] = None
    BY LabelOperation, ZenonT(60) DEF IInv, RangeCommit, AtNode
  <2>2. /\ pc[t] = "range_commit" /\ Decide(t, TRUE)
        /\ UNCHANGED <<root, odd, unmoved, op, arg, node, key, retries>>
    BY ZenonT(60) DEF RangeCommit
  <2>3. SharedTypes' /\ LocalTypes' /\ OthersStay(t)
    <3>1. SharedTypes'
      BY <2>2, RangeCommitTopology DEF IInv, TypeOK, SharedTypes
    <3>2. LocalTypes'
      BY <2>2, RangeCommitTopology DEF IInv, TypeOK, LocalTypes, Decide
    <3>3. OthersStay(t)
      BY <2>2, RangeCommitTopology, ZenonT(60) DEF OthersStay
    <3> QED  BY <3>1, <3>2, <3>3
  <2>4. ThreadOK(t)'
    <3>1. pc'[t] \in {"clean", "dirty"}
      BY RangeCommitTopology
    <3> QED  BY <2>1, <2>2, <3>1, NoneAssumption DEF ThreadOK, AtNode, AtEntry, Labels, Arguments, Operations
  <2>5. Guarded(t)
    <3>1. pc[t] \in Publishing /\ pc[t] \in Writing
      BY <2>2 DEF Publishing, Writing
    <3> QED  BY <2>2, <2>3, <3>1, RangeCommitTopology, Alone, ZenonT(60) DEF Guarded, IInv, TypeOK, Publishing
  <2> QED  BY <2>3, <2>4, <2>5, StepType, GuardedStep DEF IInv

\* Operation::commit re-keys a node: the last one without publication, any other
\* after enabling it.
<1>UpdateMaxInv.
     ASSUME IInv, NEW t \in Thread, UpdateMax(t)
     PROVE  IInv'
  <2> USE <1>UpdateMaxInv, Zenon
  <2> DEFINE n == node[t]
             max == Max(contents[n])
  <2>1. op[t] \in {"insert", "remove"} /\ arg[t] \in Key /\ n \in Node /\ key[t] \in Key
    BY LabelOperation, ZenonT(60) DEF IInv, UpdateMax, AtNode, AtEntry
  <2>2. /\ pc[t] = "rekey_commit" /\ Forget(t) /\ root = topo.routes /\ odd = FALSE
        /\ UNCHANGED <<root, contents, op, arg, retries, res>>
        /\ \A u \in Thread \ {t} : pc[u] \notin Writing \cup Reading
    <3>1. pc[t] = "rekey_commit" /\ pc[t] \in Writing
      BY ZenonT(60) DEF UpdateMax, Writing
    <3> QED  BY <3>1, Alone, ZenonT(60) DEF UpdateMax, IInv, TypeOK
  <2>3. NeedsRekey(t) => max \in Key
    BY <2>1, MaxInKey DEF NeedsRekey, IInv, TypeOK
  <2>4. CASE /\ (UNCHANGED topo \/ (/\ NeedsRekey(t) /\ CanRekeyLastNode(topo, root, n, max)
                                    /\ topo' = RekeyLastNode(topo, key[t], max, n)))
             /\ Goto(t, "done") /\ UNCHANGED <<odd, unmoved>>
    <3>1. topo' \in Topologies /\ Mirrors(topo') /\ topo'.routes = topo.routes
      <4>1. CASE UNCHANGED topo
        BY <4>1 DEF IInv, TypeOK, PublicationInvariant
      <4>2. CASE /\ NeedsRekey(t) /\ CanRekeyLastNode(topo, root, n, max)
                 /\ topo' = RekeyLastNode(topo, key[t], max, n)
        <5> HIDE DEF max
        <5> QED  BY <2>1, <2>2, <2>3, <4>2, RekeyLastNodeMirrors, ZenonT(90)
                 DEF IInv, TypeOK, PublicationInvariant, NeedsRekey, EntryIsCurrent
      <4> QED  BY <2>4, <4>1, <4>2
    <3>2. pc'[t] = "done" /\ DOMAIN pc' = Thread /\ \A u \in Thread \ {t} : pc'[u] = pc[u]
      BY <2>4, GotoType, ZenonT(60) DEF IInv
    <3>3. SharedTypes' /\ LocalTypes' /\ OthersStay(t)
      BY <2>2, <2>4, <3>1, <3>2, ForgetType, ZenonT(60) DEF IInv, TypeOK, SharedTypes, LocalTypes, OthersStay
    <3>4. ThreadOK(t)'
      <4>1. node'[t] = None
        BY <2>2, ForgetType DEF IInv
      <4> QED  BY <2>1, <2>2, <3>2, <4>1, NoneAssumption DEF ThreadOK, AtNode, AtEntry, Labels, Arguments, Operations
    <3>5. TypeOK'
      BY <3>3, <3>4, StepType DEF IInv
    <3>6. LockInv'
      BY <2>2, <2>4, <3>2, ZenonT(60) DEF LockInv, Writing, Reading, Publishing
    <3>7. PublicationInvariant'
      BY <2>2, <3>1 DEF PublicationInvariant
    <3>8. ReaderInv'
      <4> SUFFICES ASSUME NEW u \in unmoved', pc'[u] \in {"get_lock", "get_check"}
                   PROVE  RoutedBy(root', arg'[u], node'[u])
        BY DEF ReaderInv
      <4>1. u \in Thread \ {t} /\ u \in unmoved
        BY <2>4, <3>2, ZenonT(60) DEF IInv, TypeOK
      <4> QED  BY <2>2, <3>3, <4>1, ZenonT(60) DEF IInv, ReaderInv, OthersStay
    <3> QED  BY <3>5, <3>6, <3>7, <3>8 DEF IInv
  <2>5. CASE /\ NeedsRekey(t) /\ BumpGeneration
             /\ topo' = Insert(Remove(topo, key[t]), max, n)
             /\ Goto(t, "dirty")
    <3>1. topo' \in Topologies /\ Mirrors(topo')
      <4>1. contents[n] \in SUBSET Key /\ contents[n] # {}
        BY <2>1, <2>5 DEF IInv, TypeOK, NeedsRekey
      <4>2. topo' = Rekey(topo, key[t], n, contents[n])
        BY <2>5, <4>1 DEF Rekey
      <4>3. topo \in Topologies /\ Mirrors(topo)
        BY DEF IInv, TypeOK, PublicationInvariant
      <4>4. key[t] \in DOMAIN topo.index /\ topo.index[key[t]] = n
        BY <2>5 DEF NeedsRekey, EntryIsCurrent
      <4> QED  BY <2>1, <4>1, <4>2, <4>3, <4>4, RekeyMirrors, ZenonT(60)
    <3>2. pc'[t] = "dirty" /\ DOMAIN pc' = Thread /\ \A u \in Thread \ {t} : pc'[u] = pc[u]
      BY <2>5, GotoType DEF IInv
    <3>3. SharedTypes' /\ LocalTypes' /\ OthersStay(t)
      BY <2>2, <2>5, <3>1, <3>2, ForgetType, ZenonT(60) DEF IInv, TypeOK, SharedTypes, LocalTypes, OthersStay, BumpGeneration
    <3>4. ThreadOK(t)'
      <4>1. node'[t] = None
        BY <2>2, ForgetType DEF IInv
      <4> QED  BY <2>1, <2>2, <3>2, <4>1, NoneAssumption DEF ThreadOK, AtNode, AtEntry, Labels, Arguments, Operations
    <3>5. Guarded(t)
      BY <2>2, <2>5, <3>1, <3>2, <3>3, ZenonT(60) DEF Guarded, BumpGeneration, Publishing
    <3> QED  BY <3>3, <3>4, <3>5, StepType, GuardedStep DEF IInv
  <2> QED  BY <2>4, <2>5, ZenonT(60) DEF UpdateMax

\* The Drop of a dirty guard swaps the root while the generation is odd.
<1>SwapRootInv.
     ASSUME IInv, NEW t \in Thread, SwapRoot(t)
     PROVE  IInv'
  <2> USE <1>SwapRootInv, Zenon
  <2>1. /\ op[t] \in {"insert", "remove", "remove_range", "attach_node"}
        /\ arg[t] \in Arguments(op[t]) /\ node[t] = None
    BY LabelOperation, ZenonT(60) DEF IInv, SwapRoot, AtNode
  <2>2. /\ pc[t] = "dirty" /\ unmoved = {} /\ odd = TRUE
        /\ \A u \in Thread \ {t} : pc[u] \notin Writing \cup Reading
    <3>1. pc[t] = "dirty" /\ pc[t] \in Writing /\ pc[t] \in Publishing
      BY DEF SwapRoot, Writing, Publishing
    <3> QED  BY <3>1, Alone, ZenonT(60) DEF IInv, TypeOK
  <2>3. pc'[t] = "swapped" /\ DOMAIN pc' = Thread /\ \A u \in Thread \ {t} : pc'[u] = pc[u]
    BY GotoType, ZenonT(60) DEF IInv, SwapRoot
  <2>4. SharedTypes' /\ LocalTypes' /\ OthersStay(t)
    BY <2>3, TopologyFields, PartialFunctionType
       DEF IInv, TypeOK, SharedTypes, LocalTypes, OthersStay, SwapRoot
  <2>5. ThreadOK(t)'
    BY <2>1, <2>3, NoneAssumption DEF ThreadOK, AtNode, AtEntry, Labels, Operations, SwapRoot
  <2>6. TypeOK'
    BY <2>4, <2>5, StepType DEF IInv
  <2>7. LockInv'
    <3>1. pc'[t] \in Publishing
      BY <2>3 DEF Publishing
    <3> QED  BY <2>2, <2>3, <3>1 DEF LockInv, SwapRoot
  <2>8. PublicationInvariant' /\ ReaderInv'
    BY <2>2 DEF IInv, PublicationInvariant, ReaderInv, SwapRoot
  <2> QED  BY <2>6, <2>7, <2>8 DEF IInv

\* The Drop of a guard makes the generation even and releases the lock.
<1>ReleaseInv.
     ASSUME IInv, NEW t \in Thread, Release(t)
     PROVE  IInv'
  <2> USE <1>ReleaseInv, Zenon
  <2>1. /\ op[t] \in {"insert", "remove", "remove_range", "attach_node"}
        /\ arg[t] \in Arguments(op[t]) /\ node[t] = None
    BY LabelOperation DEF IInv, Release, AtNode
  <2>2. /\ pc[t] # "dirty" /\ odd = TRUE /\ root = topo.routes
        /\ \A u \in Thread \ {t} : pc[u] \notin Writing \cup Reading
    <3>1. pc[t] # "dirty" /\ pc[t] \in Writing /\ pc[t] \in Publishing
      BY DEF Release, Writing, Publishing
    <3> QED  BY <3>1, Alone DEF IInv, TypeOK
  <2>3. /\ pc'[t] \in {"put_read", "remove_read", "range_write", "attach_write", "done"}
        /\ pc'[t] \in Labels(op[t])
        /\ DOMAIN pc' = Thread /\ \A u \in Thread \ {t} : pc'[u] = pc[u]
    BY <2>1 DEF IInv, TypeOK, Release, Goto, FirstStep, Labels
  <2>4. SharedTypes' /\ LocalTypes' /\ OthersStay(t)
    BY <2>3 DEF IInv, TypeOK, SharedTypes, LocalTypes, OthersStay, Release, BumpGeneration
  <2>5. ThreadOK(t)'
    BY <2>1, <2>3, NoneAssumption, ZenonT(60) DEF ThreadOK, AtNode, AtEntry, Operations, Release
  <2>6. TypeOK'
    BY <2>4, <2>5, StepType DEF IInv
  <2>7. LockInv'
    BY <2>2, <2>3, ZenonT(60) DEF LockInv, Release, BumpGeneration, Writing, Reading, Publishing
  <2>8. PublicationInvariant' /\ ReaderInv'
    BY <2>2, ZenonT(60) DEF IInv, PublicationInvariant, ReaderInv, Release, BumpGeneration
  <2> QED  BY <2>6, <2>7, <2>8 DEF IInv

<1> USE Zenon
<1> SUFFICES ASSUME IInv, [Next]_vars PROVE IInv'
  OBVIOUS
<1>1. CASE UNCHANGED vars
  BY <1>1 DEF vars, shared, locals, IInv, TypeOK, ThreadOK, PublicationInvariant, LockInv, ReaderInv
<1>2. ASSUME NEW t \in Thread, Call(t) \/ Step(t) PROVE IInv'
  <2>1. CASE QuietAction(t)
    BY <2>1, QuietInv
  <2>2. CASE PutRoot(t) \/ Commit(t)
    BY <2>2, <1>PutRootInv, <1>SplitWriteInv, <1>SplitCommitInv, <1>RekeyWriteInv, <1>UpdateMaxInv DEF Commit
  <2>3. CASE RemoveWrite(t) \/ RemoveCommit(t)
    BY <2>3, <1>RemoveWriteInv, <1>RemoveCommitInv
  <2>4. CASE RemoveRange(t)
    BY <2>4, <1>RangeWriteInv, <1>RangeCommitInv DEF RemoveRange
  <2>5. CASE Attach(t)
    BY <2>5, <1>AttachWriteInv, <1>AttachCommitInv DEF Attach
  <2>6. CASE Drop(t)
    BY <2>6, <1>SwapRootInv, <1>ReleaseInv DEF Drop
  <2> QED  BY <1>2, <2>1, <2>2, <2>3, <2>4, <2>5, <2>6 DEF Step, Put, Delete, QuietAction
<1> QED  BY <1>1, <1>2 DEF Next

-----------------------------------------------------------------------------
(* What steps leave to those who walk beside them.                         *)

\* A step of one thread leaves the others' variables alone.
LEMMA StepsApart ==
  ASSUME IInv, NEW t \in Thread, Call(t) \/ Step(t)
  PROVE  OthersStay(t)
<1> USE Zenon
<1>1. CASE KeepsNodes(t)
  BY <1>1, IdleSteps DEF Idle
<1>2. CASE Commits(t)
  BY <1>2, CommitFrame
<1>3. CASE PutNode(t) \/ RemoveNode(t)
  BY <1>3, NodeStepFrame
<1> QED  BY <1>1, <1>2, <1>3, ZenonT(60)
            DEF KeepsNodes, Commits, Step, Put, Commit, Delete, RemoveRange, Attach

\* What steps do to the nodes.
LEMMA NodesChangeStep ==
  ASSUME IInv, IInv', SInv, NEW t \in Thread, Call(t) \/ Step(t)
  PROVE  NodesChange(t)
<1> USE Zenon
<1>1. /\ contents \in [Node -> SUBSET Key] /\ TypeOK /\ DOMAIN res = Thread
      /\ node[t] \in Node \cup {None} /\ \A c : LowerHalf(c) \subseteq c
  BY DEF IInv, TypeOK, LowerHalf
<1>2. CASE \A n \in Node : contents'[n] \subseteq contents[n]
  BY <1>2 DEF NodesChange
<1>3. CASE KeepsNodes(t)
  BY <1>2, <1>3, IdleSteps DEF Idle
<1>4. CASE PutNode(t)
  <2>1. op[t] = "insert" /\ node[t] \in Node /\ op' = op /\ arg' = arg /\ arg[t] \in Key
        /\ \A m \in Node \ {node[t]} : contents'[m] = contents[m]
    BY <1>1, <1>4, NodeStepFrame, LabelOperation, ZenonT(60) DEF PutNode
  <2>2. \/ contents' = contents
        \/ /\ Cardinality(contents[node[t]]) < Capacity
           /\ Decide(t, TRUE) /\ Store(node[t], contents[node[t]] \cup {arg[t]})
    BY <1>4 DEF PutNode
  <2>3. CASE /\ Cardinality(contents[node[t]]) < Capacity
             /\ Decide(t, TRUE) /\ Store(node[t], contents[node[t]] \cup {arg[t]})
    <3>1. res'[t] = TRUE /\ contents'[node[t]] = contents[node[t]] \cup {arg[t]}
      BY <1>1, <2>1, <2>3 DEF Decide, Store
    <3> QED  BY <2>1, <2>3, <3>1 DEF NodesChange
  <2> QED  BY <1>2, <2>2, <2>3
<1>5. CASE RemoveNode(t)
  <2>1. node[t] \in Node
    BY <1>5, NodeStepFrame
  <2>2. contents' = contents \/ Store(node[t], contents[node[t]] \ {arg[t]})
    BY <1>5, ZenonT(60) DEF RemoveNode
  <2> QED  BY <1>1, <1>2, <2>1, <2>2 DEF Store
<1>6. ASSUME FreeNodes # {}, NEW c, Store(NewNode, c), op[t] = "attach_node" \/ (arg[t] \in Key /\ c = {arg[t]})
      PROVE  NodesChange(t)
  <2>1. NewNode \in Node /\ \A u \in Thread : node[u] # NewNode
    BY <1>1, <1>6, NewNodeIsFree
  <2>2. contents'[NewNode] = c /\ \A n \in Node \ {NewNode} : contents'[n] = contents[n]
    BY <1>1, <1>6, <2>1 DEF Store
  <2> QED  BY <1>1, <1>6, <2>1, <2>2 DEF NodesChange
<1>7. CASE PutRoot(t)
  <2>1. arg[t] \in Key
    BY <1>1, <1>7, LabelOperation DEF PutRoot
  <2>2. contents' = contents \/ (FreeNodes # {} /\ Store(NewNode, {arg[t]}))
    BY <1>7, ZenonT(60) DEF PutRoot
  <2> QED  BY <1>2, <1>6, <2>1, <2>2
<1>8. CASE AttachCommit(t)
  <2>1. op[t] = "attach_node"
    BY <1>1, <1>8, LabelOperation DEF AttachCommit
  <2>2. contents' = contents \/ (FreeNodes # {} /\ Store(NewNode, arg[t]))
    BY <1>8, ZenonT(60) DEF AttachCommit
  <2> QED  BY <1>2, <1>6, <2>1, <2>2
<1>9. CASE SplitCommit(t)
  <2> DEFINE left == SplitLeft(t)
             right == SplitRight(t)
             c == contents[node[t]]
  <2>1. /\ node[t] \in Node /\ arg[t] \in Key /\ left \in SUBSET Key /\ right \in SUBSET Key
        /\ \/ contents' = contents
           \/ Splits(t, left, right) /\ right # {} /\ Decide(t, arg[t] \notin c)
    BY <1>9, SplitEffect, ZenonT(60)
  <2>2. op[t] = "insert" /\ op' = op /\ arg' = arg
    BY <1>1, <1>9, LabelOperation, ZenonT(60) DEF SplitCommit
  <2>3. left \subseteq LowerHalf(c) \cup {arg[t]} /\ right \subseteq (c \ LowerHalf(c)) \cup {arg[t]}
    BY DEF SplitLeft, SplitRight
  <2> HIDE DEF left, right
  <2>4. CASE Splits(t, left, right) /\ right # {} /\ Decide(t, arg[t] \notin c)
    <3>1. SplitOutcome(t, left, right)
      BY <2>1, <2>4, SplitResult
    <3>2. /\ \A w \in Thread : node[w] # NewNode
          /\ contents'[node[t]] = left /\ contents'[NewNode] = right
          /\ \A m \in Node \ {node[t], NewNode} : contents'[m] = contents[m]
      BY <3>1 DEF SplitOutcome
    <3>3. res'[t] = (arg[t] \notin c)
      BY <1>1, <2>4 DEF Decide
    <3>4. arg[t] \in c \/ res'[t] = TRUE
      BY <3>3
    <3> QED  BY <2>1, <2>2, <2>3, <3>2, <3>4 DEF NodesChange
  <2> QED  BY <1>2, <2>1, <2>4
<1>10. CASE UpdateMax(t)
  BY <1>2, <1>10, ZenonT(60) DEF UpdateMax
<1>11. CASE RemoveCommit(t)
  <2>1. \/ contents' = contents
        \/ contents'[node[t]] = {} /\ \A m \in Node \ {node[t]} : contents'[m] = contents[m]
    BY <1>11, RemoveCommitEffect, ZenonT(60)
  <2> QED  BY <1>2, <2>1
<1>12. CASE RangeCommit(t)
  <2>1. ASSUME NEW k \in DOMAIN topo.index, OneNodeOutcome(t, k), NEW n \in Node PROVE contents'[n] \subseteq contents[n]
    BY <1>1, <2>1 DEF OneNodeOutcome
  <2>2. ASSUME NEW fk \in DOMAIN topo.index, NEW bk \in DOMAIN topo.index, SeveralNodesOutcome(t, fk, bk), NEW n \in Node
        PROVE  contents'[n] \subseteq contents[n]
    <3>1. contents'[n] = (IF n = topo.index[fk] THEN Kept(t, fk)
                          ELSE IF n = topo.index[bk] THEN Trail(t, bk)
                          ELSE IF n \in {topo.index[k] : k \in Between(fk, bk)} THEN {} ELSE contents[n])
      BY <2>2 DEF SeveralNodesOutcome
    <3> QED  BY <3>1 DEF Kept, Trail
  <2> QED  BY <1>2, <1>12, <2>1, <2>2, RangeCases, ZenonT(60)
<1> QED  BY <1>3, <1>4, <1>5, <1>7, <1>8, <1>9, <1>10, <1>11, <1>12, ZenonT(60)
            DEF KeepsNodes, Step, Put, Commit, Delete, RemoveRange, Attach

\* A node that somebody keeps gains at most the value that is being inserted,
\* with the insert's outcome decided; a new node is nobody's.
LEMMA KeptNodesGrowByInserts ==
  ASSUME NEW t \in Thread, NodesChange(t)
  PROVE  GrowsByInsert(t)
<1>1. \A c : LowerHalf(c) \subseteq c
  BY Zenon DEF LowerHalf
<1> QED  BY <1>1, Zenon DEF NodesChange, GrowsByInsert

\* Nobody but the thread that holds a node changes it while others read the
\* index, and nobody changes the index.
LEMMA ReadersKeepTheIndex ==
  ASSUME IInv, NEW t \in Thread, Call(t) \/ Step(t), NEW u \in Thread \ {t}, pc[u] \in Reading
  PROVE  topo' = topo /\ \A n \in Node : contents'[n] = contents[n] \/ n = node[t]
<1> USE Zenon
<1>1. CASE KeepsNodes(t)
  BY <1>1, IdleSteps DEF Idle
<1>2. CASE Commits(t)
  BY <1>2, CommitFrame
<1>3. CASE PutNode(t) \/ RemoveNode(t)
  BY <1>3, NodeStepFrame
<1> QED  BY <1>1, <1>2, <1>3, ZenonT(60)
            DEF KeepsNodes, Commits, Step, Put, Commit, Delete, RemoveRange, Attach

\* Only the value a repair is for lies above the node's key.
LEMMA AboveStep ==
  ASSUME OneInserter, IInv, IInv', SInv, RInv, ResInv, AboveInv, NEW t \in Thread, Call(t) \/ Step(t)
  PROVE  AboveInv'
<1> USE Zenon
<1>1. OthersStay(t) /\ (\A u \in Thread \ {t} : res'[u] = res[u]) /\ TypeOK /\ DOMAIN res = Thread /\ DOMAIN pc = Thread
  BY StepsApart, OutcomeStep, ZenonT(60) DEF IInv, TypeOK
<1> SUFFICES ASSUME NEW u \in Thread, op'[u] = "insert", Repairing(u)'
             PROVE  res'[u] = TRUE /\ \A v \in contents'[node'[u]] : v > key'[u] => v = arg'[u]
  BY DEF AboveInv, OwnAbove
<1>2. CASE u # t
  <2>1. /\ op[u] = "insert" /\ Repairing(u) /\ node'[u] = node[u] /\ key'[u] = key[u]
        /\ arg'[u] = arg[u] /\ res'[u] = res[u]
    BY <1>1, <1>2 DEF OthersStay, Repairing
  <2>2. node[u] \in Node
    BY <1>1, <2>1, LabelOperation DEF Repairing, AtNode
  <2>3. op[t] # "insert"
    BY <1>2, <2>1, SplitterInserts DEF OneInserter
  <2>4. contents'[node[u]] \subseteq contents[node[u]]
    BY <2>2, <2>3, NodesChangeStep, KeptNodesGrowByInserts DEF GrowsByInsert
  <2> QED  BY <2>1, <2>4 DEF AboveInv, OwnAbove
<1>3. CASE u = t /\ PutNode(t)
  <2>1. /\ op[t] = "insert" /\ arg' = arg /\ node[t] \in Node /\ ~Repairing(t) /\ pc[t] \in Held
        /\ contents \in [Node -> SUBSET Key] /\ RepairsNext(t, node[t], key[t])
    BY <1>1, <1>3, NodeStepFrame, LabelOperation, ZenonT(60) DEF PutNode, Repairing, IInv, TypeOK
  <2>2. Decide(t, TRUE) /\ Store(node[t], contents[node[t]] \cup {arg[t]})
    <3>1. pc'[t] \notin {"split_write", "done"}
      BY <1>3 DEF Repairing
    <3> QED  BY <1>1, <1>3, <3>1, ZenonT(60) DEF PutNode, Goto
  <2>3. \A v \in contents[node[t]] : v <= key[t] /\ v \in Key
    <3>1. key[t] \in DOMAIN topo.index /\ topo.index[key[t]] = node[t]
      BY <2>1 DEF SInv, HeldInv, EntryIsCurrent
    <3>2. NoneAbove
      BY <2>1, SplitterInserts, InserterElsewhere
    <3> QED  BY <2>1, <3>1, <3>2 DEF NoneAbove
  <2>4. key[t] \in Int
    BY <1>3, NodeStepFrame, KeysAreIntegers
  <2>5. \A v \in contents[node[t]] : ~(v > key[t])
    BY <2>3, <2>4, KeysAreIntegers, SMT
  <2>6. res'[t] = TRUE /\ node'[t] = node[t] /\ key'[t] = key[t] /\ contents'[node[t]] = contents[node[t]] \cup {arg[t]}
    BY <1>1, <2>1, <2>2 DEF Decide, Store, RepairsNext
  <2> QED  BY <1>3, <2>1, <2>5, <2>6
<1>4. CASE u = t /\ RekeyWrite(t)
  <2>1. Repairing(t) /\ op[t] = "insert" /\ UNCHANGED <<contents, node, key, arg, res>>
    BY <1>4 DEF RekeyWrite, Repairing, shared
  <2> QED  BY <1>4, <2>1 DEF AboveInv, OwnAbove
<1>5. ~(Call(t) \/ Return(t) \/ PutRead(t) \/ PutRoot(t) \/ SplitWrite(t) \/ SwapRoot(t)) \/ u # t
  <2>1. CASE Call(t)
    BY <1>1, <2>1 DEF Call, Goto, FirstStep, Operations, Repairing
  <2>2. CASE Return(t) \/ PutRead(t) \/ PutRoot(t) \/ SplitWrite(t) \/ SwapRoot(t)
    BY <1>1, <2>2 DEF Return, PutRead, PutRoot, SplitWrite, SwapRoot, Goto, Repairing
  <2> QED  BY <2>1, <2>2
<1>6. ~(SplitCommit(t) \/ UpdateMax(t) \/ Release(t)) \/ u # t
  <2>1. CASE SplitCommit(t)
    BY <1>1, <2>1, ZenonT(60) DEF SplitCommit, Goto, Repairing
  <2>2. CASE UpdateMax(t)
    BY <1>1, <2>2, ZenonT(60) DEF UpdateMax, Goto, Repairing
  <2>3. CASE Release(t)
    <3>1. FirstStep(op[t]) \in {"put_read", "remove_read", "range_write", "attach_write"}
      BY <1>1, <2>3, LabelOperation DEF Release, FirstStep
    <3> QED  BY <1>1, <2>3, <3>1, ZenonT(60) DEF Release, Goto, Repairing
  <2> QED  BY <2>1, <2>2, <2>3
<1>7. ~(Delete(t) \/ RemoveRange(t) \/ Attach(t)) \/ u # t
  <2>1. Delete(t) => op' = op /\ op[t] # "insert"
    BY <1>1, LabelOperation, ZenonT(60) DEF Delete, RemoveRead, RemoveNode, RemoveWrite, RemoveCommit
  <2>2. RemoveRange(t) \/ Attach(t) => op' = op /\ op[t] # "insert"
    BY <1>1, LabelOperation, ZenonT(60) DEF RemoveRange, RangeWrite, RangeCommit, Attach, AttachWrite, AttachCommit
  <2> QED  BY <2>1, <2>2
<1>8. ~(Get(t) \/ SelectOptimistic(t)) \/ u # t
  <2>1. Get(t) => op' = op /\ op[t] # "insert"
    <3>1. CASE GetFallback(t)
      BY <1>1, <3>1, LabelOperation, ZenonT(60) DEF GetFallback
    <3>2. CASE Get(t) /\ ~GetFallback(t)
      BY <1>1, <3>2, LabelOperation, ZenonT(60) DEF Get, GetGeneration, GetRoot, GetLock, GetCheck, DropRef
    <3> QED  BY <3>1, <3>2
  <2>2. SelectOptimistic(t) => op' = op /\ op[t] # "insert"
    BY <1>1, LabelOperation, ZenonT(60) DEF SelectOptimistic, SelectRead, SelectNode
  <2> QED  BY <2>1, <2>2
<1> QED  BY <1>2, <1>3, <1>4, <1>5, <1>6, <1>7, <1>8, ZenonT(60) DEF Step, Put, Commit, Drop

=============================================================================
