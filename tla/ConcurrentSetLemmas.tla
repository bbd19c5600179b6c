------------------------ MODULE ConcurrentSetLemmas -------------------------
(***************************************************************************)
(* Lemmas about the concurrent set for any number of keys, nodes and       *)
(* threads and any node capacity: what the mutations of TopologyWriteGuard *)
(* preserve, the inductive invariants behind the theorems, and what each   *)
(* step does to the index and the nodes.                                   *)
(***************************************************************************)
EXTENDS ConcurrentInvariants, TLAPS

-----------------------------------------------------------------------------
(* Maxima and partial functions.                                           *)

\* A non-empty set of keys has a maximum, so node.max() is an element.
LEMMA MaxIsGreatest ==
  ASSUME KeySetsCount, NEW S \in SUBSET Key, S # {}
  PROVE  Max(S) \in S /\ \A y \in S : y <= Max(S)
<1> USE Zenon
<1>1. PICK x \in S : \A y \in S : y <= x
  BY DEF KeySetsCount
<1>2. \E m \in S : \A y \in S : m >= y
  BY <1>1, MaxKeyAssumption DEF Key
<1> QED  BY <1>2, MaxKeyAssumption DEF Max, Key

\* A non-empty ordered map has a last entry (last_key_value).
LEMMA LastKeyIsLast ==
  ASSUME KeySetsCount, NEW f, DOMAIN f \subseteq Key, DOMAIN f # {}
  PROVE  IsLast(f, LastKey(f))
<1> USE Zenon
<1>1. \E k \in DOMAIN f : \A j \in DOMAIN f : j <= k
  BY MaxIsGreatest
<1> QED  BY <1>1 DEF LastKey, IsLast

\* Membership in a set of ordered maps, by domain and range.
LEMMA PartialFunctionType ==
  ASSUME NEW S, NEW R, NEW f
  PROVE  f \in PartialFunctions(S, R) <=> DOMAIN f \subseteq S /\ f \in [DOMAIN f -> R]
BY Zenon DEF PartialFunctions

\* The same for a record of three ordered maps.
LEMMA TopologyType ==
  ASSUME NEW f, NEW r, NEW g
  PROVE  [index |-> f, routes |-> r, keys |-> g] \in Topologies <=>
           /\ DOMAIN f \subseteq Key /\ f \in [DOMAIN f -> Node]
           /\ DOMAIN r \subseteq Key /\ r \in [DOMAIN r -> Node]
           /\ DOMAIN g \subseteq Node /\ g \in [DOMAIN g -> Key]
BY PartialFunctionType, Zenon DEF Topologies

\* A topology is the record of its three maps.
LEMMA TopologyFields ==
  ASSUME NEW T \in Topologies
  PROVE  /\ T = [index |-> T.index, routes |-> T.routes, keys |-> T.keys]
         /\ DOMAIN T.index \subseteq Key /\ T.index \in [DOMAIN T.index -> Node]
         /\ DOMAIN T.routes \subseteq Key /\ T.routes \in [DOMAIN T.routes -> Node]
         /\ DOMAIN T.keys \subseteq Node /\ T.keys \in [DOMAIN T.keys -> Key]
BY PartialFunctionType, Zenon DEF Topologies

-----------------------------------------------------------------------------
(* Types and operations.                                                   *)

\* The operation a label belongs to.
LEMMA LabelOperation ==
  ASSUME TypeOK, NEW t \in Thread
  PROVE  /\ pc[t] \in {"put_read", "put_root", "put_node", "split_write", "split_commit"}
              => op[t] = "insert" /\ arg[t] \in Key
         /\ pc[t] \in {"remove_read", "remove_node", "remove_write", "remove_commit"}
              => op[t] = "remove" /\ arg[t] \in Key
         /\ pc[t] \in {"rekey_write", "rekey_commit"}
              => op[t] \in {"insert", "remove"} /\ arg[t] \in Key
         /\ pc[t] \in {"get_gen", "get_root", "get_lock", "get_check"}
              => op[t] \in {"contains", "get"} /\ arg[t] \in Key
         /\ pc[t] = "ref" => op[t] = "get" /\ arg[t] \in Key
         /\ pc[t] \in {"select_read", "select_node"} => op[t] = "select_optimistic" /\ arg[t] \in Key
         /\ pc[t] \in {"range_write", "range_commit"} => op[t] = "remove_range" /\ arg[t] \in Ranges
         /\ pc[t] \in {"attach_write", "attach_commit"}
              => op[t] = "attach_node" /\ arg[t] \in (SUBSET Key) \ {{}}
         /\ pc[t] \in {"dirty", "swapped", "clean"}
              => op[t] \in {"insert", "remove", "remove_range", "attach_node"}
         /\ pc[t] \in AtNode \ {"get_check"} => node[t] \in Node
         /\ pc[t] \in AtEntry => key[t] \in Key
         /\ pc[t] \notin AtNode \cup {"idle", "walk"} => node[t] = None
         /\ pc[t] \notin {"idle", "walk"} => op[t] \in Operations /\ arg[t] \in Arguments(op[t])
<1> USE Zenon
<1>1. ThreadOK(t) /\ op[t] \in Operations \cup {None} /\ node[t] \in Node \cup {None}
      /\ key[t] \in Key \cup {None}
  BY DEF TypeOK
<1>2. CASE op[t] = None
  BY <1>1, <1>2, NoneAssumption DEF ThreadOK, AtNode, AtEntry
<1>3. CASE op[t] = "insert"
  BY <1>1, <1>3, NoneAssumption DEF ThreadOK, AtNode, AtEntry, Labels, Arguments, Operations
<1>4. CASE op[t] = "remove"
  BY <1>1, <1>4, NoneAssumption DEF ThreadOK, AtNode, AtEntry, Labels, Arguments, Operations
<1>5. CASE op[t] = "contains"
  BY <1>1, <1>5, NoneAssumption DEF ThreadOK, AtNode, AtEntry, Labels, Arguments, Operations
<1>6. CASE op[t] = "get"
  BY <1>1, <1>6, NoneAssumption DEF ThreadOK, AtNode, AtEntry, Labels, Arguments, Operations
<1>7. CASE op[t] = "select_optimistic"
  BY <1>1, <1>7, NoneAssumption DEF ThreadOK, AtNode, AtEntry, Labels, Arguments, Operations
<1>8. CASE op[t] = "remove_range"
  BY <1>1, <1>8, NoneAssumption DEF ThreadOK, AtNode, AtEntry, Labels, Arguments, Operations
<1>9. CASE op[t] = "attach_node"
  BY <1>1, <1>9, NoneAssumption DEF ThreadOK, AtNode, AtEntry, Labels, Arguments, Operations
<1> QED  BY <1>1, <1>2, <1>3, <1>4, <1>5, <1>6, <1>7, <1>8, <1>9, ZenonT(60) DEF Operations

\* What the building blocks of the actions do to the thread's variables.
LEMMA SelectType ==
  ASSUME TypeOK, NEW t \in Thread, NEW f \in PartialFunctions(Key, Node), NEW v, Select(t, f, v)
  PROVE  /\ node' \in [Thread -> Node \cup {None}] /\ key' \in [Thread -> Key \cup {None}]
         /\ \A u \in Thread \ {t} : node'[u] = node[u] /\ key'[u] = key[u]
         /\ DOMAIN f = {} => node'[t] = None
         /\ DOMAIN f # {} => node'[t] # None /\ key'[t] # None
         /\ RoutedBy(f, v, node'[t])
         /\ DOMAIN f # {} => key'[t] \in DOMAIN f /\ f[key'[t]] = node'[t]
<1> USE Zenon
<1>1. DOMAIN f \subseteq Key /\ f \in [DOMAIN f -> Node]
  BY PartialFunctionType
<1>2. CASE DOMAIN f = {}
  BY <1>2, ZenonT(60) DEF Select, Forget, Hold, TypeOK, RoutedBy
<1>3. CASE DOMAIN f # {}
  <2>1. PICK k \in DOMAIN f : Covers(f, v, k) /\ Hold(t, f[k], k)
    BY <1>3 DEF Select
  <2>2. f[k] \in Node /\ k \in Key /\ f[k] # None /\ k # None
    BY <1>1, NoneAssumption
  <2>3. node'[t] = f[k] /\ key'[t] = k
    BY <2>1 DEF Hold, TypeOK
  <2>4. /\ node' \in [Thread -> Node \cup {None}] /\ key' \in [Thread -> Key \cup {None}]
        /\ \A u \in Thread \ {t} : node'[u] = node[u] /\ key'[u] = key[u]
    BY <2>1, <2>2 DEF Hold, TypeOK
  <2> QED  BY <1>3, <2>1, <2>2, <2>3, <2>4 DEF RoutedBy
<1> QED  BY <1>2, <1>3

-----------------------------------------------------------------------------
(* Steps that leave the index alone.                                       *)

\* The per-thread variables are functions of the right type.
LocalTypes ==
  /\ DOMAIN pc = Thread /\ DOMAIN arg = Thread
  /\ op \in [Thread -> Operations \cup {None}]
  /\ node \in [Thread -> Node \cup {None}] /\ key \in [Thread -> Key \cup {None}]
  /\ retries \in [Thread -> 0 .. FallbackAfter]
  /\ res \in [Thread -> BOOLEAN \cup {None}]

SharedTypes ==
  /\ topo \in Topologies
  /\ root \in PartialFunctions(Key, Node)
  /\ odd \in BOOLEAN /\ unmoved \in SUBSET Thread
  /\ contents \in [Node -> SUBSET Key]

\* A step that neither holds nor takes the structural write lock.
Quiet(t) ==
  /\ OthersStay(t)
  /\ topo' = topo /\ root' = root /\ odd' = odd
  /\ pc[t] \notin Writing /\ pc'[t] \notin Writing
  /\ pc'[t] \in Reading => CanReadTopology
  /\ unmoved' \subseteq unmoved \cup {t}
  /\ odd => unmoved' \subseteq unmoved
  /\ t \in unmoved' /\ pc'[t] \in {"get_lock", "get_check"} => RoutedBy(root', arg'[t], node'[t])

\* What remains to be shown of a step for TypeOK concerns the stepping thread.
LEMMA StepType ==
  ASSUME TypeOK, NEW t \in Thread, SharedTypes', LocalTypes', OthersStay(t), ThreadOK(t)'
  PROVE  TypeOK'
<1>1. \A u \in Thread \ {t} : ThreadOK(u)'
  BY DEF TypeOK, ThreadOK, OthersStay
<1> QED  BY <1>1, Zenon DEF TypeOK, SharedTypes, LocalTypes

\* Dropping the node and key a thread works with.
LEMMA ForgetType ==
  ASSUME TypeOK, NEW t \in Thread, Forget(t)
  PROVE  /\ node' \in [Thread -> Node \cup {None}] /\ key' \in [Thread -> Key \cup {None}]
         /\ \A u \in Thread \ {t} : node'[u] = node[u] /\ key'[u] = key[u]
         /\ node'[t] = None
BY Zenon DEF TypeOK, Forget, Hold

\* Recording an outcome.
LEMMA DecideType ==
  ASSUME TypeOK, NEW t \in Thread, NEW r \in BOOLEAN \cup {None}, Decide(t, r)
  PROVE  res' \in [Thread -> BOOLEAN \cup {None}]
BY Zenon DEF TypeOK, Decide

\* Moving to a label.
LEMMA GotoType ==
  ASSUME TypeOK, NEW t \in Thread, NEW l, Goto(t, l)
  PROVE  DOMAIN pc' = Thread /\ pc'[t] = l /\ \A u \in Thread \ {t} : pc'[u] = pc[u]
BY Zenon DEF TypeOK, Goto

\* Quiet steps preserve the invariant: index, root and generation parity stay.
LEMMA QuietStep ==
  ASSUME IInv, TypeOK', NEW t \in Thread, Quiet(t)
  PROVE  IInv'
<1> USE Zenon
<1>1. PublicationInvariant'
  <2>1. Mirrors(topo')
    BY DEF IInv, PublicationInvariant, Quiet
  <2>2. ASSUME \A u \in Thread : pc'[u] # "dirty" PROVE root' = topo'.routes
    BY <2>2 DEF IInv, PublicationInvariant, Quiet, OthersStay, Writing, Publishing
  <2> QED  BY <2>1, <2>2 DEF PublicationInvariant
<1>2. LockInv'
  <2>1. \A u \in Thread : pc'[u] \in Writing => u # t /\ pc'[u] = pc[u]
    BY DEF Quiet, OthersStay
  <2>2. pc'[t] \in Reading => \A u \in Thread : pc[u] \notin Writing
    BY DEF Quiet, CanReadTopology, TopologyWriters, Writing
  <2>3. \A w, u \in Thread : w # u /\ pc'[w] \in Writing => pc'[u] \notin Writing \cup Reading
    BY <2>1, <2>2 DEF IInv, LockInv, Quiet, OthersStay
  <2>4. odd' <=> \E u \in Thread : pc'[u] \in Publishing
    BY DEF IInv, LockInv, Quiet, OthersStay, Writing
  <2>5. odd' => unmoved' = {}
    BY DEF IInv, LockInv, Quiet
  <2> QED  BY <2>3, <2>4, <2>5 DEF LockInv
<1>3. ReaderInv'
  <2> SUFFICES ASSUME NEW u \in unmoved', pc'[u] \in {"get_lock", "get_check"}
               PROVE  RoutedBy(root', arg'[u], node'[u])
    BY DEF ReaderInv
  <2>1. CASE u = t
    BY <2>1 DEF Quiet
  <2>2. CASE u # t
    <3>1. u \in unmoved /\ u \in Thread \ {t}
      BY <2>2 DEF Quiet, IInv, TypeOK
    <3>2. pc'[u] = pc[u] /\ arg'[u] = arg[u] /\ node'[u] = node[u] /\ root' = root
      BY <3>1 DEF Quiet, OthersStay
    <3> QED  BY <3>1, <3>2 DEF IInv, ReaderInv
  <2> QED  BY <2>1, <2>2
<1> QED  BY <1>1, <1>2, <1>3 DEF IInv

\* The steps that leave the index and its guards alone.
QuietAction(t) ==
  \/ Call(t) \/ Return(t) \/ PutRead(t) \/ PutNode(t) \/ RemoveRead(t) \/ RemoveNode(t)
  \/ Get(t) \/ SelectOptimistic(t)

\* They preserve the invariant, one case per action.
LEMMA QuietInv == \A t \in Thread : IInv /\ QuietAction(t) => IInv'
\* put_checked_inner routes under the structural read guard.
<1>PutReadInv.
     ASSUME IInv, NEW t \in Thread, PutRead(t)
     PROVE  IInv'
  <2> USE <1>PutReadInv, Zenon
  <2>1. op[t] = "insert" /\ arg[t] \in Key
    BY LabelOperation DEF IInv, PutRead, AtNode, AtEntry
  <2>2. SharedTypes' /\ LocalTypes' /\ OthersStay(t)
    BY <2>1, TopologyFields, PartialFunctionType, SMTT(60) DEF IInv, TypeOK, SharedTypes, LocalTypes, OthersStay, shared, FallbackAfter,
       PutRead, Select, Hold, Forget, Goto
  <2>3. ThreadOK(t)'
    BY <2>1, TopologyFields, PartialFunctionType, NoneAssumption, SMT DEF IInv, TypeOK, ThreadOK, AtNode, AtEntry, Labels, Arguments,
       FallbackAfter, PutRead, Select, Hold, Forget, Goto
  <2>4. Quiet(t)
    BY <2>2 DEF Quiet, Writing, Publishing, Reading, IInv, TypeOK, shared, PutRead, Goto
  <2> QED  BY <2>2, <2>3, <2>4, StepType, QuietStep DEF IInv

\* remove_inner routes under the structural read guard.
<1>RemoveReadInv.
     ASSUME IInv, NEW t \in Thread, RemoveRead(t)
     PROVE  IInv'
  <2> USE <1>RemoveReadInv, Zenon
  <2>1. op[t] = "remove" /\ arg[t] \in Key
    BY LabelOperation DEF IInv, RemoveRead, AtNode, AtEntry
  <2>2. SharedTypes' /\ LocalTypes' /\ OthersStay(t)
    <3>1. SharedTypes'
      BY <2>1 DEF IInv, TypeOK, SharedTypes, shared, RemoveRead, Select, Hold, Forget, Goto, Decide
    <3>2. node' \in [Thread -> Node \cup {None}] /\ key' \in [Thread -> Key \cup {None}]
      BY <2>1, TopologyFields, PartialFunctionType, SMTT(60) DEF IInv, TypeOK, RemoveRead, Select, Hold, Forget, Goto, Decide
    <3>3. DOMAIN pc' = Thread /\ res' \in [Thread -> BOOLEAN \cup {None}]
      BY <2>1, ZenonT(60) DEF IInv, TypeOK, RemoveRead, Select, Hold, Forget, Goto, Decide
    <3>4. retries' \in [Thread -> 0 .. FallbackAfter] /\ op' = op /\ arg' = arg
      BY <2>1 DEF IInv, TypeOK, FallbackAfter, RemoveRead, Select, Hold, Forget, Goto, Decide
    <3>5. OthersStay(t)
      BY DEF IInv, TypeOK, OthersStay, RemoveRead, Select, Hold, Forget, Goto, Decide
    <3> QED  BY <3>1, <3>2, <3>3, <3>4, <3>5 DEF IInv, TypeOK, LocalTypes
  <2>3. ThreadOK(t)'
    BY <2>1, TopologyFields, PartialFunctionType, NoneAssumption, SMTT(60) DEF IInv, TypeOK, ThreadOK, AtNode, AtEntry, Labels, Arguments,
       FallbackAfter, RemoveRead, Select, Hold, Forget, Goto, Decide
  <2>4. Quiet(t)
    BY <2>2, ZenonT(60) DEF Quiet, Writing, Publishing, Reading, IInv, TypeOK, shared, RemoveRead, Goto
  <2> QED  BY <2>2, <2>3, <2>4, StepType, QuietStep DEF IInv

\* lock_node_for_value_optimistic routes and drops the structural guard.
<1>SelectReadInv.
     ASSUME IInv, NEW t \in Thread, SelectRead(t)
     PROVE  IInv'
  <2> USE <1>SelectReadInv, Zenon
  <2>1. op[t] = "select_optimistic" /\ arg[t] \in Key
    BY LabelOperation DEF IInv, SelectRead, AtNode, AtEntry
  <2>2. SharedTypes' /\ LocalTypes' /\ OthersStay(t)
    <3>1. SharedTypes'
      BY <2>1 DEF IInv, TypeOK, SharedTypes, shared, SelectRead, Select, Hold, Forget, Goto, Decide
    <3>2. node' \in [Thread -> Node \cup {None}] /\ key' \in [Thread -> Key \cup {None}]
      BY <2>1, TopologyFields, PartialFunctionType, SMTT(60) DEF IInv, TypeOK, SelectRead, Select, Hold, Forget, Goto, Decide
    <3>3. DOMAIN pc' = Thread /\ res' \in [Thread -> BOOLEAN \cup {None}]
      BY <2>1, ZenonT(60) DEF IInv, TypeOK, SelectRead, Select, Hold, Forget, Goto, Decide
    <3>4. retries' \in [Thread -> 0 .. FallbackAfter] /\ op' = op /\ arg' = arg
      BY <2>1 DEF IInv, TypeOK, FallbackAfter, SelectRead, Select, Hold, Forget, Goto, Decide
    <3>5. OthersStay(t)
      BY DEF IInv, TypeOK, OthersStay, SelectRead, Select, Hold, Forget, Goto, Decide
    <3> QED  BY <3>1, <3>2, <3>3, <3>4, <3>5 DEF IInv, TypeOK, LocalTypes
  <2>3. ThreadOK(t)'
    BY <2>1, TopologyFields, PartialFunctionType, NoneAssumption, SMTT(60) DEF IInv, TypeOK, ThreadOK, AtNode, AtEntry, Labels, Arguments,
       FallbackAfter, SelectRead, Select, Hold, Forget, Goto, Decide
  <2>4. Quiet(t)
    BY <2>2, ZenonT(60) DEF Quiet, Writing, Publishing, Reading, IInv, TypeOK, shared, SelectRead, Goto
  <2> QED  BY <2>2, <2>3, <2>4, StepType, QuietStep DEF IInv

\* get_with_optimistic reads the node it routed to.
<1>SelectNodeInv.
     ASSUME IInv, NEW t \in Thread, SelectNode(t)
     PROVE  IInv'
  <2> USE <1>SelectNodeInv, Zenon
  <2>1. op[t] = "select_optimistic" /\ arg[t] \in Key
    BY LabelOperation DEF IInv, SelectNode, AtNode, AtEntry
  <2>2. SharedTypes' /\ LocalTypes' /\ OthersStay(t)
    BY <2>1, SMT DEF IInv, TypeOK, SharedTypes, LocalTypes, OthersStay, shared, FallbackAfter,
       SelectNode, Decide, Hold, Forget, Goto
  <2>3. ThreadOK(t)'
    BY <2>1, NoneAssumption DEF IInv, TypeOK, ThreadOK, AtNode, AtEntry, Labels, Arguments,
       FallbackAfter, SelectNode, Decide, Hold, Forget, Goto
  <2>4. Quiet(t)
    BY <2>2 DEF Quiet, Writing, Publishing, Reading, IInv, TypeOK, shared, SelectNode, Goto
  <2> QED  BY <2>2, <2>3, <2>4, StepType, QuietStep DEF IInv

\* A Ref is dropped.
<1>DropRefInv.
     ASSUME IInv, NEW t \in Thread, DropRef(t)
     PROVE  IInv'
  <2> USE <1>DropRefInv, Zenon
  <2>1. op[t] = "get" /\ arg[t] \in Key
    BY LabelOperation DEF IInv, DropRef, AtNode, AtEntry
  <2>2. SharedTypes' /\ LocalTypes' /\ OthersStay(t)
    BY <2>1 DEF IInv, TypeOK, SharedTypes, LocalTypes, OthersStay, shared, FallbackAfter,
       DropRef, Hold, Forget, Goto
  <2>3. ThreadOK(t)'
    BY <2>1, NoneAssumption DEF IInv, TypeOK, ThreadOK, AtNode, AtEntry, Labels, Arguments,
       FallbackAfter, DropRef, Hold, Forget, Goto
  <2>4. Quiet(t)
    BY <2>2 DEF Quiet, Writing, Publishing, Reading, IInv, TypeOK, shared, DropRef, Goto
  <2> QED  BY <2>2, <2>3, <2>4, StepType, QuietStep DEF IInv

\* get_with routes in the published root: its route is the one ReaderInv keeps.
<1>GetRootInv.
     ASSUME IInv, NEW t \in Thread, GetRoot(t)
     PROVE  IInv'
  <2> USE <1>GetRootInv, Zenon
  <2>1. op[t] \in {"contains", "get"} /\ arg[t] \in Key
    BY LabelOperation DEF IInv, GetRoot, AtNode, AtEntry
  <2>0. RoutedBy(root, arg[t], node'[t])
    BY SelectType DEF IInv, TypeOK, GetRoot
  <2>2. SharedTypes' /\ LocalTypes' /\ OthersStay(t)
    BY <2>1, TopologyFields, PartialFunctionType, SMTT(60) DEF IInv, TypeOK, SharedTypes, LocalTypes, OthersStay, shared, FallbackAfter,
       GetRoot, Select, Hold, Forget, Goto
  <2>3. ThreadOK(t)'
    BY <2>1, TopologyFields, PartialFunctionType, NoneAssumption, SMTT(60) DEF IInv, TypeOK, ThreadOK, AtNode, AtEntry, Labels, Arguments,
       FallbackAfter, GetRoot, Select, Hold, Forget, Goto
  <2>4. Quiet(t)
    BY <2>2, <2>0 DEF Quiet, Writing, Publishing, Reading, IInv, TypeOK, shared, GetRoot, Select, Hold, Forget, Goto
  <2> QED  BY <2>2, <2>3, <2>4, StepType, QuietStep DEF IInv

\* get_with locks the node it routed to.
<1>GetLockInv.
     ASSUME IInv, NEW t \in Thread, GetLock(t)
     PROVE  IInv'
  <2> USE <1>GetLockInv, Zenon
  <2>1. op[t] \in {"contains", "get"} /\ arg[t] \in Key /\ node[t] \in Node
    BY LabelOperation DEF IInv, GetLock, AtNode, AtEntry
  <2>2. SharedTypes' /\ LocalTypes' /\ OthersStay(t)
    BY <2>1 DEF IInv, TypeOK, SharedTypes, LocalTypes, OthersStay, shared, FallbackAfter,
       GetLock, Goto
  <2>3. ThreadOK(t)'
    BY <2>1, NoneAssumption DEF IInv, TypeOK, ThreadOK, AtNode, AtEntry, Labels, Arguments,
       FallbackAfter, GetLock, Goto
  <2>4. Quiet(t)
    BY <2>2 DEF Quiet, Writing, Publishing, Reading, IInv, TypeOK, shared, GetLock, Goto, ReaderInv
  <2> QED  BY <2>2, <2>3, <2>4, StepType, QuietStep DEF IInv

\* get_with loads an even generation or retries.
<1>GetGenerationInv.
     ASSUME IInv, NEW t \in Thread, GetGeneration(t)
     PROVE  IInv'
  <2> USE <1>GetGenerationInv, Zenon
  <2>1. op[t] \in {"contains", "get"} /\ arg[t] \in Key /\ node[t] = None
    BY LabelOperation DEF IInv, GetGeneration, AtNode, AtEntry
  <2>2. SharedTypes' /\ LocalTypes' /\ OthersStay(t)
    <3>1. SharedTypes'
      BY <2>1 DEF IInv, TypeOK, SharedTypes, shared, GetGeneration, Retry, Hold, Forget, Goto
    <3>2. node' \in [Thread -> Node \cup {None}] /\ key' \in [Thread -> Key \cup {None}]
      BY <2>1 DEF IInv, TypeOK, GetGeneration, Retry, Hold, Forget, Goto
    <3>3. DOMAIN pc' = Thread /\ res' \in [Thread -> BOOLEAN \cup {None}]
      BY <2>1 DEF IInv, TypeOK, GetGeneration, Retry, Hold, Forget, Goto
    <3>4. retries' \in [Thread -> 0 .. FallbackAfter] /\ op' = op /\ arg' = arg
      BY <2>1, SMTT(60) DEF IInv, TypeOK, FallbackAfter, GetGeneration, Retry, Hold, Forget, Goto
    <3>5. OthersStay(t)
      BY DEF IInv, TypeOK, OthersStay, GetGeneration, Retry, Hold, Forget, Goto
    <3> QED  BY <3>1, <3>2, <3>3, <3>4, <3>5 DEF IInv, TypeOK, LocalTypes
  <2>3. ThreadOK(t)'
    BY <2>1, NoneAssumption, SMTT(60) DEF IInv, TypeOK, ThreadOK, AtNode, AtEntry, Labels, Arguments,
       FallbackAfter, GetGeneration, Retry, Hold, Forget, Goto
  <2>4. Quiet(t)
    BY <2>2 DEF Quiet, Writing, Publishing, Reading, IInv, TypeOK, shared, GetGeneration, Retry, Goto
  <2> QED  BY <2>2, <2>3, <2>4, StepType, QuietStep DEF IInv

\* get_with compares generations and answers or retries.
<1>GetCheckInv.
     ASSUME IInv, NEW t \in Thread, GetCheck(t)
     PROVE  IInv'
  <2> USE <1>GetCheckInv, Zenon
  <2>1. op[t] \in {"contains", "get"} /\ arg[t] \in Key
    BY LabelOperation DEF IInv, GetCheck
  <2>0. retries[t] < FallbackAfter
    BY DEF IInv, TypeOK, ThreadOK, GetCheck
  <2>2. SharedTypes' /\ LocalTypes' /\ OthersStay(t)
    <3>1. SharedTypes'
      BY <2>1 DEF IInv, TypeOK, SharedTypes, shared, GetCheck, Retry, Answer, Decide, Hold, Forget, Goto
    <3>2. node' \in [Thread -> Node \cup {None}] /\ key' \in [Thread -> Key \cup {None}]
      BY <2>1 DEF IInv, TypeOK, GetCheck, Retry, Answer, Decide, Hold, Forget, Goto
    <3>3. DOMAIN pc' = Thread /\ res' \in [Thread -> BOOLEAN \cup {None}]
      BY <2>1, ZenonT(60) DEF IInv, TypeOK, GetCheck, Retry, Answer, Decide, Hold, Forget, Goto
    <3>4. retries' \in [Thread -> 0 .. FallbackAfter] /\ op' = op /\ arg' = arg
      BY <2>1, <2>0, SMTT(60) DEF IInv, TypeOK, FallbackAfter, GetCheck, Retry, Answer, Decide, Hold, Forget, Goto
    <3>5. OthersStay(t)
      BY SMTT(60) DEF IInv, TypeOK, OthersStay, GetCheck, Retry, Answer, Decide, Hold, Forget, Goto
    <3> QED  BY <3>1, <3>2, <3>3, <3>4, <3>5 DEF IInv, TypeOK, LocalTypes
  <2>3. ThreadOK(t)'
    BY <2>1, NoneAssumption, SMTT(60) DEF IInv, TypeOK, ThreadOK, AtNode, AtEntry, Labels, Arguments,
       FallbackAfter, GetCheck, Retry, Answer, Decide, Hold, Forget, Goto
  <2>4. Quiet(t)
    BY <2>2 DEF Quiet, Writing, Publishing, Reading, IInv, TypeOK, shared, GetCheck, Retry, Answer, Goto
  <2> QED  BY <2>2, <2>3, <2>4, StepType, QuietStep DEF IInv

\* get_with falls back to the canonical index under the structural read guard.
<1>GetFallbackInv.
     ASSUME IInv, NEW t \in Thread, GetFallback(t)
     PROVE  IInv'
  <2> USE <1>GetFallbackInv, Zenon
  <2>1. op[t] \in {"contains", "get"} /\ arg[t] \in Key
    BY LabelOperation DEF IInv, GetFallback, AtNode, AtEntry
  <2>2. SharedTypes' /\ LocalTypes' /\ OthersStay(t)
    <3>1. SharedTypes'
      BY <2>1 DEF IInv, TypeOK, SharedTypes, shared, GetFallback, Answer, Decide, Hold, Forget, Goto
    <3>2. node' \in [Thread -> Node \cup {None}] /\ key' \in [Thread -> Key \cup {None}]
      BY <2>1, TopologyFields, PartialFunctionType, SMTT(60) DEF IInv, TypeOK, GetFallback, Answer, Decide, Hold, Forget, Goto
    <3>3. DOMAIN pc' = Thread /\ res' \in [Thread -> BOOLEAN \cup {None}]
      <4>1. \E r \in BOOLEAN : Decide(t, r)
        <5>1. CASE Answer(t, None, FALSE)
          BY <5>1, ZenonT(60) DEF Answer
        <5>2. ASSUME NEW k \in DOMAIN topo.index, Answer(t, topo.index[k], arg[t] \in contents[topo.index[k]])
              PROVE  Decide(t, arg[t] \in contents[topo.index[k]])
          BY <5>2 DEF Answer
        <5>3. \A k : (arg[t] \in contents[topo.index[k]]) \in BOOLEAN
          BY SMT
        <5> QED  BY <5>1, <5>2, <5>3, ZenonT(60) DEF GetFallback
      <4>2. DOMAIN pc' = Thread
        BY ZenonT(60) DEF IInv, TypeOK, GetFallback, Answer, Goto
      <4> QED  BY <4>1, <4>2, DecideType DEF IInv
    <3>4. retries' \in [Thread -> 0 .. FallbackAfter] /\ op' = op /\ arg' = arg
      BY <2>1 DEF IInv, TypeOK, FallbackAfter, GetFallback, Answer, Decide, Hold, Forget, Goto
    <3>5. OthersStay(t)
      BY SMTT(60) DEF IInv, TypeOK, OthersStay, GetFallback, Answer, Decide, Hold, Forget, Goto
    <3> QED  BY <3>1, <3>2, <3>3, <3>4, <3>5 DEF IInv, TypeOK, LocalTypes
  <2>3. ThreadOK(t)'
    BY <2>1, TopologyFields, PartialFunctionType, NoneAssumption, SMTT(60) DEF IInv, TypeOK, ThreadOK, AtNode, AtEntry, Labels, Arguments,
       FallbackAfter, GetFallback, Answer, Decide, Hold, Forget, Goto
  <2>4. Quiet(t)
    BY <2>2, ZenonT(60) DEF Quiet, Writing, Publishing, Reading, IInv, TypeOK, shared, GetFallback, Answer, Goto
  <2> QED  BY <2>2, <2>3, <2>4, StepType, QuietStep DEF IInv

\* put_checked_inner mutates a node or schedules a commit; the index is untouched.
<1>PutNodeInv.
     ASSUME IInv, NEW t \in Thread, PutNode(t)
     PROVE  IInv'
  <2> USE <1>PutNodeInv, Zenon
  <2>1. op[t] = "insert" /\ arg[t] \in Key /\ node[t] \in Node /\ key[t] \in Key
    BY LabelOperation DEF IInv, PutNode, AtNode, AtEntry
  <2>2. SharedTypes' /\ LocalTypes' /\ OthersStay(t)
    <3>1. SharedTypes'
      BY <2>1, SMTT(60) DEF IInv, TypeOK, SharedTypes, shared, PutNode, Decide, Store, Hold, Forget, Goto
    <3>2. node' \in [Thread -> Node \cup {None}] /\ key' \in [Thread -> Key \cup {None}]
      BY <2>1 DEF IInv, TypeOK, PutNode, Decide, Store, Hold, Forget, Goto
    <3>3. DOMAIN pc' = Thread /\ res' \in [Thread -> BOOLEAN \cup {None}]
      BY <2>1, ZenonT(60) DEF IInv, TypeOK, PutNode, Decide, Store, Hold, Forget, Goto
    <3>4. retries' \in [Thread -> 0 .. FallbackAfter] /\ op' = op /\ arg' = arg
      BY <2>1 DEF IInv, TypeOK, FallbackAfter, PutNode, Decide, Store, Hold, Forget, Goto
    <3>5. OthersStay(t)
      BY DEF IInv, TypeOK, OthersStay, PutNode, Decide, Store, Hold, Forget, Goto
    <3> QED  BY <3>1, <3>2, <3>3, <3>4, <3>5 DEF IInv, TypeOK, LocalTypes
  <2>3. ThreadOK(t)'
    BY <2>1, NoneAssumption, SMTT(60) DEF IInv, TypeOK, ThreadOK, AtNode, AtEntry, Labels, Arguments,
       FallbackAfter, PutNode, Decide, Store, Hold, Forget, Goto
  <2>4. Quiet(t)
    BY <2>2, ZenonT(60) DEF Quiet, Writing, Publishing, Reading, IInv, TypeOK, shared, PutNode, Goto
  <2> QED  BY <2>2, <2>3, <2>4, StepType, QuietStep DEF IInv

\* remove_inner mutates a node or leaves its last element to a commit.
<1>RemoveNodeInv.
     ASSUME IInv, NEW t \in Thread, RemoveNode(t)
     PROVE  IInv'
  <2> USE <1>RemoveNodeInv, Zenon
  <2>1. op[t] = "remove" /\ arg[t] \in Key /\ node[t] \in Node /\ key[t] \in Key
    BY LabelOperation DEF IInv, RemoveNode, AtNode, AtEntry
  <2>2. SharedTypes' /\ LocalTypes' /\ OthersStay(t)
    <3>1. SharedTypes'
      BY <2>1, SMTT(60) DEF IInv, TypeOK, SharedTypes, shared, RemoveNode, Decide, Store, Hold, Forget, Goto
    <3>2. node' \in [Thread -> Node \cup {None}] /\ key' \in [Thread -> Key \cup {None}]
      BY <2>1 DEF IInv, TypeOK, RemoveNode, Decide, Store, Hold, Forget, Goto
    <3>3. DOMAIN pc' = Thread /\ res' \in [Thread -> BOOLEAN \cup {None}]
      BY <2>1, ZenonT(60) DEF IInv, TypeOK, RemoveNode, Decide, Store, Hold, Forget, Goto
    <3>4. retries' \in [Thread -> 0 .. FallbackAfter] /\ op' = op /\ arg' = arg
      BY <2>1 DEF IInv, TypeOK, FallbackAfter, RemoveNode, Decide, Store, Hold, Forget, Goto
    <3>5. OthersStay(t)
      BY DEF IInv, TypeOK, OthersStay, RemoveNode, Decide, Store, Hold, Forget, Goto
    <3> QED  BY <3>1, <3>2, <3>3, <3>4, <3>5 DEF IInv, TypeOK, LocalTypes
  <2>3. ThreadOK(t)'
    BY <2>1, NoneAssumption, SMTT(60) DEF IInv, TypeOK, ThreadOK, AtNode, AtEntry, Labels, Arguments,
       FallbackAfter, RemoveNode, Decide, Store, Hold, Forget, Goto
  <2>4. Quiet(t)
    BY <2>2, ZenonT(60) DEF Quiet, Writing, Publishing, Reading, IInv, TypeOK, shared, RemoveNode, Goto
  <2> QED  BY <2>2, <2>3, <2>4, StepType, QuietStep DEF IInv

\* A call returns.
<1>ReturnInv.
     ASSUME IInv, NEW t \in Thread, Return(t)
     PROVE  IInv'
  <2> USE <1>ReturnInv, Zenon
  <2>1. pc[t] = "done"
    BY DEF Return
  <2>2. SharedTypes' /\ LocalTypes' /\ OthersStay(t)
    BY <2>1, SMTT(60) DEF IInv, TypeOK, SharedTypes, LocalTypes, OthersStay, shared, FallbackAfter,
       Return, Decide, Hold, Forget, Goto
  <2>3. ThreadOK(t)'
    <3>1. pc'[t] = "idle" /\ op'[t] = None /\ arg'[t] = None /\ node'[t] = None
      BY DEF IInv, TypeOK, Return, Hold, Forget, Goto
    <3> QED  BY <3>1 DEF ThreadOK, AtNode, AtEntry
  <2>4. Quiet(t)
    BY <2>2 DEF Quiet, Writing, Publishing, Reading, IInv, TypeOK, shared, Return, Goto
  <2> QED  BY <2>2, <2>3, <2>4, StepType, QuietStep DEF IInv

\* A call starts.
<1>CallInv.
     ASSUME IInv, NEW t \in Thread, Call(t)
     PROVE  IInv'
  <2> USE <1>CallInv
  <2>1. pc[t] = "idle" /\ node[t] = None
    <3>1. pc[t] = "idle" /\ t \in Callers
      BY Zenon DEF Call, MayCall, Callers
    <3> QED  BY <3>1, Zenon DEF IInv, TypeOK, ThreadOK, AtNode
  <2>2. SharedTypes' /\ LocalTypes' /\ OthersStay(t)
    BY <2>1 DEF IInv, TypeOK, SharedTypes, LocalTypes, OthersStay, shared, FallbackAfter,
       Call, Goto, FirstStep, Operations
  <2>3. ThreadOK(t)'
    BY <2>1, NoneAssumption, SMTT(60) DEF IInv, TypeOK, ThreadOK, AtNode, AtEntry, Labels, Arguments,
       FallbackAfter, Call, Goto, FirstStep, Operations
  <2>4. Quiet(t)
    BY <2>2 DEF Quiet, Writing, Publishing, Reading, IInv, TypeOK, shared, Call, Goto, FirstStep, Operations
  <2> QED  BY <2>2, <2>3, <2>4, StepType, QuietStep, Zenon DEF IInv

<1> QED  BY <1>PutReadInv, <1>RemoveReadInv, <1>SelectReadInv, <1>SelectNodeInv, <1>DropRefInv, <1>GetRootInv, <1>GetLockInv, <1>GetGenerationInv,
            <1>GetCheckInv, <1>GetFallbackInv, <1>PutNodeInv, <1>RemoveNodeInv, <1>ReturnInv, <1>CallInv, Zenon
            DEF QuietAction, Get, SelectOptimistic

-----------------------------------------------------------------------------
(* Mirrors.                                                                *)

\* Every published route carries its canonical key.
Exact(T) == \A k \in DOMAIN T.index : T.keys[T.index[k]] = k

\* Mirrors, entry by entry.
LEMMA MirrorsPointwise ==
  ASSUME NEW T
  PROVE  Mirrors(T) <=>
           /\ \A j, k \in DOMAIN T.index : T.index[j] = T.index[k] => j = k
           /\ \A k \in DOMAIN T.index : T.index[k] \in DOMAIN T.keys
           /\ \A n \in DOMAIN T.keys : \E k \in DOMAIN T.index : T.index[k] = n
           /\ \A n \in DOMAIN T.keys : T.keys[n] \in DOMAIN T.routes /\ T.routes[T.keys[n]] = n
           /\ \A p \in DOMAIN T.routes : \E n \in DOMAIN T.keys : T.keys[n] = p
           /\ \A k \in DOMAIN T.index :
                \/ T.keys[T.index[k]] = k
                \/ \A j \in DOMAIN T.index \ {k} : j < k /\ j < T.keys[T.index[k]]
BY DEF Mirrors, IsInjective, Range

-----------------------------------------------------------------------------
(* What the mutations of TopologyWriteGuard preserve.                      *)

\* Removing entries, with their routes found by node identity, keeps the
\* publication invariant, and no rebuild happens (remove).
LEMMA RemoveAllMirrors ==
  ASSUME NEW T \in Topologies, Mirrors(T), NEW K
  PROVE  LET R == RemoveAll(T, K)
         IN  /\ R \in Topologies /\ Mirrors(R)
             /\ R.index = Restrict(T.index, DOMAIN T.index \ K)
<1> USE Zenon
<1> DEFINE N == {T.index[k] : k \in K \cap DOMAIN T.index}
           f == Restrict(T.index, DOMAIN T.index \ K)
           r == Restrict(T.routes, DOMAIN T.routes \ {T.keys[n] : n \in N})
           g == Restrict(T.keys, DOMAIN T.keys \ N)
           R == [index |-> f, routes |-> r, keys |-> g]
<1>1. RemoveAll(T, K) = R
  <2> DEFINE T1 == [T EXCEPT !.index = f]
  <2>1. T1.index = f /\ T1.routes = T.routes /\ T1.keys = T.keys
    BY TopologyFields, SMT
  <2>2. \A n \in N : n \in DOMAIN T.keys /\ T.keys[n] \in DOMAIN T.routes /\ T.routes[T.keys[n]] = n
    BY MirrorsPointwise, SMT
  <2>3. \A n \in N : RouteIsConsistent(T1, n)
    <3> HIDE DEF N, T1
    <3> QED  BY <2>1, <2>2 DEF RouteIsConsistent
  <2>4. Unroute(T1, N) = R
    <3> HIDE DEF T1, N
    <3> QED  BY <2>1 DEF Unroute
  <2> QED  BY <2>3, <2>4 DEF RemoveAll
<1>2. R \in Topologies
  BY TopologyType, TopologyFields, SMT DEF Restrict
<1>3. DOMAIN f = DOMAIN T.index \ K /\ \A k \in DOMAIN f : f[k] = T.index[k]
  BY DEF Restrict
<1>4. DOMAIN g = DOMAIN T.keys \ N /\ \A n \in DOMAIN g : g[n] = T.keys[n]
  BY DEF Restrict
<1>5. /\ DOMAIN r = DOMAIN T.routes \ {T.keys[n] : n \in N}
      /\ \A p \in DOMAIN r : r[p] = T.routes[p]
  BY DEF Restrict
<1>6. Mirrors(R)
  <2> HIDE DEF f, r, g
  <2> SUFFICES
        /\ \A j, k \in DOMAIN f : f[j] = f[k] => j = k
        /\ \A k \in DOMAIN f : f[k] \in DOMAIN g
        /\ \A n \in DOMAIN g : \E k \in DOMAIN f : f[k] = n
        /\ \A n \in DOMAIN g : g[n] \in DOMAIN r /\ r[g[n]] = n
        /\ \A p \in DOMAIN r : \E n \in DOMAIN g : g[n] = p
        /\ \A k \in DOMAIN f : \/ g[f[k]] = k
                               \/ \A j \in DOMAIN f \ {k} : j < k /\ j < g[f[k]]
    BY MirrorsPointwise
  <2>1. \A j, k \in DOMAIN f : f[j] = f[k] => j = k
    BY <1>3, MirrorsPointwise
  <2>2. \A k \in DOMAIN f : f[k] \in DOMAIN g
    BY <1>3, <1>4, MirrorsPointwise, SMT
  <2>3. \A n \in DOMAIN g : \E k \in DOMAIN f : f[k] = n
    BY <1>3, <1>4, MirrorsPointwise, SMT
  <2>4. \A n \in DOMAIN g : g[n] \in DOMAIN r /\ r[g[n]] = n
    BY <1>4, <1>5, MirrorsPointwise, SMT
  <2>5. \A p \in DOMAIN r : \E n \in DOMAIN g : g[n] = p
    BY <1>4, <1>5, MirrorsPointwise, SMT
  <2>6. \A k \in DOMAIN f : \/ g[f[k]] = k
                            \/ \A j \in DOMAIN f \ {k} : j < k /\ j < g[f[k]]
    BY <1>3, <1>4, <2>2, MirrorsPointwise
  <2> QED  BY <2>1, <2>2, <2>3, <2>4, <2>5, <2>6
<1> QED  BY <1>1, <1>2, <1>6, SMT

\* A last route that matches its canonical key leaves nothing stale.
LEMMA LastExactIsExact ==
  ASSUME NEW T \in Topologies, Mirrors(T), NEW k, IsLast(T.index, k), T.keys[T.index[k]] = k
  PROVE  Exact(T)
<1> USE Zenon
<1> SUFFICES ASSUME NEW j \in DOMAIN T.index, T.keys[T.index[j]] # j PROVE FALSE
  BY DEF Exact
<1>1. j # k /\ k \in DOMAIN T.index /\ j <= k
  BY DEF IsLast
<1>2. k < j
  BY <1>1, MirrorsPointwise
<1> QED  BY <1>1, <1>2, TopologyFields, SMT DEF Key

\* Re-publishing the last route makes every route exact, and never needs a
\* rebuild (repair_last_route_before_insert).
LEMMA RepairMirrors ==
  ASSUME KeySetsCount, NEW T \in Topologies, Mirrors(T)
  PROVE  LET R == RepairLastRoute(T)
         IN  R \in Topologies /\ Mirrors(R) /\ Exact(R) /\ R.index = T.index
<1> USE Zenon
<1> DEFINE k == LastKey(T.index)
           n == T.index[k]
<1>1. CASE DOMAIN T.index = {}
  BY <1>1 DEF RepairLastRoute, Exact
<1>2. CASE DOMAIN T.index # {}
  <2>1. IsLast(T.index, k) /\ k \in DOMAIN T.index
    BY <1>2, LastKeyIsLast, TopologyFields DEF IsLast
  <2>2. n \in DOMAIN T.keys /\ T.keys[n] \in DOMAIN T.routes /\ T.routes[T.keys[n]] = n
    BY <2>1, MirrorsPointwise
  <2>3. CASE T.keys[n] = k
    BY <1>2, <2>1, <2>2, <2>3, LastExactIsExact DEF RepairLastRoute
  <2>4. CASE T.keys[n] # k
    <3> DEFINE U == Unroute(T, {n})
               R == Route(U, k, n)
    <3>1. /\ U.index = T.index
          /\ DOMAIN U.routes = DOMAIN T.routes \ {T.keys[n]}
          /\ \A p \in DOMAIN U.routes : U.routes[p] = T.routes[p]
          /\ DOMAIN U.keys = DOMAIN T.keys \ {n}
          /\ \A m \in DOMAIN U.keys : U.keys[m] = T.keys[m]
      BY DEF Unroute, Restrict
    <3>2. /\ R.index = U.index
          /\ DOMAIN R.routes = DOMAIN U.routes \cup {k}
          /\ R.routes[k] = n /\ \A p \in DOMAIN U.routes \ {k} : R.routes[p] = U.routes[p]
          /\ DOMAIN R.keys = DOMAIN U.keys \cup {n}
          /\ R.keys[n] = k /\ \A m \in DOMAIN U.keys \ {n} : R.keys[m] = U.keys[m]
      <4> HIDE DEF U, k, n
      <4> QED  BY DEF Route, With
    <3>3. \A j \in DOMAIN T.index \ {k} : T.keys[T.index[j]] = j
      <4> SUFFICES ASSUME NEW j \in DOMAIN T.index \ {k}, T.keys[T.index[j]] # j PROVE FALSE
        OBVIOUS
      <4>1. k < j /\ j <= k
        BY <2>1, MirrorsPointwise DEF IsLast
      <4> QED  BY <4>1, <2>1, TopologyFields, SMT DEF Key
    <3>4. \A m \in DOMAIN T.keys \ {n} : \E j \in DOMAIN T.index \ {k} : T.index[j] = m /\ T.keys[m] = j
      BY <2>1, <3>3, MirrorsPointwise, SMT
    <3>5. k \notin DOMAIN U.routes
      <4> SUFFICES ASSUME k \in DOMAIN T.routes PROVE FALSE
        BY <3>1
      <4>1. PICK m \in DOMAIN T.keys : T.keys[m] = k
        BY MirrorsPointwise
      <4> QED  BY <2>4, <3>4, <4>1
    <3>6. RepairLastRoute(T) = R
      BY <1>2, <2>2, <2>4, <3>5 DEF RepairLastRoute, RouteIsConsistent
    <3>7. R \in Topologies
      <4>1. R = [index |-> R.index, routes |-> R.routes, keys |-> R.keys]
        BY DEF Route
      <4>2. k \in Key /\ n \in Node
        BY <2>1, TopologyFields
      <4>3. U.routes = Restrict(T.routes, DOMAIN U.routes) /\ U.keys = Restrict(T.keys, DOMAIN U.keys)
        BY DEF Unroute, Restrict
      <4>4. R.routes = With(U.routes, k, n) /\ R.keys = With(U.keys, n, k)
        BY DEF Route
      <4>5. DOMAIN R.routes \subseteq Key /\ R.routes \in [DOMAIN R.routes -> Node]
        <5> HIDE DEF U, R, k, n
        <5> QED  BY <3>1, <3>2, <4>2, <4>3, <4>4, TopologyFields, SMT DEF With, Restrict
      <4>6. DOMAIN R.keys \subseteq Node /\ R.keys \in [DOMAIN R.keys -> Key]
        <5> HIDE DEF U, R, k, n
        <5> QED  BY <3>1, <3>2, <4>2, <4>3, <4>4, TopologyFields, SMT DEF With, Restrict
      <4>7. DOMAIN R.index \subseteq Key /\ R.index \in [DOMAIN R.index -> Node]
        BY <3>1, <3>2, TopologyFields, ZenonT(60)
      <4> HIDE DEF R
      <4> QED  BY <4>1, <4>5, <4>6, <4>7, TopologyType
    <3>8. Mirrors(R) /\ Exact(R)
      <4> HIDE DEF U, R, k, n
      <4>1. R.index = T.index /\ n = T.index[k]
        BY <3>1, <3>2 DEF n
      <4>2. \A j \in DOMAIN T.index : R.keys[T.index[j]] = j
        BY <2>1, <3>1, <3>2, <3>3, <4>1, MirrorsPointwise, SMT
      <4>3. DOMAIN R.keys = DOMAIN T.keys
        BY <2>2, <3>1, <3>2
      <4>4. \A m \in DOMAIN R.keys : R.keys[m] \in DOMAIN R.routes /\ R.routes[R.keys[m]] = m
        <5> SUFFICES ASSUME NEW m \in DOMAIN T.keys, m # n
                     PROVE  R.keys[m] \in DOMAIN R.routes /\ R.routes[R.keys[m]] = m
          BY <3>2, <4>3
        <5>1. R.keys[m] = T.keys[m] /\ m \in DOMAIN U.keys
          BY <3>1, <3>2
        <5>2. T.keys[m] # T.keys[n] /\ T.keys[m] \in DOMAIN T.routes /\ T.routes[T.keys[m]] = m
          BY <2>2, MirrorsPointwise
        <5>3. T.keys[m] \in DOMAIN U.routes
          BY <3>1, <5>2
        <5> QED  BY <3>1, <3>2, <3>5, <5>1, <5>2, <5>3, SMT
      <4>5. \A p \in DOMAIN R.routes : \E m \in DOMAIN R.keys : R.keys[m] = p
        <5> SUFFICES ASSUME NEW p \in DOMAIN U.routes PROVE \E m \in DOMAIN R.keys : R.keys[m] = p
          BY <2>2, <3>2, <4>3
        <5>1. PICK m \in DOMAIN T.keys : T.keys[m] = p
          BY <3>1, MirrorsPointwise
        <5>2. m # n
          BY <3>1, <5>1
        <5> QED  BY <3>1, <3>2, <4>3, <5>1, <5>2
      <4>6. Exact(R)
        BY <4>1, <4>2 DEF Exact
      <4> QED  BY <4>1, <4>2, <4>3, <4>4, <4>5, <4>6, MirrorsPointwise, SMT
    <3> QED  BY <3>1, <3>2, <3>6, <3>7, <3>8, ZenonT(60)
  <2> QED  BY <2>3, <2>4
<1> QED  BY <1>1, <1>2

\* With exact routes, inserting an unlinked node under any key keeps the
\* publication invariant and needs no rebuild, even when the key replaces
\* another entry (insert_after_last_route_repair).
LEMMA InsertAfterRepairMirrors ==
  ASSUME NEW T \in Topologies, Mirrors(T), Exact(T),
         NEW k \in Key, NEW n \in Node, n \notin Range(T.index)
  PROVE  LET R == InsertAfterRepair(T, k, n)
         IN  R \in Topologies /\ Mirrors(R) /\ Exact(R) /\ R.index = With(T.index, k, n)
<1> USE Zenon
<1> DEFINE f  == With(T.index, k, n)
           T1 == [T EXCEPT !.index = f]
           gone == IF k \in DOMAIN T.index THEN {T.index[k]} ELSE {}
           T2 == IF k \in DOMAIN T.index THEN Unroute(T1, {T.index[k]}) ELSE T1
           R  == Route(T2, k, n)
<1>1. T1.index = f /\ T1.routes = T.routes /\ T1.keys = T.keys
  BY TopologyFields, SMT
<1>2. \A j \in DOMAIN T.index : /\ T.index[j] \in DOMAIN T.keys /\ T.keys[T.index[j]] = j
                                /\ j \in DOMAIN T.routes /\ T.routes[j] = T.index[j]
  BY MirrorsPointwise, SMT DEF Exact
<1>3. \A m \in DOMAIN T.keys : T.keys[m] \in DOMAIN T.index /\ T.index[T.keys[m]] = m
  BY <1>2, MirrorsPointwise, SMT
<1>4. DOMAIN T.routes = DOMAIN T.index
  <2>1. \A p \in DOMAIN T.routes : \E m \in DOMAIN T.keys : T.keys[m] = p
    BY MirrorsPointwise
  <2>2. DOMAIN T.routes \subseteq DOMAIN T.index
    BY <1>3, <2>1
  <2>3. DOMAIN T.index \subseteq DOMAIN T.routes
    BY <1>2
  <2> QED  BY <2>2, <2>3
<1>5. k \in DOMAIN T.index => RouteIsConsistent(T1, T.index[k])
  <2> HIDE DEF T1
  <2> QED  BY <1>1, <1>2 DEF RouteIsConsistent
<1>6. /\ T2.index = f
      /\ DOMAIN T2.routes = DOMAIN T.index \ {k}
      /\ \A j \in DOMAIN T2.routes : T2.routes[j] = T.index[j]
      /\ DOMAIN T2.keys = DOMAIN T.keys \ gone
      /\ \A m \in DOMAIN T2.keys : T2.keys[m] = T.keys[m]
  <2> HIDE DEF T1, f
  <2>1. CASE k \in DOMAIN T.index
    BY <1>1, <1>2, <1>4, <2>1, SMT DEF Unroute, Restrict
  <2>2. CASE k \notin DOMAIN T.index
    BY <1>1, <1>2, <1>4, <2>2
  <2> QED  BY <2>1, <2>2, ZenonT(60)
<1>7. InsertAfterRepair(T, k, n) = R
  <2>1. k \notin DOMAIN T2.routes
    <3> HIDE DEF T2
    <3> QED  BY <1>6
  <2> QED  BY <1>5, <2>1 DEF InsertAfterRepair
<1>8. /\ R.index = f
      /\ DOMAIN R.routes = DOMAIN T.index \cup {k}
      /\ R.routes[k] = n /\ \A j \in DOMAIN T.index \ {k} : R.routes[j] = T.index[j]
      /\ DOMAIN R.keys = (DOMAIN T.keys \ gone) \cup {n}
      /\ R.keys[n] = k /\ \A m \in (DOMAIN T.keys \ gone) \ {n} : R.keys[m] = T.keys[m]
  <2> HIDE DEF T2, f, gone
  <2> QED  BY <1>6 DEF Route, With
<1>9. DOMAIN f = DOMAIN T.index \cup {k} /\ f[k] = n /\ \A j \in DOMAIN T.index \ {k} : f[j] = T.index[j]
  BY DEF With
<1>10. n \notin DOMAIN T.keys /\ \A j \in DOMAIN T.index : T.index[j] # n
  BY <1>3 DEF Range
<1>11. R \in Topologies
  <2>1. R = [index |-> R.index, routes |-> With(T2.routes, k, n), keys |-> With(T2.keys, n, k)]
    BY SMT DEF Route
  <2> HIDE DEF R, T2, f, gone
  <2>2. DOMAIN R.index \subseteq Key /\ R.index \in [DOMAIN R.index -> Node]
    <3>1. R.index = With(T.index, k, n)
      BY <1>8 DEF f
    <3> QED  BY <1>8, <1>9, <3>1, TopologyFields, SMT DEF With
  <2>3. DOMAIN R.routes \subseteq Key /\ R.routes \in [DOMAIN R.routes -> Node]
    <3>1. R.routes = With(T2.routes, k, n)
      BY <2>1, SMT
    <3> QED  BY <1>6, <1>8, <3>1, TopologyFields, SMT DEF With
  <2>4. DOMAIN R.keys \subseteq Node /\ R.keys \in [DOMAIN R.keys -> Key]
    <3>1. R.keys = With(T2.keys, n, k)
      BY <2>1, SMT
    <3> QED  BY <1>6, <1>8, <3>1, TopologyFields, SMT DEF With
  <2> QED  BY <2>1, <2>2, <2>3, <2>4, TopologyType, SMT
<1>12. Mirrors(R) /\ Exact(R)
  <2>1. \A j \in DOMAIN f : f[j] \in DOMAIN R.keys /\ R.keys[f[j]] = j
    <3> SUFFICES ASSUME NEW j \in DOMAIN T.index, j # k
                 PROVE  f[j] \in DOMAIN R.keys /\ R.keys[f[j]] = j
      <4> HIDE DEF R, f
      <4> QED  BY <1>8, <1>9
    <3>1. f[j] = T.index[j] /\ T.index[j] \in DOMAIN T.keys \ gone /\ T.index[j] # n
      BY <1>2, <1>9, <1>10, MirrorsPointwise
    <3> HIDE DEF R, f, gone
    <3> QED  BY <1>2, <1>8, <3>1, SMT
  <2>2. \A m \in DOMAIN R.keys : R.keys[m] \in DOMAIN f /\ f[R.keys[m]] = m
    <3> SUFFICES ASSUME NEW m \in DOMAIN T.keys \ gone, m # n
                 PROVE  R.keys[m] \in DOMAIN f /\ f[R.keys[m]] = m
      <4> HIDE DEF R, f, gone
      <4> QED  BY <1>8, <1>9
    <3>1. R.keys[m] = T.keys[m] /\ T.keys[m] \in DOMAIN T.index /\ T.index[T.keys[m]] = m
      BY <1>3, <1>8, ZenonT(60)
    <3>2. T.keys[m] # k
      BY <3>1
    <3> HIDE DEF R, f, gone
    <3> QED  BY <1>9, <3>1, <3>2
  <2>3. DOMAIN R.routes = DOMAIN f /\ \A j \in DOMAIN f : R.routes[j] = f[j]
    <3> HIDE DEF R, f, gone
    <3> QED  BY <1>8, <1>9
  <2> HIDE DEF R, f, gone
  <2>4. Exact(R)
    BY <1>8, <2>1 DEF Exact
  <2> QED  BY <1>8, <2>1, <2>2, <2>3, <2>4, MirrorsPointwise, SMT
<1> QED  BY <1>7, <1>8, <1>11, <1>12, ZenonT(60)

\* The write guard's insert keeps the publication invariant.
LEMMA InsertMirrors ==
  ASSUME KeySetsCount, NEW T \in Topologies, Mirrors(T),
         NEW k \in Key, NEW n \in Node, n \notin Range(T.index)
  PROVE  LET R == Insert(T, k, n)
         IN  R \in Topologies /\ Mirrors(R) /\ R.index = With(T.index, k, n)
BY RepairMirrors, InsertAfterRepairMirrors DEF Insert

\* Re-keying the last node in the canonical index only keeps the publication
\* invariant: its published route stays above every other one
\* (can_rekey_last_node_without_publication, rekey_last_node).
LEMMA RekeyLastNodeMirrors ==
  ASSUME NEW T \in Topologies, Mirrors(T), NEW n \in Node, NEW oldKey, NEW newKey \in Key,
         oldKey \in DOMAIN T.index, T.index[oldKey] = n,
         CanRekeyLastNode(T, T.routes, n, newKey)
  PROVE  LET R == RekeyLastNode(T, oldKey, newKey, n)
         IN  R \in Topologies /\ Mirrors(R) /\ R.routes = T.routes
<1> USE Zenon
<1> DEFINE f == With(Without(T.index, oldKey), newKey, n)
           R == RekeyLastNode(T, oldKey, newKey, n)
<1>1. R = [index |-> f, routes |-> T.routes, keys |-> T.keys]
  BY TopologyFields, SMT DEF RekeyLastNode
<1>2. /\ DOMAIN f = (DOMAIN T.index \ {oldKey}) \cup {newKey}
      /\ f[newKey] = n /\ \A j \in (DOMAIN T.index \ {oldKey}) \ {newKey} : f[j] = T.index[j]
  BY DEF With, Without, Restrict
<1>3. /\ \A j \in DOMAIN T.index : j <= oldKey
      /\ \A j \in DOMAIN T.index \ {oldKey} : j < newKey
  <2>1. PICK k \in DOMAIN T.index : /\ \A j \in DOMAIN T.index : j <= k
                                    /\ T.index[k] = n
                                    /\ \A j \in DOMAIN T.index \ {k} : j < newKey
    BY DEF CanRekeyLastNode, IsLast
  <2>2. k = oldKey
    BY <2>1, MirrorsPointwise
  <2> QED  BY <2>1, <2>2
<1>4. newKey \notin DOMAIN T.index \ {oldKey}
  BY <1>3, TopologyFields, SMT DEF Key
<1>5. \A j \in DOMAIN T.index \ {oldKey} : j < oldKey
  BY <1>3, TopologyFields, SMT DEF Key
<1>6. \A j \in DOMAIN T.index \ {oldKey} : T.keys[T.index[j]] = j
  <2> SUFFICES ASSUME NEW j \in DOMAIN T.index \ {oldKey}, T.keys[T.index[j]] # j PROVE FALSE
    OBVIOUS
  <2>1. oldKey < j
    BY MirrorsPointwise
  <2> QED  BY <1>5, <2>1, TopologyFields, SMT DEF Key
<1>7. \A j \in DOMAIN T.index \ {oldKey} : j < T.keys[n]
  BY <1>5, MirrorsPointwise, SMT
<1>8. R \in Topologies
  <2>1. DOMAIN f \subseteq Key /\ f \in [DOMAIN f -> Node]
    BY TopologyFields, ZenonT(60) DEF With, Without, Restrict
  <2> HIDE DEF f, R
  <2> QED  BY <1>1, <2>1, TopologyType, TopologyFields
<1>9. Mirrors(R)
  <2> HIDE DEF f, R
  <2>1. R.index = f /\ R.routes = T.routes /\ R.keys = T.keys
    BY <1>1
  <2>2. \A j, k \in DOMAIN f : f[j] = f[k] => j = k
    BY <1>2, <1>4, MirrorsPointwise, SMT
  <2>3. \A k \in DOMAIN f : f[k] \in DOMAIN T.keys
    BY <1>2, <1>4, MirrorsPointwise
  <2>4. \A m \in DOMAIN T.keys : \E k \in DOMAIN f : f[k] = m
    <3> SUFFICES ASSUME NEW m \in DOMAIN T.keys, m # n PROVE \E k \in DOMAIN f : f[k] = m
      BY <1>2
    <3>1. PICK k \in DOMAIN T.index : T.index[k] = m
      BY MirrorsPointwise
    <3> QED  BY <1>2, <1>4, <3>1
  <2>5. \A k \in DOMAIN f : \/ T.keys[f[k]] = k
                            \/ \A j \in DOMAIN f \ {k} : j < k /\ j < T.keys[f[k]]
    BY <1>2, <1>3, <1>4, <1>6, <1>7, SMT
  <2>6. /\ \A m \in DOMAIN T.keys : T.keys[m] \in DOMAIN T.routes /\ T.routes[T.keys[m]] = m
        /\ \A p \in DOMAIN T.routes : \E m \in DOMAIN T.keys : T.keys[m] = p
    BY MirrorsPointwise
  <2> QED  BY <2>1, <2>2, <2>3, <2>4, <2>5, <2>6, MirrorsPointwise, SMT
<1> QED  BY <1>1, <1>8, <1>9, SMT

-----------------------------------------------------------------------------
(* Canonical and published routing agree.                                  *)

\* A point read that routes through the published index reaches the node the
\* canonical index routes the value to, although the last route may be stale:
\* the reason the comment above Topology gives for that exception.
THEOREM RoutesAgree ==
  ASSUME NEW T \in Topologies, Mirrors(T), NEW v \in Int,
         NEW p \in DOMAIN T.routes, Covers(T.routes, v, p)
  PROVE  \E k \in DOMAIN T.index : Covers(T.index, v, k) /\ T.index[k] = T.routes[p]
<1> USE Zenon
<1> DEFINE n == T.routes[p]
<1>1. n \in DOMAIN T.keys /\ T.keys[n] = p
  BY MirrorsPointwise, SMT
<1>2. PICK k \in DOMAIN T.index : T.index[k] = n
  BY <1>1, MirrorsPointwise
<1>3. DOMAIN T.index \subseteq Int /\ DOMAIN T.routes \subseteq Int
  BY TopologyFields, SMT DEF Key
<1>4. \A j \in DOMAIN T.index : T.keys[T.index[j]] \in DOMAIN T.routes
  BY MirrorsPointwise
<1>5. \A j \in DOMAIN T.index : \/ T.keys[T.index[j]] = j
                                \/ \A i \in DOMAIN T.index \ {j} : i < j /\ i < T.keys[T.index[j]]
  BY MirrorsPointwise
<1>6. \/ v <= p /\ \A q \in DOMAIN T.routes : v <= q => p <= q
      \/ (\A q \in DOMAIN T.routes : q < v) /\ \A q \in DOMAIN T.routes : q <= p
  BY DEF Covers, IsLast
<1> HIDE DEF n
<1>7. CASE p = k
  <2>1. CASE v <= p /\ \A q \in DOMAIN T.routes : v <= q => p <= q
    <3>1. \A j \in DOMAIN T.index : v <= j => k <= j
      BY <1>2, <1>3, <1>4, <1>5, <1>7, <2>1, SMT
    <3> QED  BY <1>2, <1>7, <2>1, <3>1 DEF Covers, n
  <2>2. CASE (\A q \in DOMAIN T.routes : q < v) /\ \A q \in DOMAIN T.routes : q <= p
    <3>1. \A j \in DOMAIN T.index : T.keys[T.index[j]] = j
      BY <1>1, <1>2, <1>3, <1>4, <1>5, <1>7, <2>2, SMT
    <3>2. \A j \in DOMAIN T.index : j < v /\ j <= k
      BY <1>4, <1>7, <2>2, <3>1
    <3> QED  BY <1>2, <3>2 DEF Covers, IsLast, n
  <2> QED  BY <1>6, <2>1, <2>2
<1>8. CASE p # k
  <2>1. \A j \in DOMAIN T.index \ {k} : j < k /\ j < p
    BY <1>1, <1>2, <1>5, <1>8
  <2>2. \A j \in DOMAIN T.index \ {k} : T.keys[T.index[j]] = j
    BY <1>2, <1>3, <1>5, <2>1, SMT
  <2>3. \A j \in DOMAIN T.index \ {k} : j < v
    BY <1>3, <1>4, <1>6, <2>1, <2>2, SMT
  <2>4. Covers(T.index, v, k)
    BY <1>2, <1>3, <2>1, <2>3, SMT DEF Covers, IsLast
  <2> QED  BY <1>2, <2>4 DEF n
<1> QED  BY <1>7, <1>8

\* Published and canonical index are empty together.
LEMMA EmptyTogether ==
  ASSUME NEW T \in Topologies, Mirrors(T)
  PROVE  DOMAIN T.routes = {} <=> DOMAIN T.index = {}
BY MirrorsPointwise, Zenon

\* Types that every proof about a node or the index needs.
LEMMA IndexTypes ==
  ASSUME IInv
  PROVE  /\ topo \in Topologies /\ Mirrors(topo) /\ contents \in [Node -> SUBSET Key]
         /\ DOMAIN topo.index \subseteq Key /\ topo.index \in [DOMAIN topo.index -> Node]
         /\ \A j, k \in DOMAIN topo.index : topo.index[j] = topo.index[k] => j = k
<1> USE Zenon
<1>1. topo \in Topologies /\ Mirrors(topo) /\ contents \in [Node -> SUBSET Key]
  BY DEF IInv, TypeOK, PublicationInvariant
<1> QED  BY <1>1, TopologyFields, MirrorsPointwise

\* The same in the state a step leads to.
LEMMA IndexTypesNext ==
  ASSUME IInv'
  PROVE  /\ topo' \in Topologies /\ Mirrors(topo') /\ contents' \in [Node -> SUBSET Key]
         /\ DOMAIN topo'.index \subseteq Key /\ topo'.index \in [DOMAIN topo'.index -> Node]
         /\ \A j, k \in DOMAIN topo'.index : topo'.index[j] = topo'.index[k] => j = k
<1> USE Zenon
<1>1. topo' \in Topologies /\ Mirrors(topo') /\ contents' \in [Node -> SUBSET Key]
  BY DEF IInv, TypeOK, PublicationInvariant, Mirrors
<1> QED  BY <1>1, TopologyFields, MirrorsPointwise

\* Keys are integers.
LEMMA KeysAreIntegers == \A i \in Key : i \in Int
BY MaxKeyAssumption, SMTT(60) DEF Key

\* A non-empty set of values has its maximum among them (NodeLike::max).
LEMMA MaxInKey ==
  ASSUME KeySetsCount, NEW S \in SUBSET Key, S # {}
  PROVE  Max(S) \in S /\ Max(S) \in Key
BY MaxIsGreatest, Zenon

\* The maximum is the element that bounds all others (NodeLike::max).
LEMMA MaxIs ==
  ASSUME KeySetsCount, NEW S \in SUBSET Key, NEW m \in S, \A y \in S : y <= m
  PROVE  Max(S) = m
<1> USE Zenon
<1> DEFINE x == Max(S)
<1>1. x \in S /\ m <= x
  BY MaxIsGreatest
<1>2. x <= m
  BY <1>1
<1> HIDE DEF x
<1>3. x \in Int /\ m \in Int
  BY <1>1, MaxKeyAssumption, SMTT(60) DEF Key
<1>4. x = m
  BY <1>1, <1>2, <1>3, SMT
<1> QED  BY <1>4 DEF x

\* Halving a non-empty node leaves its maximum in the new upper node.
LEMMA UpperHalf ==
  ASSUME KeySetsCount, NEW c \in SUBSET Key, c # {}
  PROVE  c \ LowerHalf(c) # {}
<1> USE Zenon
<1> DEFINE m == Max(c)
<1>1. Cardinality(c) \in Nat
  BY DEF KeySetsCount
<1>2. m \in c /\ \A y \in c : y <= m
  BY MaxIsGreatest
<1> HIDE DEF m
<1>3. {y \in c : y < m} = c \ {m}
  <2>1. \A y \in c : y \in Int
    BY MaxKeyAssumption, SMT DEF Key
  <2>2. \A y \in c : y < m <=> y # m
    BY <1>2, <2>1, SMT
  <2> QED  BY <2>2
<1>4. Cardinality(c \ {m}) = Cardinality(c) - 1 /\ Cardinality(c \ {m}) \in Nat
  BY <1>2 DEF KeySetsCount
<1>5. ~(Cardinality(c) - 1 < Cardinality(c) \div 2)
  BY <1>1, <1>4, SMT
<1>6. m \notin LowerHalf(c)
  BY <1>3, <1>4, <1>5 DEF LowerHalf
<1> QED  BY <1>2, <1>6

\* A free allocation is linked nowhere and held by nobody.
LEMMA NewNodeIsFree ==
  ASSUME FreeNodes # {}, TypeOK
  PROVE  /\ NewNode \in Node /\ NewNode \notin Range(topo.index)
         /\ \A t \in Thread : node[t] # NewNode
<1> USE Zenon
<1>1. NewNode \in FreeNodes
  BY DEF NewNode
<1>2. \A t \in Thread : node[t] \in Range(node)
  BY DEF TypeOK, Range
<1> QED  BY <1>1, <1>2 DEF FreeNodes, Linked

-----------------------------------------------------------------------------
(* Routing.                                                                *)

\* A key covers a value when the smaller keys lie below the value, and the
\* value lies at or below it unless it is the last key.
LEMMA CoversPointwise ==
  ASSUME NEW f, DOMAIN f \subseteq Key, NEW v \in Key, NEW k \in DOMAIN f
  PROVE  Covers(f, v, k) <=> /\ \A j \in DOMAIN f : j < k => j < v
                             /\ v <= k \/ \A j \in DOMAIN f : j <= k
BY MaxKeyAssumption, SMTT(60) DEF Covers, IsLast, Key

\* At most one key covers a value: an index routes every value to one node.
LEMMA CoversOnce ==
  ASSUME NEW f, DOMAIN f \subseteq Key, NEW v \in Key, NEW j, NEW k, Covers(f, v, j), Covers(f, v, k)
  PROVE  j = k
BY MaxKeyAssumption, SMTT(60) DEF Covers, IsLast, Key

\* Routing under the structural lock selects the entry that covers the value.
LEMMA SelectCovers ==
  ASSUME TypeOK, NEW t \in Thread, NEW f, NEW v, DOMAIN f # {}, Select(t, f, v)
  PROVE  key'[t] \in DOMAIN f /\ f[key'[t]] = node'[t] /\ Covers(f, v, key'[t])
BY Zenon DEF TypeOK, Select, Hold, Forget

\* The entry of f under key k makes way in h for entries under the keys M, all
\* of them values that f routes to k.
Moved(f, h, k, M) ==
  /\ DOMAIN f \subseteq Key /\ k \in DOMAIN f /\ M \subseteq Key
  /\ DOMAIN h = (DOMAIN f \ {k}) \cup M
  /\ \A m \in M : Covers(f, m, k)

\* No other entry is replaced, and values routed to other entries still are.
LEMMA MovedOthers ==
  ASSUME NEW f, NEW h, NEW k, NEW M, Moved(f, h, k, M), NEW j \in DOMAIN f, j # k
  PROVE  j \notin M /\ \A v \in Key : Covers(f, v, j) => Covers(h, v, j)
<1> USE DEF Moved, Zenon
<1>1. \A i \in DOMAIN f \cup M : i \in Int
  BY KeysAreIntegers
<1>2. \A m \in M : (\A i \in DOMAIN f : i < k => i < m) /\ (m <= k \/ \A i \in DOMAIN f : i <= k)
  BY CoversPointwise
<1>3. j \notin M
  BY <1>1, <1>2, SMTT(60)
<1>4. ASSUME NEW v \in Key, Covers(f, v, j) PROVE Covers(h, v, j)
  <2>1. (\A i \in DOMAIN f : i < j => i < v) /\ (v <= j \/ \A i \in DOMAIN f : i <= j)
    BY <1>4, CoversPointwise
  <2>2. j \in DOMAIN h /\ DOMAIN h \subseteq Key /\ v \in Int
    BY KeysAreIntegers
  <2>3. \A i \in DOMAIN h : i < j => i < v
    BY <1>1, <1>2, <2>1, <2>2, SMTT(60)
  <2>4. v <= j \/ \A i \in DOMAIN h : i <= j
    BY <1>1, <1>2, <2>1, <2>2, SMTT(60)
  <2> QED  BY <2>2, <2>3, <2>4, CoversPointwise
<1> QED  BY <1>3, <1>4

\* NodeLike::halve: the lower half lies below the rest.
LEMMA LowerIsBelow ==
  ASSUME KeySetsCount, NEW c \in SUBSET Key, NEW x \in LowerHalf(c), NEW y \in c \ LowerHalf(c)
  PROVE  x < y
<1> USE Zenon
<1> DEFINE below(z) == {w \in c : w < z}
           h == Cardinality(c) \div 2
<1>1. x \in c /\ x \in Int /\ y \in Int /\ \A w \in c : w \in Int
  BY KeysAreIntegers DEF LowerHalf
<1>2. Cardinality(below(x)) < h /\ ~(Cardinality(below(y)) < h)
  BY DEF LowerHalf
<1>3. CASE ~(x < y)
  <2>0. \A w \in c : w < y => w < x
    BY <1>1, <1>3, SMTT(60)
  <2>1. below(y) \subseteq below(x) /\ below(x) \in SUBSET Key /\ below(y) \in SUBSET Key
    BY <2>0
  <2>2. Cardinality(below(y)) <= Cardinality(below(x))
    BY <2>1 DEF KeySetsCount
  <2>3. Cardinality(below(x)) \in Nat /\ Cardinality(below(y)) \in Nat /\ Cardinality(c) \in Nat
    BY <2>1 DEF KeySetsCount
  <2> QED  BY <1>2, <2>2, <2>3, SMTT(60)
<1> QED  BY <1>3

-----------------------------------------------------------------------------
(* What commits do to the topology.                                        *)

\* The nodes linked after a removal and after an insertion.
LEMMA RemoveAllLinks ==
  ASSUME NEW T \in Topologies, Mirrors(T), NEW K
  PROVE  \A n : n \in Range(RemoveAll(T, K).index) <=>
                  \E k \in DOMAIN T.index \ K : T.index[k] = n
<1>1. RemoveAll(T, K).index = Restrict(T.index, DOMAIN T.index \ K)
  BY RemoveAllMirrors, ZenonT(60)
<1> QED  BY <1>1, Zenon DEF Range, Restrict

\* An insertion into the index links at most the node it inserts.
LEMMA InsertLinks ==
  ASSUME KeySetsCount, NEW T \in Topologies, Mirrors(T), NEW k \in Key, NEW n \in Node, n \notin Range(T.index)
  PROVE  \A m \in Range(Insert(T, k, n).index) : m = n \/ m \in Range(T.index)
<1>1. Insert(T, k, n).index = With(T.index, k, n)
  BY InsertMirrors, Zenon
<1> QED  BY <1>1, SMTT(60) DEF Range, With

\* Re-keying or unlinking a node keeps the publication invariant, and the
\* node stays linked only when it has elements left.
LEMMA RekeyMirrors ==
  ASSUME KeySetsCount, NEW T \in Topologies, Mirrors(T), NEW k \in DOMAIN T.index, NEW n \in Node,
         T.index[k] = n, NEW c \in SUBSET Key
  PROVE  LET R == Rekey(T, k, n, c)
         IN  /\ R \in Topologies /\ Mirrors(R)
             /\ \A m \in Range(R.index) : m = n \/ m \in Range(T.index)
             /\ n \in Range(R.index) => c # {}
<1> USE Zenon
<1> DEFINE T1 == RemoveAll(T, {k})
<1>1. T1 \in Topologies /\ Mirrors(T1)
  BY RemoveAllMirrors, ZenonT(60)
<1>2. \A m \in Range(T1.index) : m # n /\ m \in Range(T.index)
  <2>1. SUFFICES ASSUME NEW m \in Range(T1.index) PROVE m # n /\ m \in Range(T.index)
    OBVIOUS
  <2>0. \A x : x \in Range(RemoveAll(T, {k}).index) <=> \E j \in DOMAIN T.index \ {k} : T.index[j] = x
    BY RemoveAllLinks, ZenonT(60)
  <2>2. PICK j \in DOMAIN T.index \ {k} : T.index[j] = m
    BY <2>0, <2>1
  <2>3. m # n
    BY <2>2, MirrorsPointwise
  <2> QED  BY <2>2, <2>3 DEF Range
<1>3. CASE c = {}
  BY <1>1, <1>2, <1>3 DEF Rekey, Remove
<1>4. CASE c # {}
  <2>1. Max(c) \in Key
    BY <1>4, MaxInKey
  <2>2. Rekey(T, k, n, c) = Insert(T1, Max(c), n)
    BY <1>4 DEF Rekey, Remove
  <2> HIDE DEF T1
  <2>3. /\ Insert(T1, Max(c), n) \in Topologies /\ Mirrors(Insert(T1, Max(c), n))
        /\ \A m \in Range(Insert(T1, Max(c), n).index) : m = n \/ m \in Range(T1.index)
    BY <1>1, <1>2, <2>1, InsertMirrors, InsertLinks
  <2> QED  BY <1>2, <1>4, <2>2, <2>3
<1> QED  BY <1>3, <1>4

\* A split keeps the publication invariant and links at most the new node; the
\* old node stays linked only when its lower half has elements.
LEMMA SplitMirrors ==
  ASSUME KeySetsCount, NEW T \in Topologies, Mirrors(T), NEW k \in DOMAIN T.index, NEW n \in Node,
         T.index[k] = n, NEW lower \in SUBSET Key, NEW upper \in SUBSET Key, upper # {},
         NEW new \in Node, new \notin Range(T.index)
  PROVE  LET R == SplitTopology(T, k, n, lower, new, upper)
         IN  /\ R \in Topologies /\ Mirrors(R)
             /\ \A m \in Range(R.index) : m = n \/ m = new \/ m \in Range(T.index)
             /\ n \in Range(R.index) => lower # {}
<1> USE Zenon
<1> DEFINE T2 == Rekey(T, k, n, lower)
<1>1. /\ T2 \in Topologies /\ Mirrors(T2)
      /\ \A m \in Range(T2.index) : m = n \/ m \in Range(T.index)
      /\ n \in Range(T2.index) => lower # {}
  BY RekeyMirrors
<1>2. SplitTopology(T, k, n, lower, new, upper) = Insert(T2, Max(upper), new)
  BY DEF SplitTopology, Rekey
<1>3. n \in Range(T.index) /\ new # n /\ new \notin Range(T2.index) /\ Max(upper) \in Key
  BY <1>1, MaxInKey DEF Range
<1> HIDE DEF T2
<1>4. /\ Insert(T2, Max(upper), new) \in Topologies /\ Mirrors(Insert(T2, Max(upper), new))
      /\ \A m \in Range(Insert(T2, Max(upper), new).index) : m = new \/ m \in Range(T2.index)
  BY <1>1, <1>3, InsertMirrors, InsertLinks
<1> QED  BY <1>1, <1>2, <1>3, <1>4

\* The three outcomes of a range removal.
LEMMA RangeCommitTopology ==
  ASSUME IInv, NEW t \in Thread, RangeCommit(t)
  PROVE  /\ topo' \in Topologies /\ Mirrors(topo') /\ contents' \in [Node -> SUBSET Key]
         /\ (topo' = topo /\ pc'[t] = "clean") \/ pc'[t] = "dirty"
         /\ DOMAIN pc' = Thread /\ \A u \in Thread \ {t} : pc'[u] = pc[u]
<1> USE Zenon
<1>0. KeySetsCount
  BY DEF IInv
<1> USE <1>0
<1>1. CASE Goto(t, "clean") /\ UNCHANGED <<topo, contents>>
  BY <1>1 DEF IInv, TypeOK, PublicationInvariant, Goto
<1>2. ASSUME NEW k \in DOMAIN topo.index, RangeInOneNode(t, k)
      PROVE  /\ topo' \in Topologies /\ Mirrors(topo') /\ contents' \in [Node -> SUBSET Key]
             /\ (topo' = topo /\ pc'[t] = "clean") \/ pc'[t] = "dirty"
             /\ DOMAIN pc' = Thread /\ \A u \in Thread \ {t} : pc'[u] = pc[u]
  <2> DEFINE n == topo.index[k]
             left == contents[n] \ Inside(contents[n], arg[t])
  <2>1. n \in Node /\ left \in SUBSET Key
    BY TopologyFields, ZenonT(60) DEF IInv, TypeOK
  <2>2. contents' \in [Node -> SUBSET Key]
    BY <1>2, <2>1 DEF IInv, TypeOK, RangeInOneNode, Store
  <2>3. CASE topo' = Rekey(topo, k, n, left) /\ Goto(t, "dirty")
    <3> HIDE DEF left
    <3>1. topo' \in Topologies /\ Mirrors(topo')
      BY <2>1, <2>3, RekeyMirrors DEF IInv, TypeOK, PublicationInvariant
    <3> QED  BY <2>2, <2>3, <3>1 DEF IInv, TypeOK, Goto
  <2>4. CASE Goto(t, "clean") /\ UNCHANGED topo
    BY <2>2, <2>4 DEF IInv, TypeOK, PublicationInvariant, Goto
  <2> QED  BY <1>2, <2>3, <2>4 DEF RangeInOneNode
<1>3. ASSUME NEW fk \in DOMAIN topo.index, NEW bk \in DOMAIN topo.index, fk < bk,
             RangeAcrossNodes(t, fk, bk)
      PROVE  /\ topo' \in Topologies /\ Mirrors(topo') /\ contents' \in [Node -> SUBSET Key]
             /\ pc'[t] = "dirty"
             /\ DOMAIN pc' = Thread /\ \A u \in Thread \ {t} : pc'[u] = pc[u]
  <2> DEFINE front   == topo.index[fk]
             back    == topo.index[bk]
             between == {k \in DOMAIN topo.index : fk < k /\ k < bk}
             kept    == {x \in contents[front] : x < arg[t].lo}
             tail    == {x \in contents[back] : arg[t].hi < x \/ (~arg[t].closed /\ arg[t].hi = x)}
             T0      == RemoveAll(topo, between)
             T1      == Rekey(T0, fk, front, kept)
  <2>1. front \in Node /\ back \in Node /\ kept \in SUBSET Key /\ tail \in SUBSET Key /\ fk \in Key
    BY TopologyFields, ZenonT(60) DEF IInv, TypeOK
  <2>2. contents' \in [Node -> SUBSET Key]
    BY <1>3, <2>1, ZenonT(60) DEF IInv, TypeOK, RangeAcrossNodes
  <2>3. fk \notin between
    BY <2>1, MaxKeyAssumption, SMTT(60) DEF Key
  <2>4. topo' = IF tail = {} THEN Remove(T1, bk) ELSE T1
    BY <1>3, ZenonT(60) DEF RangeAcrossNodes
  <2> HIDE DEF kept, tail, between
  <2>5. T0 \in Topologies /\ Mirrors(T0) /\ T0.index = Restrict(topo.index, DOMAIN topo.index \ between)
    BY RemoveAllMirrors, ZenonT(60) DEF IInv, TypeOK, PublicationInvariant
  <2>6. fk \in DOMAIN T0.index /\ T0.index[fk] = front
    BY <2>3, <2>5 DEF Restrict
  <2> HIDE DEF T0
  <2>7. T1 \in Topologies /\ Mirrors(T1)
    BY <2>1, <2>5, <2>6, RekeyMirrors, ZenonT(60)
  <2> HIDE DEF T1
  <2>8. topo' \in Topologies /\ Mirrors(topo')
    BY <2>4, <2>7, RemoveAllMirrors, ZenonT(60) DEF Remove
  <2> QED  BY <1>3, <2>2, <2>8, ZenonT(60) DEF IInv, TypeOK, RangeAcrossNodes, Goto
<1> QED  BY <1>1, <1>2, <1>3 DEF RangeCommit

\* attach_nodes on an empty set keys every non-empty node by its maximum.
LEMMA AttachedIndexType ==
  ASSUME KeySetsCount, NEW c \in [Node -> SUBSET Key]
  PROVE  LET f == AttachedIndex(c)
         IN  /\ DOMAIN f \subseteq Key /\ f \in [DOMAIN f -> Node]
             /\ \A k \in DOMAIN f : c[f[k]] # {} /\ Max(c[f[k]]) = k
<1> USE Zenon
<1> DEFINE filled == {n \in Node : c[n] # {}}
           D == {Max(c[n]) : n \in filled}
           f == [k \in D |-> CHOOSE n \in filled : Max(c[n]) = k]
<1>1. AttachedIndex(c) = f
  BY DEF AttachedIndex
<1>2. \A n \in filled : Max(c[n]) \in Key
  BY MaxInKey
<1>3. \A k \in D : f[k] \in filled /\ Max(c[f[k]]) = k
  BY ZenonT(60)
<1>4. DOMAIN f = D /\ D \subseteq Key
  BY <1>2
<1>5. f \in [D -> Node]
  BY <1>3
<1> HIDE DEF f, D
<1> QED  BY <1>1, <1>3, <1>4, <1>5

\* An index in which node n, with elements c, moves from key k to its maximum,
\* or is unlinked when it is drained.
Rekeyed(f, k, n, c) == IF c = {} THEN Without(f, k) ELSE With(Without(f, k), Max(c), n)

\* Its entries are the node's new one and the old ones of other keys.
LEMMA RekeyedEntries ==
  ASSUME NEW f, NEW k, NEW n, NEW c, NEW j \in DOMAIN Rekeyed(f, k, n, c)
  PROVE  \/ c # {} /\ j = Max(c) /\ Rekeyed(f, k, n, c)[j] = n
         \/ j \in DOMAIN f /\ j # k /\ Rekeyed(f, k, n, c)[j] = f[j]
<1> USE Zenon
<1>1. CASE c = {}
  BY <1>1 DEF Rekeyed, Without, Restrict
<1>2. CASE c # {}
  <2> DEFINE m == Max(c)
  <2>1. Rekeyed(f, k, n, c) = With(Without(f, k), m, n)
    BY <1>2 DEF Rekeyed
  <2> HIDE DEF m
  <2>2. \/ j = m /\ Rekeyed(f, k, n, c)[j] = n
        \/ j \in DOMAIN f /\ j # k /\ Rekeyed(f, k, n, c)[j] = f[j]
    BY <2>1 DEF With, Without, Restrict
  <2> QED  BY <1>2, <2>2 DEF m
<1> QED  BY <1>1, <1>2

\* The index after a node is re-keyed, or unlinked when it is drained.
LEMMA RekeyIndex ==
  ASSUME KeySetsCount, NEW T \in Topologies, Mirrors(T), NEW k \in DOMAIN T.index, NEW n \in Node,
         T.index[k] = n, NEW c \in SUBSET Key
  PROVE  Rekey(T, k, n, c).index = Rekeyed(T.index, k, n, c)
<1> USE Zenon
<1> DEFINE T1 == RemoveAll(T, {k})
<1>1. T1 \in Topologies /\ Mirrors(T1) /\ T1.index = Restrict(T.index, DOMAIN T.index \ {k})
  BY RemoveAllMirrors
<1>2. n \notin Range(T1.index)
  BY <1>1, MirrorsPointwise, SMTT(60) DEF Range, Restrict
<1>3. CASE c = {}
  BY <1>1, <1>3 DEF Rekey, Remove, Rekeyed, Without
<1>4. CASE c # {}
  <2>1. Max(c) \in Key
    BY <1>4, MaxInKey
  <2>2. Rekey(T, k, n, c) = Insert(T1, Max(c), n)
    BY <1>4 DEF Rekey, Remove
  <2> HIDE DEF T1
  <2>3. Insert(T1, Max(c), n).index = With(T1.index, Max(c), n)
    BY <1>1, <1>2, <2>1, InsertMirrors
  <2> QED  BY <1>1, <1>4, <2>2, <2>3 DEF Rekeyed, Without
<1> QED  BY <1>3, <1>4

\* What the index becomes when node n of key k is split into lower and upper.
SplitsIndex(T, k, n, lower, new, upper) ==
  SplitTopology(T, k, n, lower, new, upper).index =
    With(Rekeyed(T.index, k, n, lower), Max(upper), new)

\* The index after a split: the old entry makes way for one or two others.
LEMMA SplitIndex ==
  ASSUME KeySetsCount, NEW T \in Topologies, Mirrors(T), NEW k \in DOMAIN T.index, NEW n \in Node,
         T.index[k] = n, NEW lower \in SUBSET Key, NEW upper \in SUBSET Key, upper # {},
         NEW new \in Node, new \notin Range(T.index)
  PROVE  SplitsIndex(T, k, n, lower, new, upper)
<1> USE Zenon
<1> DEFINE R == Rekey(T, k, n, lower)
<1>1. R \in Topologies /\ Mirrors(R) /\ \A m \in Range(R.index) : m = n \/ m \in Range(T.index)
  BY RekeyMirrors
<1>2. R.index = Rekeyed(T.index, k, n, lower)
  BY RekeyIndex
<1>3. n \in Range(T.index)
  BY DEF Range
<1>4. SplitTopology(T, k, n, lower, new, upper) = Insert(R, Max(upper), new)
  BY DEF SplitTopology, Rekey
<1> HIDE DEF R
<1>5. Insert(R, Max(upper), new).index = With(R.index, Max(upper), new)
  BY <1>1, <1>3, MaxInKey, InsertMirrors
<1> QED  BY <1>2, <1>4, <1>5 DEF SplitsIndex

-----------------------------------------------------------------------------
(* Who holds the structural lock.                                          *)

\* A thread inside a publishing guard is alone with the topology.
LEMMA Alone ==
  ASSUME IInv, NEW t \in Thread, pc[t] \in Writing
  PROVE  /\ \A u \in Thread \ {t} : pc[u] \notin Writing \cup Reading
         /\ pc[t] \in Publishing => odd /\ unmoved = {}
         /\ pc[t] = "rekey_commit" => ~odd
         /\ pc[t] # "dirty" => root = topo.routes
<1> USE Zenon
<1>1. \A u \in Thread \ {t} : pc[u] \notin Writing \cup Reading
  BY DEF IInv, LockInv
<1>2. pc[t] \in Publishing => odd /\ unmoved = {}
  BY DEF IInv, LockInv
<1>3. pc[t] = "rekey_commit" => ~odd
  BY <1>1 DEF IInv, LockInv, Writing, Publishing
<1>4. pc[t] # "dirty" => root = topo.routes
  BY <1>1 DEF IInv, PublicationInvariant, Writing, Publishing
<1> QED  BY <1>1, <1>2, <1>3, <1>4

\* A thread that takes the structural write lock finds no other holder, an even
\* generation and mirrored routes.
LEMMA Acquire ==
  ASSUME IInv, CanWriteTopology, NEW t \in Thread
  PROVE  /\ \A u \in Thread : pc[u] \notin Writing \cup Reading
         /\ odd = FALSE /\ Mirrors(topo)
<1> USE Zenon
<1>1. \A u \in Thread : pc[u] \notin Writing \cup Reading
  BY DEF CanWriteTopology, TopologyWriters, TopologyReaders, Writing, Reading
<1>2. odd = FALSE
  BY <1>1 DEF IInv, LockInv, TypeOK, Writing
<1> QED  BY <1>1, <1>2 DEF IInv, PublicationInvariant

\* The steps that change the index.
Commits(t) ==
  PutRoot(t) \/ SplitCommit(t) \/ UpdateMax(t) \/ RemoveCommit(t) \/ RangeCommit(t) \/ AttachCommit(t)

\* What they have in common: the thread is alone with the topology and gives up
\* the entry it worked with.
LEMMA CommitFrame ==
  ASSUME IInv, NEW t \in Thread, Commits(t)
  PROVE  /\ OthersStay(t) /\ op' = op /\ pc'[t] \notin Held \cup Splitting
         /\ \A u \in Thread \ {t} : pc[u] \notin Writing \cup Reading
<1> USE Zenon
<1>1. \A u \in Thread \ {t} : pc[u] \notin Writing \cup Reading
  <2>1. CASE PutRoot(t)
    BY <2>1, Acquire, ZenonT(60) DEF PutRoot
  <2>2. CASE pc[t] \in Writing
    BY <2>2, Alone
  <2> QED  BY <2>1, <2>2, ZenonT(60)
              DEF Commits, SplitCommit, UpdateMax, RemoveCommit, RangeCommit, AttachCommit, Writing, Publishing
<1>2. OthersStay(t) /\ op' = op /\ pc'[t] \notin Held \cup Splitting
  <2> USE DEF Held, Splitting
  <2>1. CASE PutRoot(t)
    BY <2>1, ZenonT(60) DEF IInv, TypeOK, OthersStay, PutRoot, Goto
  <2>2. CASE SplitCommit(t)
    BY <2>2, ZenonT(60) DEF IInv, TypeOK, OthersStay, SplitCommit, Forget, Hold, Goto
  <2>3. CASE UpdateMax(t)
    BY <2>3, ZenonT(60) DEF IInv, TypeOK, OthersStay, UpdateMax, Forget, Hold, Goto
  <2>4. CASE RemoveCommit(t)
    BY <2>4, ZenonT(60) DEF IInv, TypeOK, OthersStay, RemoveCommit, Forget, Hold, Goto
  <2>5. CASE RangeCommit(t)
    <3>1. UNCHANGED <<op, arg, node, key, retries>>
      BY <2>5, ZenonT(60) DEF RangeCommit
    <3> QED  BY <2>5, <3>1, RangeCommitTopology, ZenonT(60) DEF OthersStay
  <2>6. CASE AttachCommit(t)
    BY <2>6, ZenonT(60) DEF IInv, TypeOK, OthersStay, AttachCommit, Goto
  <2> QED  BY <2>1, <2>2, <2>3, <2>4, <2>5, <2>6, ZenonT(60) DEF Commits
<1> QED  BY <1>1, <1>2

-----------------------------------------------------------------------------
(* What each step does to index and nodes.                                 *)

\* The steps that leave index and nodes alone: calls, returns, routing, lock
\* acquisitions, lookups and the guard's Drop.
KeepsNodes(t) ==
  \/ Call(t) \/ Return(t) \/ PutRead(t) \/ SplitWrite(t) \/ RekeyWrite(t) \/ RemoveRead(t)
  \/ RemoveWrite(t) \/ RangeWrite(t) \/ AttachWrite(t) \/ Drop(t) \/ Get(t) \/ SelectOptimistic(t)

\* They do leave them alone.
LEMMA IdleSteps ==
  ASSUME IInv, NEW t \in Thread, KeepsNodes(t)
  PROVE  Idle(t)
<1> USE DEF Goto, Hold, Forget, shared, Zenon
<1>1. CASE Call(t)
  BY <1>1 DEF IInv, TypeOK, Idle, OthersStay, Call, FirstStep, Operations
<1>2. CASE Return(t)
  BY <1>2 DEF IInv, TypeOK, Idle, OthersStay, Return
<1>3. CASE PutRead(t)
  BY <1>3 DEF IInv, TypeOK, Idle, OthersStay, PutRead, Select
<1>4. CASE SplitWrite(t)
  BY <1>4 DEF IInv, TypeOK, Idle, OthersStay, SplitWrite
<1>5. CASE RekeyWrite(t)
  BY <1>5 DEF IInv, TypeOK, Idle, OthersStay, RekeyWrite
<1>6. CASE RemoveRead(t)
  BY <1>6, ZenonT(60) DEF IInv, TypeOK, Idle, OthersStay, RemoveRead, Select
<1>7. CASE RangeWrite(t)
  BY <1>7 DEF IInv, TypeOK, Idle, OthersStay, RangeWrite
<1>8. CASE AttachWrite(t)
  BY <1>8 DEF IInv, TypeOK, Idle, OthersStay, AttachWrite
<1>9. CASE SwapRoot(t)
  BY <1>9 DEF IInv, TypeOK, Idle, OthersStay, SwapRoot
<1>10. CASE Release(t)
  BY <1>10, ZenonT(60) DEF IInv, TypeOK, Idle, OthersStay, Release
<1>11. CASE GetGeneration(t)
  BY <1>11 DEF IInv, TypeOK, Idle, OthersStay, GetGeneration, Retry
<1>12. CASE GetRoot(t)
  BY <1>12 DEF IInv, TypeOK, Idle, OthersStay, GetRoot, Select
<1>13. CASE GetLock(t)
  BY <1>13 DEF IInv, TypeOK, Idle, OthersStay, GetLock
<1>14. CASE GetCheck(t)
  BY <1>14 DEF IInv, TypeOK, Idle, OthersStay, GetCheck, Retry, Answer
<1>15. CASE GetFallback(t)
  BY <1>15, ZenonT(60) DEF IInv, TypeOK, Idle, OthersStay, GetFallback, Answer
<1>16. CASE DropRef(t)
  BY <1>16 DEF IInv, TypeOK, Idle, OthersStay, DropRef
<1>17. CASE SelectRead(t)
  BY <1>17, ZenonT(60) DEF IInv, TypeOK, Idle, OthersStay, SelectRead, Select
<1>18. CASE SelectNode(t)
  BY <1>18 DEF IInv, TypeOK, Idle, OthersStay, SelectNode
<1>19. CASE RemoveWrite(t)
  BY <1>19, ZenonT(60) DEF IInv, TypeOK, Idle, OthersStay, RemoveWrite, Select
<1> QED  BY <1>1, <1>2, <1>3, <1>4, <1>5, <1>6, <1>7, <1>8, <1>9, <1>10, <1>11, <1>12, <1>13, <1>14,
            <1>15, <1>16, <1>17, <1>18, <1>19, ZenonT(60) DEF KeepsNodes, Drop, Get, SelectOptimistic

\* A step that leaves index and nodes alone, keeps a repair that is due, and
\* routes where it takes the structural lock.
Undisturbed(t) ==
  /\ OthersStay(t) /\ topo' = topo /\ contents' = contents
  /\ Repairing(t) => pc'[t] = "rekey_commit" /\ node'[t] = node[t] /\ key'[t] = key[t] /\ op'[t] = op[t]
  /\ pc'[t] \in Held => EntryIsCurrent(t)' /\ Covers(topo'.index, arg'[t], key'[t])

\* They also keep repairs that are due, and route under the structural lock.
LEMMA UndisturbedSteps ==
  ASSUME IInv, NEW t \in Thread, KeepsNodes(t)
  PROVE  Undisturbed(t)
<1> USE Zenon
<1>1. OthersStay(t) /\ topo' = topo /\ contents' = contents
  BY IdleSteps DEF Idle
<1>2. TypeOK /\ t \in DOMAIN pc
  BY DEF IInv, TypeOK
<1>3. CASE RekeyWrite(t)
  BY <1>1, <1>2, <1>3 DEF Undisturbed, Repairing, RekeyWrite, Goto, Held
<1>4. CASE PutRead(t) \/ RemoveRead(t) \/ RemoveWrite(t)
  <2>1. ~Repairing(t) /\ Select(t, topo.index, arg[t]) /\ arg' = arg
    BY <1>4, ZenonT(60) DEF Repairing, PutRead, RemoveRead, RemoveWrite
  <2>2. pc'[t] \in Held => DOMAIN topo.index # {}
    BY <1>2, <1>4, ZenonT(60) DEF PutRead, RemoveRead, RemoveWrite, Goto, Held
  <2>3. DOMAIN topo.index # {} => /\ key'[t] \in DOMAIN topo.index /\ topo.index[key'[t]] = node'[t]
                                  /\ Covers(topo.index, arg[t], key'[t])
    BY <1>2, <2>1, SelectCovers
  <2> QED  BY <1>1, <2>1, <2>2, <2>3 DEF Undisturbed, EntryIsCurrent
<1>5. CASE Call(t)
  BY <1>1, <1>2, <1>5 DEF Undisturbed, Repairing, Call, Goto, Held, FirstStep, Operations
<1>6. CASE Return(t) \/ SplitWrite(t) \/ RangeWrite(t) \/ AttachWrite(t)
  BY <1>1, <1>2, <1>6
     DEF Undisturbed, Repairing, Held, Return, SplitWrite, RangeWrite, AttachWrite, Goto
<1>7. CASE Drop(t)
  <2>1. op[t] \in {"insert", "remove", "remove_range", "attach_node"}
    BY <1>2, <1>7, LabelOperation DEF Drop, SwapRoot, Release
  <2> QED  BY <1>1, <1>2, <1>7, <2>1
              DEF Undisturbed, Repairing, Held, Drop, SwapRoot, Release, Goto, FirstStep
<1>8. CASE Get(t)
  <2>1. ~Repairing(t) /\ pc'[t] \notin Held
    <3>1. CASE GetGeneration(t) \/ GetRoot(t) \/ GetLock(t) \/ DropRef(t)
      BY <1>2, <3>1 DEF Repairing, Held, GetGeneration, GetRoot, GetLock, DropRef, Retry, Goto
    <3>2. CASE GetCheck(t)
      BY <1>2, <3>2, ZenonT(60) DEF Repairing, Held, GetCheck, Answer, Retry, Goto
    <3>3. CASE GetFallback(t)
      BY <1>2, <3>3, ZenonT(60) DEF Repairing, Held, GetFallback, Answer, Goto
    <3> QED  BY <1>8, <3>1, <3>2, <3>3 DEF Get
  <2> QED  BY <1>1, <2>1 DEF Undisturbed
<1>9. CASE SelectOptimistic(t)
  <2>1. ~Repairing(t) /\ pc'[t] \notin Held
    BY <1>2, <1>9, ZenonT(60) DEF Repairing, Held, SelectOptimistic, SelectRead, SelectNode, Goto
  <2> QED  BY <1>1, <2>1 DEF Undisturbed
<1> QED  BY <1>3, <1>4, <1>5, <1>6, <1>7, <1>8, <1>9, ZenonT(60) DEF KeepsNodes

RepairsNext(t, n, k) ==
  pc'[t] \in {"rekey_write", "rekey_commit"} /\ node'[t] = n /\ key'[t] = k

\* What a thread does to its node under the node's write guard.
LEMMA NodeStepFrame ==
  ASSUME IInv, NEW t \in Thread, PutNode(t) \/ RemoveNode(t)
  PROVE  /\ OthersStay(t) /\ topo' = topo /\ node[t] \in Node /\ arg[t] \in Key /\ key[t] \in Key
         /\ pc[t] \in Held /\ ~Repairing(t) /\ pc'[t] \notin Held /\ op' = op /\ arg' = arg
         /\ RepairsNext(t, node[t], key[t]) \/ pc'[t] \notin {"rekey_write", "rekey_commit"}
         /\ contents' \in [Node -> SUBSET Key] /\ \A m \in Node \ {node[t]} : contents'[m] = contents[m]
<1> USE Zenon
<1>1. node[t] \in Node /\ arg[t] \in Key /\ key[t] \in Key
  BY LabelOperation, ZenonT(60) DEF IInv, PutNode, RemoveNode, AtNode, AtEntry
<1>2. contents[node[t]] \cup {arg[t]} \in SUBSET Key /\ contents[node[t]] \ {arg[t]} \in SUBSET Key
  BY <1>1 DEF IInv, TypeOK
<1>3. UNCHANGED contents \/ \E c \in SUBSET Key : Store(node[t], c)
  BY <1>2, ZenonT(60) DEF PutNode, RemoveNode
<1>4. contents' \in [Node -> SUBSET Key] /\ \A m \in Node \ {node[t]} : contents'[m] = contents[m]
  BY <1>1, <1>3 DEF IInv, TypeOK, Store
<1>5. CASE PutNode(t)
  BY <1>1, <1>4, <1>5, ZenonT(60)
     DEF IInv, TypeOK, OthersStay, PutNode, Forget, Hold, Goto, Held, Repairing, RepairsNext
<1>6. CASE RemoveNode(t)
  BY <1>1, <1>4, <1>6, ZenonT(60)
     DEF IInv, TypeOK, OthersStay, RemoveNode, Forget, Hold, Goto, Held, Repairing, RepairsNext
<1> QED  BY <1>5, <1>6

\* What SplitCommit does when it finds its entry.
Splits(t, left, right) ==
  /\ EntryIsCurrent(t) /\ FreeNodes # {}
  /\ contents' = [contents EXCEPT ![node[t]] = left, ![NewNode] = right]
  /\ topo' = SplitTopology(topo, key[t], node[t], left, NewNode, right)

SplitLeft(t) ==
  LET lower == LowerHalf(contents[node[t]])
  IN  IF RidesLow(lower, arg[t]) THEN lower \cup {arg[t]} ELSE lower

SplitRight(t) ==
  LET c == contents[node[t]]
      lower == LowerHalf(c)
  IN  IF RidesLow(lower, arg[t]) THEN c \ lower ELSE (c \ lower) \cup {arg[t]}

\* With the riding value in its half, all of the left node is below all of the right.
LEMMA LeftIsBelow ==
  ASSUME KeySetsCount, NEW t, contents[node[t]] \in SUBSET Key, arg[t] \in Key, NEW x \in SplitLeft(t), NEW y \in SplitRight(t)
  PROVE  x < y
<1> USE Zenon
<1> DEFINE c == contents[node[t]]
           v == arg[t]
           lower == LowerHalf(c)
           m == Max(lower)
<1>1. lower \in SUBSET Key /\ (lower # {} => m \in lower /\ \A w \in lower : w <= m)
  <2>1. lower \in SUBSET Key
    BY DEF LowerHalf
  <2> HIDE DEF lower
  <2> QED  BY <2>1, MaxIsGreatest
<1>2. \A w \in lower : \A z \in c \ lower : w < z
  BY LowerIsBelow
<1>3. v \in Int /\ \A w \in c \cup lower : w \in Int
  BY <1>1, KeysAreIntegers
<1>4. (RidesLow(lower, v) <=> lower # {} /\ v <= m)
  BY DEF RidesLow
<1>5. x \in IF RidesLow(lower, v) THEN lower \cup {v} ELSE lower
  BY DEF SplitLeft
<1>6. y \in IF RidesLow(lower, v) THEN c \ lower ELSE (c \ lower) \cup {v}
  BY DEF SplitRight
<1> HIDE DEF c, v, m, lower
<1> QED  BY <1>1, <1>2, <1>3, <1>4, <1>5, <1>6, SMTT(60)

\* A split puts two sets of values in two nodes, or changes nothing.
LEMMA SplitEffect ==
  ASSUME IInv, NEW t \in Thread, SplitCommit(t)
  PROVE  /\ ~Repairing(t) /\ node[t] \in Node /\ arg[t] \in Key /\ key[t] \in Key
         /\ SplitLeft(t) \in SUBSET Key /\ SplitRight(t) \in SUBSET Key
         /\ \/ UNCHANGED <<topo, contents, res>> /\ (~EntryIsCurrent(t) \/ contents[node[t]] = {})
            \/ /\ Splits(t, SplitLeft(t), SplitRight(t)) /\ contents[node[t]] # {} /\ SplitRight(t) # {}
               /\ Decide(t, arg[t] \notin contents[node[t]])
<1> USE Zenon
<1>1. node[t] \in Node /\ arg[t] \in Key /\ key[t] \in Key /\ ~Repairing(t)
  BY LabelOperation, ZenonT(60) DEF IInv, SplitCommit, AtNode, AtEntry, Repairing
<1>2. contents[node[t]] \in SUBSET Key /\ LowerHalf(contents[node[t]]) \in SUBSET Key
  BY <1>1 DEF IInv, TypeOK, LowerHalf
<1>3. SplitLeft(t) \in SUBSET Key /\ SplitRight(t) \in SUBSET Key
  BY <1>1, <1>2 DEF SplitLeft, SplitRight
<1>4. contents[node[t]] # {} => SplitRight(t) # {}
  BY <1>1, <1>2, UpperHalf, ZenonT(60) DEF IInv, SplitRight
<1>5. \/ UNCHANGED <<topo, contents, res>> /\ (~EntryIsCurrent(t) \/ contents[node[t]] = {})
      \/ Splits(t, SplitLeft(t), SplitRight(t)) /\ contents[node[t]] # {}
         /\ Decide(t, arg[t] \notin contents[node[t]])
  BY ZenonT(60) DEF SplitCommit, Splits, SplitLeft, SplitRight
<1> QED  BY <1>1, <1>3, <1>4, <1>5

\* The index and the nodes after a split.
SplitOutcome(t, left, right) ==
  /\ NewNode \in Node /\ NewNode \notin Range(topo.index) /\ NewNode # node[t]
  /\ \A u \in Thread : node[u] # NewNode
  /\ key[t] \in DOMAIN topo.index /\ topo.index[key[t]] = node[t]
  /\ topo' \in Topologies
  /\ topo'.index = With(Rekeyed(topo.index, key[t], node[t], left), Max(right), NewNode)
  /\ contents' \in [Node -> SUBSET Key]
  /\ contents'[node[t]] = left /\ contents'[NewNode] = right
  /\ \A n \in Node \ {node[t], NewNode} : contents'[n] = contents[n]

\* A split links both halves under their maxima.
LEMMA SplitResult ==
  ASSUME IInv, NEW t \in Thread, node[t] \in Node, NEW left \in SUBSET Key, NEW right \in SUBSET Key,
         right # {}, Splits(t, left, right)
  PROVE  SplitOutcome(t, left, right)
<1> USE Zenon
<1>0. KeySetsCount
  BY DEF IInv
<1> USE <1>0
<1>1. NewNode \in Node /\ NewNode \notin Range(topo.index) /\ NewNode # node[t] /\ \A u \in Thread : node[u] # NewNode
  BY NewNodeIsFree DEF IInv, Splits
<1>2. key[t] \in DOMAIN topo.index /\ topo.index[key[t]] = node[t]
  BY DEF Splits, EntryIsCurrent
<1>3. topo' = SplitTopology(topo, key[t], node[t], left, NewNode, right)
      /\ contents' = [contents EXCEPT ![node[t]] = left, ![NewNode] = right]
  BY DEF Splits
<1>4. topo' \in Topologies
  BY <1>1, <1>2, <1>3, IndexTypes, SplitMirrors
<1>5. topo'.index = With(Rekeyed(topo.index, key[t], node[t], left), Max(right), NewNode)
  <2>1. topo \in Topologies /\ Mirrors(topo)
    BY IndexTypes
  <2> DEFINE k == key[t]
             n == node[t]
             m == NewNode
  <2>2. k \in DOMAIN topo.index /\ topo.index[k] = n /\ n \in Node /\ m \in Node /\ m \notin Range(topo.index)
    BY <1>1, <1>2
  <2> HIDE DEF k, n, m
  <2>3. SplitsIndex(topo, k, n, left, m, right)
    BY <2>1, <2>2, SplitIndex
  <2> QED  BY <1>3, <2>3 DEF SplitsIndex, k, n, m
<1>6. /\ contents' \in [Node -> SUBSET Key]
      /\ contents'[node[t]] = left /\ contents'[NewNode] = right
      /\ \A n \in Node \ {node[t], NewNode} : contents'[n] = contents[n]
  BY <1>1, <1>3, IndexTypes
<1> QED  BY <1>1, <1>2, <1>4, <1>5, <1>6 DEF SplitOutcome

\* What UpdateMax does when the key is stale: the node moves to its maximum.
LEMMA UpdateMaxEffect ==
  ASSUME IInv, IInv', NEW t \in Thread, UpdateMax(t)
  PROVE  /\ pc[t] = "rekey_commit" /\ node[t] \in Node /\ key[t] \in Key
         /\ contents' = contents /\ res' = res /\ op' = op /\ arg' = arg /\ topo' \in Topologies
         /\ \/ ~NeedsRekey(t) /\ topo' = topo
            \/ NeedsRekey(t) /\ topo'.index = Rekeyed(topo.index, key[t], node[t], contents[node[t]])
<1> USE Zenon
<1>0. KeySetsCount
  BY DEF IInv
<1> USE <1>0
<1> DEFINE n == node[t]
<1>1. pc[t] = "rekey_commit" /\ contents' = contents /\ res' = res /\ op' = op /\ arg' = arg
  BY ZenonT(60) DEF UpdateMax
<1>2. node[t] \in Node /\ key[t] \in Key
  BY <1>1, LabelOperation, ZenonT(60) DEF IInv, AtNode, AtEntry
<1>3. topo' \in Topologies
  BY DEF IInv, TypeOK
<1>4. CASE ~NeedsRekey(t)
  BY <1>1, <1>2, <1>3, <1>4, ZenonT(60) DEF UpdateMax
<1>5. CASE NeedsRekey(t)
  <2>1. contents[n] \in SUBSET Key /\ contents[n] # {} /\ key[t] \in DOMAIN topo.index /\ topo.index[key[t]] = n
    BY <1>2, <1>5, IndexTypes DEF NeedsRekey, EntryIsCurrent
  <2>2. CASE topo' = RekeyLastNode(topo, key[t], Max(contents[n]), n)
    <3>1. topo'.index = With(Without(topo.index, key[t]), Max(contents[n]), n)
      BY <2>2, IndexTypes, TopologyFields, SMT DEF RekeyLastNode
    <3> QED  BY <1>1, <1>2, <1>3, <1>5, <2>1, <3>1 DEF Rekeyed
  <2>3. CASE topo' = Insert(Remove(topo, key[t]), Max(contents[n]), n)
    <3>1. topo' = Rekey(topo, key[t], n, contents[n])
      BY <2>1, <2>3 DEF Rekey
    <3>2. topo'.index = Rekeyed(topo.index, key[t], n, contents[n])
      <4>1. topo \in Topologies /\ Mirrors(topo)
        BY IndexTypes
      <4>2. Rekey(topo, key[t], n, contents[n]).index = Rekeyed(topo.index, key[t], n, contents[n])
        BY <1>2, <2>1, <4>1, RekeyIndex
      <4> QED  BY <3>1, <4>2
    <3> QED  BY <1>1, <1>2, <1>3, <1>5, <3>2
  <2> QED  BY <1>5, <2>2, <2>3, ZenonT(60) DEF UpdateMax
<1> QED  BY <1>4, <1>5

\* What RemoveCommit does: nothing, or it unlinks a node with its only element.
LEMMA RemoveCommitEffect ==
  ASSUME IInv, IInv', SInv, NEW t \in Thread, RemoveCommit(t)
  PROVE  /\ ~Repairing(t) /\ node[t] \in Node /\ arg[t] \in Key
         /\ key[t] \in DOMAIN topo.index /\ topo.index[key[t]] = node[t] /\ Covers(topo.index, arg[t], key[t])
         /\ topo' \in Topologies /\ contents' \in [Node -> SUBSET Key]
         /\ \/ UNCHANGED <<topo, contents>>
            \/ /\ contents[node[t]] = {arg[t]} /\ contents'[node[t]] = {}
               /\ \A n \in Node \ {node[t]} : contents'[n] = contents[n]
               /\ topo'.index = Rekeyed(topo.index, key[t], node[t], {})
<1> USE Zenon
<1>1. ~Repairing(t) /\ node[t] \in Node /\ arg[t] \in Key
  BY LabelOperation, ZenonT(60) DEF IInv, RemoveCommit, AtNode, Repairing
<1>2. key[t] \in DOMAIN topo.index /\ topo.index[key[t]] = node[t] /\ Covers(topo.index, arg[t], key[t])
  BY DEF SInv, HeldInv, Held, EntryIsCurrent, RemoveCommit
<1>3. topo' \in Topologies /\ contents' \in [Node -> SUBSET Key]
  BY DEF IInv, TypeOK
<1>4. CASE UNCHANGED <<topo, contents>>
  BY <1>1, <1>2, <1>3, <1>4
<1>5. CASE /\ Cardinality(contents[node[t]]) <= 1 /\ arg[t] \in contents[node[t]]
           /\ Store(node[t], contents[node[t]] \ {arg[t]}) /\ topo' = Remove(topo, key[t])
  <2>1. contents[node[t]] = {arg[t]}
    <3>1. contents[node[t]] \in SUBSET Key
      BY <1>1, IndexTypes
    <3> DEFINE rest == contents[node[t]] \ {arg[t]}
    <3> SUFFICES ASSUME NEW w \in rest PROVE FALSE
      BY <1>5
    <3>2. Cardinality(rest) = Cardinality(contents[node[t]]) - 1 /\ Cardinality(contents[node[t]]) \in Nat
      BY <1>5, <3>1 DEF IInv, KeySetsCount
    <3>3. Cardinality(rest \ {w}) = Cardinality(rest) - 1 /\ Cardinality(rest \ {w}) \in Nat
      BY <3>1 DEF IInv, KeySetsCount
    <3> QED  BY <1>5, <3>2, <3>3, SMT
  <2>2. contents'[node[t]] = {} /\ \A n \in Node \ {node[t]} : contents'[n] = contents[n]
    BY <1>1, <1>5, <2>1, IndexTypes DEF Store
  <2>3. topo'.index = Rekeyed(topo.index, key[t], node[t], {})
    <3>1. topo \in Topologies /\ Mirrors(topo)
      BY IndexTypes
    <3>2. RemoveAll(topo, {key[t]}).index = Restrict(topo.index, DOMAIN topo.index \ {key[t]})
      BY <3>1, RemoveAllMirrors
    <3> QED  BY <1>5, <3>2 DEF Remove, Rekeyed, Without
  <2> QED  BY <1>1, <1>2, <1>3, <2>1, <2>2, <2>3
<1> QED  BY <1>4, <1>5, ZenonT(60) DEF RemoveCommit

\* What remove_range does to a range inside one node.
OneNodeOutcome(t, k) ==
  LET n    == topo.index[k]
      left == contents[n] \ Inside(contents[n], arg[t])
  IN  /\ contents'[n] = left /\ \A m \in Node \ {n} : contents'[m] = contents[m]
      /\ \/ topo' = topo /\ left # {} /\ Max(left) = Max(contents[n])
         \/ topo'.index = Rekeyed(topo.index, k, n, left)

\* What it does to a range over several nodes.
Between(fk, bk) == {k \in DOMAIN topo.index : fk < k /\ k < bk}

Kept(t, fk) == {x \in contents[topo.index[fk]] : x < arg[t].lo}

Trail(t, bk) == {x \in contents[topo.index[bk]] : arg[t].hi < x \/ (~arg[t].closed /\ arg[t].hi = x)}

Trimmed(t, fk, bk) ==
  Rekeyed(Restrict(topo.index, DOMAIN topo.index \ Between(fk, bk)), fk, topo.index[fk], Kept(t, fk))

SeveralNodesOutcome(t, fk, bk) ==
  /\ contents' = [n \in Node |-> IF n = topo.index[fk] THEN Kept(t, fk)
                                ELSE IF n = topo.index[bk] THEN Trail(t, bk)
                                ELSE IF n \in {topo.index[k] : k \in Between(fk, bk)} THEN {} ELSE contents[n]]
  /\ topo'.index = IF Trail(t, bk) = {} THEN Without(Trimmed(t, fk, bk), bk) ELSE Trimmed(t, fk, bk)

\* A range that lies in one node is cut out of it; the maximum stays, or the
\* node is re-keyed or unlinked.
LEMMA OneNodeEffect ==
  ASSUME IInv, SInv, NEW t \in Thread, NEW k \in DOMAIN topo.index, RangeInOneNode(t, k)
  PROVE  OneNodeOutcome(t, k)
<1> USE Zenon
<1>0. KeySetsCount
  BY DEF IInv
<1> USE <1>0
<1> DEFINE n    == topo.index[k]
           gone == Inside(contents[n], arg[t])
           left == contents[n] \ gone
<1>1. n \in Node /\ contents[n] \in SUBSET Key /\ contents[n] # {} /\ left \in SUBSET Key
  BY IndexTypes DEF SInv, RepairInv, EntryRepaired
<1>2. contents' = [contents EXCEPT ![n] = left]
  BY DEF RangeInOneNode, Store
<1>3. contents'[n] = left /\ \A m \in Node \ {n} : contents'[m] = contents[m]
  BY <1>1, <1>2, IndexTypes
<1>4. CASE topo' = Rekey(topo, k, n, left)
  <2> HIDE DEF left, n
  <2>1. n = topo.index[k] /\ n \in Node
    BY <1>1 DEF n
  <2>2. topo'.index = Rekeyed(topo.index, k, n, left)
    <3>1. topo \in Topologies /\ Mirrors(topo)
      BY IndexTypes
    <3>2. Rekey(topo, k, n, left).index = Rekeyed(topo.index, k, n, left)
      BY <1>1, <2>1, <3>1, RekeyIndex
    <3> QED  BY <1>4, <3>2
  <2> QED  BY <1>3, <2>2 DEF n, left, OneNodeOutcome
<1>5. CASE ~(gone # {} /\ Max(contents[n]) \in gone) /\ UNCHANGED topo
  <2>1. Max(contents[n]) \in contents[n] /\ \A y \in contents[n] : y <= Max(contents[n])
    BY <1>1, MaxIsGreatest
  <2>2. Max(contents[n]) \in left
    BY <1>5, <2>1
  <2> HIDE DEF left
  <2>3. Max(left) = Max(contents[n])
    <3>1. left \subseteq contents[n]
      BY DEF left
    <3> QED  BY <1>1, <2>1, <2>2, <3>1, MaxIs
  <2> QED  BY <1>3, <1>5, <2>2, <2>3, ZenonT(60) DEF OneNodeOutcome, left
<1> QED  BY <1>4, <1>5 DEF RangeInOneNode

\* A range over several nodes is trimmed off its first and last node, and the
\* nodes between them are unlinked.
LEMMA SeveralNodesEffect ==
  ASSUME IInv, SInv, NEW t \in Thread, NEW fk \in DOMAIN topo.index, NEW bk \in DOMAIN topo.index,
         fk < bk, RangeAcrossNodes(t, fk, bk)
  PROVE  SeveralNodesOutcome(t, fk, bk)
<1> USE Zenon
<1>0. KeySetsCount
  BY DEF IInv
<1> USE <1>0
<1> DEFINE front == topo.index[fk]
           kept  == Kept(t, fk)
           T0    == RemoveAll(topo, Between(fk, bk))
           T1    == Rekey(T0, fk, front, kept)
           f     == Restrict(topo.index, DOMAIN topo.index \ Between(fk, bk))
<1>1. /\ contents' = [n \in Node |-> IF n = topo.index[fk] THEN Kept(t, fk)
                                ELSE IF n = topo.index[bk] THEN Trail(t, bk)
                                ELSE IF n \in {topo.index[k] : k \in Between(fk, bk)} THEN {} ELSE contents[n]]
      /\ topo' = IF Trail(t, bk) = {} THEN Remove(T1, bk) ELSE T1
  BY ZenonT(60) DEF RangeAcrossNodes, Kept, Trail, Between
<1>2. front \in Node /\ kept \in SUBSET Key /\ fk \in Int
  BY IndexTypes, MaxKeyAssumption, SMTT(60) DEF Kept, Key
<1>3. T0 \in Topologies /\ Mirrors(T0) /\ T0.index = f
  BY IndexTypes, RemoveAllMirrors, ZenonT(60)
<1>4. fk \in DOMAIN T0.index /\ T0.index[fk] = front
  BY <1>2, <1>3, SMTT(60) DEF Restrict, Between
<1> HIDE DEF T0, kept, front, f
<1>5. T1 \in Topologies /\ Mirrors(T1) /\ T1.index = Rekeyed(f, fk, front, kept)
  <2>1. T1 \in Topologies /\ Mirrors(T1)
    BY <1>2, <1>3, <1>4, RekeyMirrors, ZenonT(60)
  <2>2. T1.index = Rekeyed(T0.index, fk, front, kept)
    BY <1>2, <1>3, <1>4, RekeyIndex
  <2> QED  BY <1>3, <2>1, <2>2
<1>6. T1.index = Trimmed(t, fk, bk)
  BY <1>5 DEF Trimmed, f, front, kept
<1> HIDE DEF T1
<1>7. Remove(T1, bk).index = Without(Trimmed(t, fk, bk), bk)
  BY <1>5, <1>6, RemoveAllMirrors, ZenonT(60) DEF Remove, Without
<1> QED  BY <1>1, <1>6, <1>7 DEF SeveralNodesOutcome

\* The three outcomes of a range removal, with the entries it works with.
LEMMA RangeCases ==
  ASSUME IInv, SInv, NEW t \in Thread, RangeCommit(t)
  PROVE  LET f == topo.index
             r == arg[t]
         IN  \/ /\ UNCHANGED <<topo, contents>>
                /\ \A fk, bk \in DOMAIN f : ~(IsFront(f, r.lo, fk) /\ Covers(f, r.hi, bk) /\ fk <= bk)
             \/ \E k \in DOMAIN f : IsFront(f, r.lo, k) /\ Covers(f, r.hi, k) /\ OneNodeOutcome(t, k)
             \/ \E fk, bk \in DOMAIN f : /\ fk < bk /\ IsFront(f, r.lo, fk) /\ Covers(f, r.hi, bk)
                                         /\ SeveralNodesOutcome(t, fk, bk)
<1> USE Zenon
<1>1. CASE /\ UNCHANGED <<topo, contents>>
           /\ \A fk, bk \in DOMAIN topo.index :
                ~(IsFront(topo.index, arg[t].lo, fk) /\ Covers(topo.index, arg[t].hi, bk) /\ fk <= bk)
  BY <1>1
<1>2. ASSUME NEW k \in DOMAIN topo.index, IsFront(topo.index, arg[t].lo, k), Covers(topo.index, arg[t].hi, k),
             RangeInOneNode(t, k)
      PROVE  OneNodeOutcome(t, k)
  BY <1>2, OneNodeEffect
<1>3. ASSUME NEW fk \in DOMAIN topo.index, NEW bk \in DOMAIN topo.index, fk < bk,
             IsFront(topo.index, arg[t].lo, fk), Covers(topo.index, arg[t].hi, bk), RangeAcrossNodes(t, fk, bk)
      PROVE  SeveralNodesOutcome(t, fk, bk)
  BY <1>3, SeveralNodesEffect
<1> QED  BY <1>1, <1>2, <1>3, ZenonT(60) DEF RangeCommit

\* A reader whose generation is still current has locked the node that the
\* canonical index routes its value to.
LEMMA ReadIsDefinitive == IInv => ValidatedReadIsDefinitive
<1> USE Zenon
<1> SUFFICES ASSUME IInv, NEW t \in Thread, pc[t] = "get_check", t \in unmoved
             PROVE  IF node[t] = None THEN DOMAIN topo.index = {}
                    ELSE \E k \in DOMAIN topo.index :
                           Covers(topo.index, arg[t], k) /\ topo.index[k] = node[t]
  BY DEF ValidatedReadIsDefinitive
<1>1. RoutedBy(root, arg[t], node[t])
  BY DEF IInv, ReaderInv
<1>2. root = topo.routes
  BY DEF IInv, LockInv, PublicationInvariant, Publishing
<1>3. topo \in Topologies /\ Mirrors(topo) /\ arg[t] \in Int
  <2>1. arg[t] \in Key
    BY LabelOperation DEF IInv
  <2> QED  BY <2>1, IndexTypes, KeysAreIntegers
<1>4. CASE node[t] = None
  BY <1>1, <1>2, <1>3, <1>4, EmptyTogether, ZenonT(60) DEF RoutedBy
<1>5. CASE node[t] # None
  <2>1. PICK p \in DOMAIN topo.routes : Covers(topo.routes, arg[t], p) /\ topo.routes[p] = node[t]
    BY <1>1, <1>2, <1>5 DEF RoutedBy
  <2>2. \E k \in DOMAIN topo.index : Covers(topo.index, arg[t], k) /\ topo.index[k] = topo.routes[p]
    BY <1>3, <2>1, RoutesAgree
  <2> QED  BY <1>5, <2>1, <2>2
<1> QED  BY <1>4, <1>5

-----------------------------------------------------------------------------
(* Outcomes.                                                               *)

\* Every step decides an outcome at most once, and no call returns without one.
LEMMA OutcomeStep ==
  ASSUME IInv, ResInv, NEW t \in Thread, Call(t) \/ Step(t)
  PROVE  ResInv' /\ \A u \in Thread \ {t} : res'[u] = res[u]
<1> USE Zenon
<1>0. /\ DOMAIN pc = Thread /\ res \in [Thread -> BOOLEAN \cup {None}] /\ TypeOK /\ ResOK(t)
      /\ \A r \in BOOLEAN : r # None
  BY NoneAssumption, ZenonT(60) DEF IInv, TypeOK, ResInv
<1> SUFFICES (\A u \in Thread \ {t} : pc'[u] = pc[u] /\ res'[u] = res[u]) /\ ResOK(t)'
  BY <1>0, ZenonT(60) DEF ResInv, ResOK
<1> USE DEF Pending, Undecided, Decided, ResOK, Goto, Decide
<1>1. CASE Call(t)
  <2>1. res' = res /\ \E o \in Operations : Goto(t, FirstStep(o))
    BY <1>1, ZenonT(60) DEF Call
  <2>2. pc[t] = "idle"
    BY <1>1 DEF Call
  <2> QED  BY <1>0, <2>1, <2>2 DEF FirstStep, Operations
<1>2. CASE Return(t)
  BY <1>0, <1>2, ZenonT(60) DEF Return
<1>3. CASE PutRead(t)
  BY <1>0, <1>3, ZenonT(60) DEF PutRead
<1>4. CASE PutRoot(t)
  BY <1>0, <1>4, ZenonT(60) DEF PutRoot
<1>5. CASE PutNode(t)
  BY <1>0, <1>5, ZenonT(60) DEF PutNode
<1>6. CASE SplitWrite(t) \/ RekeyWrite(t) \/ RangeWrite(t) \/ AttachWrite(t)
  BY <1>0, <1>6, ZenonT(60) DEF SplitWrite, RekeyWrite, RangeWrite, AttachWrite, shared
<1>7. CASE SplitCommit(t)
  <2>1. pc[t] = "split_commit"
        /\ ((Goto(t, "clean") /\ res' = res) \/ \E r \in BOOLEAN : Decide(t, r) /\ Goto(t, "dirty"))
    BY <1>7, ZenonT(60) DEF SplitCommit
  <2> QED  BY <1>0, <2>1, ZenonT(60)
<1>8. CASE UpdateMax(t)
  <2>1. pc[t] = "rekey_commit" /\ res' = res /\ (Goto(t, "done") \/ Goto(t, "dirty"))
    BY <1>8, ZenonT(60) DEF UpdateMax
  <2> QED  BY <1>0, <2>1, ZenonT(60)
<1>9. CASE RemoveRead(t)
  BY <1>0, <1>9, ZenonT(60) DEF RemoveRead
<1>10. CASE RemoveNode(t)
  BY <1>0, <1>10, ZenonT(60) DEF RemoveNode
<1>11. CASE RemoveWrite(t)
  BY <1>0, <1>11, ZenonT(60) DEF RemoveWrite
<1>12. CASE RemoveCommit(t)
  BY <1>0, <1>12, ZenonT(60) DEF RemoveCommit
<1>13. CASE RangeCommit(t)
  <2>1. Decide(t, TRUE) /\ (pc'[t] = "clean" \/ pc'[t] = "dirty") /\ \A u \in Thread \ {t} : pc'[u] = pc[u]
    BY <1>13, RangeCommitTopology, ZenonT(60) DEF RangeCommit
  <2> QED  BY <1>0, <2>1, ZenonT(60)
<1>14. CASE AttachCommit(t)
  <2>1. Decide(t, Fits(arg[t])) /\ Fits(arg[t]) \in BOOLEAN /\ (Goto(t, "clean") \/ Goto(t, "dirty"))
    BY <1>14, ZenonT(60) DEF AttachCommit, Fits
  <2> QED  BY <1>0, <2>1, ZenonT(60)
<1>15. CASE SwapRoot(t)
  BY <1>0, <1>15, ZenonT(60) DEF SwapRoot
<1>16. CASE Release(t)
  <2>1. op[t] \in {"insert", "remove", "remove_range", "attach_node"}
    BY <1>0, <1>16, LabelOperation DEF Release
  <2>2. FirstStep(op[t]) \in {"put_read", "remove_read", "range_write", "attach_write"}
    BY <2>1 DEF FirstStep
  <2> QED  BY <1>0, <1>16, <2>2, ZenonT(60) DEF Release
<1>17. CASE GetGeneration(t) \/ GetRoot(t) \/ GetLock(t) \/ DropRef(t)
  BY <1>0, <1>17, ZenonT(60) DEF GetGeneration, GetRoot, GetLock, DropRef, Retry
<1>18. CASE GetCheck(t)
  <2>1. CASE Retry(t) /\ res' = res /\ pc[t] = "get_check"
    BY <1>0, <2>1, ZenonT(60) DEF Retry
  <2>2. ASSUME NEW n, NEW r \in BOOLEAN, Answer(t, n, r)
        PROVE  (\A u \in Thread \ {t} : pc'[u] = pc[u] /\ res'[u] = res[u]) /\ ResOK(t)'
    BY <1>0, <2>2, ZenonT(60) DEF Answer
  <2> QED  BY <1>18, <2>1, <2>2, ZenonT(60) DEF GetCheck
<1>19. CASE GetFallback(t)
  <2>2. ASSUME NEW n, NEW r \in BOOLEAN, Answer(t, n, r)
        PROVE  (\A u \in Thread \ {t} : pc'[u] = pc[u] /\ res'[u] = res[u]) /\ ResOK(t)'
    BY <1>0, <2>2, ZenonT(60) DEF Answer
  <2>3. CASE Answer(t, None, FALSE)
    BY <2>2, <2>3
  <2>4. ASSUME NEW k, Answer(t, topo.index[k], arg[t] \in contents[topo.index[k]])
        PROVE  (\A u \in Thread \ {t} : pc'[u] = pc[u] /\ res'[u] = res[u]) /\ ResOK(t)'
    <3>1. (arg[t] \in contents[topo.index[k]]) \in BOOLEAN
      BY SMT
    <3> QED  BY <2>2, <2>4, <3>1
  <2> QED  BY <1>19, <2>3, <2>4 DEF GetFallback
<1>20. CASE SelectRead(t)
  BY <1>0, <1>20, ZenonT(60) DEF SelectRead
<1>21. CASE SelectNode(t)
  <2> DEFINE r == arg[t] \in contents[node[t]]
  <2>1. r \in BOOLEAN /\ Decide(t, r) /\ Goto(t, "done")
    BY <1>21, SMT DEF SelectNode
  <2> HIDE DEF r
  <2> QED  BY <1>0, <2>1, ZenonT(60)
<1> QED  BY <1>1, <1>2, <1>3, <1>4, <1>5, <1>6, <1>7, <1>8, <1>9, <1>10, <1>11, <1>12, <1>13, <1>14, <1>15,
            <1>16, <1>17, <1>18, <1>19, <1>20, <1>21
            DEF Step, Put, Commit, Delete, RemoveRange, Attach, Drop, Get, SelectOptimistic

-----------------------------------------------------------------------------
(* With one inserting thread.                                              *)

\* An element above its node's key is there because the inserting thread has
\* yet to repair the key.
LEMMA InserterElsewhere ==
  ASSUME OneInserter, IInv, SInv, RInv, NEW t \in Thread, t \in Inserters, ~Repairing(t)
  PROVE  NoneAbove
<1> USE Zenon
<1> SUFFICES ASSUME NEW k \in DOMAIN topo.index, NEW v \in contents[topo.index[k]], ~(v <= k)
             PROVE  FALSE
  BY DEF NoneAbove
<1>1. k \in Key /\ v \in Key
  BY IndexTypes
<1>2. k < v
  BY <1>1, KeysAreIntegers, SMTT(60)
<1>3. PICK u \in Thread : op[u] = "insert" /\ Repairs(u, topo.index[k], k)
  BY <1>2 DEF SInv, RepairInv, EntryRepaired
<1>4. u \in Inserters
  BY <1>3, NoneAssumption DEF RInv, CallerInv, MayCall, Operations
<1> QED  BY <1>3, <1>4 DEF OneInserter, Repairs

\* While the inserting thread is about to split, nobody else is.
LEMMA SplitterInserts ==
  ASSUME IInv, RInv, NEW t \in Thread, op[t] = "insert" \/ pc[t] \in Splitting
  PROVE  t \in Inserters
<1> USE Zenon
<1>1. op[t] = "insert"
  BY LabelOperation DEF IInv, Splitting
<1> QED  BY <1>1, NoneAssumption DEF RInv, CallerInv, MayCall, Operations
=============================================================================
