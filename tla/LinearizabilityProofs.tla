----------------------- MODULE LinearizabilityProofs ------------------------
(***************************************************************************)
(* The concurrent set implements the atomic set, step by step.             *)
(***************************************************************************)
EXTENDS ConcurrentSetLemmas

-----------------------------------------------------------------------------
(* The abstract set.                                                       *)

\* The elements of all nodes.
Members == UNION {contents[n] : n \in Node}

\* Nodes that are not linked are empty: an element is never written to a node
\* that has left the index, and none leaves the index with its node.
UnlinkedAreEmpty == \A n \in Node : n \notin Linked => contents[n] = {}

\* Empty sets add nothing to a union.
LEMMA UnionOfNonEmpty ==
  ASSUME NEW c, NEW S \in SUBSET Node, \A n \in Node : n \notin S => c[n] = {}
  PROVE  UNION {c[n] : n \in S} = UNION {c[n] : n \in Node}
BY Zenon

\* The abstract set is the set of all elements, before and after a step.
LEMMA AbstractSet ==
  /\ IInv /\ UnlinkedAreEmpty => UNION {contents[n] : n \in Linked} = Members
  /\ IInv' /\ UnlinkedAreEmpty' => (UNION {contents[n] : n \in Linked})' = Members'
<1> USE Zenon
<1>1. ASSUME IInv, UnlinkedAreEmpty PROVE UNION {contents[n] : n \in Linked} = Members
  <2>1. Linked \in SUBSET Node
    BY <1>1, TopologyFields, SMTT(60) DEF IInv, TypeOK, Linked, Range
  <2> QED  BY <1>1, <2>1, UnionOfNonEmpty DEF UnlinkedAreEmpty, Members
<1>2. ASSUME IInv', UnlinkedAreEmpty' PROVE (UNION {contents[n] : n \in Linked})' = Members'
  <2>1. Linked' \in SUBSET Node
    BY <1>2, TopologyFields, SMTT(60) DEF IInv, TypeOK, Linked, Range
  <2> QED  BY <1>2, <2>1, UnionOfNonEmpty DEF UnlinkedAreEmpty, Members
<1> QED  BY <1>1, <1>2

\* What a call does when it takes effect with outcome r.
Effective(t, r) ==
  /\ op[t] = "insert" => r = (arg[t] \notin Members) /\ Members' = Members \cup {arg[t]}
  /\ op[t] = "remove" => r = (arg[t] \in Members) /\ Members' = Members \ {arg[t]}
  /\ op[t] \in {"contains", "get"} => r = (arg[t] \in Members) /\ Members' = Members
  /\ op[t] = "select_optimistic" => (r => arg[t] \in Members) /\ Members' = Members
  /\ op[t] = "remove_range" => r /\ Members' = Members \ Inside(Key, arg[t])
  /\ op[t] # "attach_node"

\* A step that is invisible to callers, and one at which a call takes effect.
Silent(t) == op' = op /\ arg' = arg /\ res' = res /\ Members' = Members

Takes(t) == op' = op /\ arg' = arg /\ pc[t] \in Pending /\ \E r \in BOOLEAN : Decide(t, r) /\ Effective(t, r)

Linear(t) == UnlinkedAreEmpty' /\ (Silent(t) \/ Takes(t))

\* Index f bounds the elements of its nodes by its keys on both sides.
Bounds(f, c) ==
  \A k \in DOMAIN f : \A x \in c[f[k]] : x \in Key /\ x <= k /\ \A j \in DOMAIN f : j < k => j < x

-----------------------------------------------------------------------------
(* Refinement of AtomicSet.                                                *)

LInv == ResInv /\ UnlinkedAreEmpty

\* A new or restored set has its elements in linked nodes.
LEMMA InitLinear == KeySetsCount /\ Init => LInv /\ Atomic!Init
<1> USE Zenon
<1> SUFFICES ASSUME KeySetsCount, Init PROVE LInv /\ Atomic!Init
  OBVIOUS
<1> DEFINE c == contents
           f == topo.index
           filled == {n \in Node : c[n] # {}}
<1>1. c \in [Node -> SUBSET Key] /\ Attachable(c) /\ f = AttachedIndex(c)
  BY RestoredAssumption DEF Init
<1>2. DOMAIN f \subseteq Key /\ \A k \in DOMAIN f : f[k] \in Node /\ c[f[k]] # {} /\ Max(c[f[k]]) = k
  BY <1>1, AttachedIndexType
<1>3. DOMAIN f = {Max(c[n]) : n \in filled}
  BY <1>1 DEF AttachedIndex
<1>4. ASSUME NEW n \in Node, c[n] # {} PROVE n \in Range(f)
  <2> DEFINE k == Max(c[n])
  <2>1. k \in DOMAIN f /\ f[k] \in Node /\ c[f[k]] # {} /\ Max(c[f[k]]) = k
    BY <1>2, <1>3, <1>4
  <2>2. k \in c[n] /\ k \in c[f[k]] /\ k \in Int
    <3>1. c[n] \in SUBSET Key /\ c[f[k]] \in SUBSET Key
      BY <1>1, <1>4, <2>1
    <3> HIDE DEF c
    <3>2. k \in c[n] /\ k \in Key
      BY <1>4, <3>1, MaxInKey
    <3>3. Max(c[f[k]]) \in c[f[k]]
      BY <2>1, <3>1, MaxInKey
    <3> QED  BY <2>1, <3>2, <3>3, KeysAreIntegers
  <2> HIDE DEF k, c, f
  <2>3. f[k] = n
    <3> SUFFICES ASSUME f[k] # n PROVE FALSE
      OBVIOUS
    <3>1. k < k
      BY <1>1, <1>4, <2>1, <2>2 DEF Attachable
    <3> QED  BY <2>2, <3>1, SMT
  <2> QED  BY <2>1, <2>3 DEF Range
<1>5. UnlinkedAreEmpty
  BY <1>4 DEF UnlinkedAreEmpty, Linked
<1>6. ResInv
  <2>1. \A t \in Thread : pc[t] = "idle" /\ res[t] = None
    BY DEF Init
  <2> QED  BY <2>1 DEF ResInv, ResOK, Decided
<1>7. Atomic!Init
  <2>1. UNION {contents[n] : n \in Linked} \in SUBSET Key
    <3>1. Linked \subseteq Node
      BY <1>2 DEF Linked, Range
    <3> QED  BY <1>1, <3>1
  <2> QED  BY <2>1 DEF Atomic!Init, Init, Key, Atomic!Key
<1> QED  BY <1>5, <1>6, <1>7 DEF LInv

\* Every step of every thread is one of these.
LEMMA StepLinear ==
  OneInserter /\ RangeRemovers \subseteq Inserters /\ IInv /\ IInv' /\ SInv /\ RInv /\ LInv
    => \A t \in Thread : Call(t) \/ Step(t) => LInv' /\ (Call(t) \/ Return(t) \/ Linear(t))
<1> SUFFICES ASSUME KeySetsCount
             PROVE  OneInserter /\ RangeRemovers \subseteq Inserters /\ IInv /\ IInv' /\ SInv /\ RInv /\ LInv
                      => \A t \in Thread : Call(t) \/ Step(t) => LInv' /\ (Call(t) \/ Return(t) \/ Linear(t))
  BY Zenon DEF IInv

\* The node a value is routed to is the only one that can hold it.
<1>OnlyThere.
     ASSUME IInv, RInv, UnlinkedAreEmpty, NEW v \in Key, NEW k \in DOMAIN topo.index, Covers(topo.index, v, k)
     PROVE  /\ v \in Members <=> v \in contents[topo.index[k]]
            /\ \A n \in Node : v \in contents[n] => n = topo.index[k]
  <2> USE <1>OnlyThere, Zenon
  <2> DEFINE f == topo.index
  <2>1. DOMAIN f \subseteq Key /\ f \in [DOMAIN f -> Node]
    BY IndexTypes
  <2>2. ASSUME NEW n \in Node, v \in contents[n] PROVE n = f[k]
    <3>1. PICK j \in DOMAIN f : f[j] = n
      BY <2>2 DEF UnlinkedAreEmpty, Linked, Range
    <3>2. Covers(f, v, j)
      BY <2>2, <3>1 DEF RInv, Reaches
    <3>3. j = k
      BY <2>1, <3>2, CoversOnce
    <3> QED  BY <3>1, <3>3
  <2>3. f[k] \in Node
    BY <2>1
  <2> QED  BY <2>2, <2>3 DEF Members

\* No index, no elements.
<1>NothingThere.
     ASSUME IInv, UnlinkedAreEmpty, DOMAIN topo.index = {}
     PROVE  Members = {}
  <2> USE <1>NothingThere, Zenon
  <2>1. Linked = {}
    BY DEF Linked, Range
  <2> QED  BY <2>1 DEF UnlinkedAreEmpty, Members

\* The nodes a re-keyed index links.
<1>RekeyedLinks.
     ASSUME NEW f, DOMAIN f \subseteq Key, NEW k \in DOMAIN f, NEW n, n = f[k], NEW c \in SUBSET Key,
            \A x \in c : Covers(f, x, k)
     PROVE  LET h == Rekeyed(f, k, n, c)
            IN  (\A j \in DOMAIN f \ {k} : j \in DOMAIN h /\ h[j] = f[j]) /\ (c # {} => n \in Range(h))
  <2> USE <1>RekeyedLinks, Zenon
  <2> DEFINE h == Rekeyed(f, k, n, c)
             m == Max(c)
  <2>1. CASE c = {}
    BY <2>1 DEF Rekeyed, Without, Restrict
  <2>2. CASE c # {}
    <3>1. h = With(Without(f, k), m, n)
      BY <2>2 DEF Rekeyed
    <3>2. m \in c /\ m \in Key
      BY <2>2, MaxInKey
    <3> HIDE DEF h, m
    <3>3. DOMAIN h = (DOMAIN f \ {k}) \cup {m}
      BY <3>1 DEF With, Without, Restrict
    <3>4. Moved(f, h, k, {m})
      BY <3>2, <3>3 DEF Moved
    <3>5. ASSUME NEW j \in DOMAIN f \ {k} PROVE j \in DOMAIN h /\ h[j] = f[j]
      <4>1. j # m
        BY <3>4, <3>5, MovedOthers, SMTT(60)
      <4>2. j \in DOMAIN h
        BY <3>3, <3>5
      <4>3. h[j] = f[j]
        BY <4>1, <4>2, RekeyedEntries, SMT DEF h, m
      <4> QED  BY <4>2, <4>3
    <3>6. n \in Range(h)
      BY <3>1 DEF With, Range
    <3> QED  BY <3>5, <3>6 DEF h
  <2> QED  BY <2>1, <2>2

\* Re-keying a node, or unlinking it with its last element, leaves no element behind.
<1>RekeyUnlinks.
     ASSUME IInv, RInv, UnlinkedAreEmpty, NEW k \in DOMAIN topo.index, NEW n, n = topo.index[k],
            NEW c, c \subseteq contents[n], topo'.index = Rekeyed(topo.index, k, n, c),
            contents'[n] = c, \A m \in Node \ {n} : contents'[m] = contents[m]
     PROVE  UnlinkedAreEmpty'
  <2> USE <1>RekeyUnlinks, Zenon
  <2> DEFINE f == topo.index
             h == topo'.index
  <2>1. DOMAIN f \subseteq Key /\ f \in [DOMAIN f -> Node] /\ contents \in [Node -> SUBSET Key]
    BY IndexTypes
  <2>2. c \in SUBSET Key /\ \A x \in c : Covers(f, x, k)
    BY <2>1 DEF RInv, Reaches
  <2>3. (\A j \in DOMAIN f \ {k} : j \in DOMAIN h /\ h[j] = f[j]) /\ (c # {} => n \in Range(h))
    BY <2>1, <2>2, <1>RekeyedLinks, SMT
  <2>4. ASSUME NEW m \in Node, m \notin Range(h) PROVE contents'[m] = {}
    <3>1. CASE m = n
      BY <2>3, <2>4, <3>1
    <3>2. CASE m # n
      <4>1. m \notin Range(f)
        BY <2>3, <2>4, <3>2 DEF Range
      <4> QED  BY <3>2, <4>1 DEF UnlinkedAreEmpty, Linked
    <3> QED  BY <3>1, <3>2
  <2> QED  BY <2>4 DEF UnlinkedAreEmpty, Linked

\* Steps that write to a linked node at most.
<1>WriteUnlinks.
     ASSUME UnlinkedAreEmpty, topo' = topo, NEW n, n \in Linked, \A m \in Node \ {n} : contents'[m] = contents[m]
     PROVE  UnlinkedAreEmpty'
  BY <1>WriteUnlinks, Zenon DEF UnlinkedAreEmpty, Linked

\* put_checked_inner adds its value, or finds it, in the node it is routed to.
<1>PutNodeLinear.
     ASSUME IInv, SInv, RInv, UnlinkedAreEmpty, NEW t \in Thread, PutNode(t)
     PROVE  Linear(t)
  <2> USE <1>PutNodeLinear, Zenon
  <2> DEFINE n == node[t]
             v == arg[t]
             c == contents[n]
  <2>1. n \in Node /\ v \in Key /\ topo' = topo /\ op' = op /\ arg' = arg /\ op[t] = "insert" /\ pc[t] \in Pending
        /\ \A m \in Node \ {n} : contents'[m] = contents[m]
    BY NodeStepFrame, LabelOperation, ZenonT(60) DEF IInv, PutNode, Pending
  <2>2. key[t] \in DOMAIN topo.index /\ topo.index[key[t]] = n /\ Covers(topo.index, v, key[t])
    BY DEF PutNode, SInv, HeldInv, Held, EntryIsCurrent
  <2>3. n \in Linked
    BY <2>2 DEF Linked, Range
  <2>4. UnlinkedAreEmpty'
    BY <2>1, <2>3, <1>WriteUnlinks
  <2>5. v \in Members <=> v \in c
    BY <2>1, <2>2, <1>OnlyThere
  <2>6. CASE UNCHANGED <<contents, res>>
    BY <2>1, <2>4, <2>6 DEF Linear, Silent, Members
  <2>7. CASE UNCHANGED contents /\ v \in c /\ Decide(t, FALSE)
    <3>1. Members' = Members /\ v \in Members
      BY <2>5, <2>7 DEF Members
    <3>2. Members' = Members \cup {v}
      BY <3>1
    <3>3. Effective(t, FALSE)
      BY <2>1, <3>1, <3>2 DEF Effective
    <3> QED  BY <2>1, <2>4, <2>7, <3>3 DEF Linear, Takes
  <2>8. CASE v \notin c /\ Store(n, c \cup {v}) /\ Decide(t, TRUE)
    <3>1. contents'[n] = c \cup {v}
      BY <2>1, <2>8, IndexTypes DEF Store
    <3>2. Members' = Members \cup {v}
      BY <2>1, <3>1, SMTT(60) DEF Members
    <3>3. Effective(t, TRUE)
      BY <2>1, <2>5, <2>8, <3>2 DEF Effective
    <3> QED  BY <2>1, <2>4, <2>8, <3>3 DEF Linear, Takes
  <2> QED  BY <2>6, <2>7, <2>8, ZenonT(60) DEF PutNode

\* remove_inner takes its value away, or misses it, in the node it is routed to.
<1>RemoveNodeLinear.
     ASSUME IInv, SInv, RInv, UnlinkedAreEmpty, NEW t \in Thread, RemoveNode(t)
     PROVE  Linear(t)
  <2> USE <1>RemoveNodeLinear, Zenon
  <2> DEFINE n == node[t]
             v == arg[t]
             c == contents[n]
  <2>1. n \in Node /\ v \in Key /\ topo' = topo /\ op' = op /\ arg' = arg /\ op[t] = "remove" /\ pc[t] \in Pending
        /\ \A m \in Node \ {n} : contents'[m] = contents[m]
    BY NodeStepFrame, LabelOperation, ZenonT(60) DEF IInv, RemoveNode, Pending
  <2>2. key[t] \in DOMAIN topo.index /\ topo.index[key[t]] = n /\ Covers(topo.index, v, key[t])
    BY DEF RemoveNode, SInv, HeldInv, Held, EntryIsCurrent
  <2>3. n \in Linked
    BY <2>2 DEF Linked, Range
  <2>4. UnlinkedAreEmpty'
    BY <2>1, <2>3, <1>WriteUnlinks
  <2>5. (v \in Members <=> v \in c) /\ \A m \in Node : v \in contents[m] => m = n
    BY <2>1, <2>2, <1>OnlyThere
  <2>6. CASE UNCHANGED <<contents, res>>
    BY <2>1, <2>4, <2>6 DEF Linear, Silent, Members
  <2>7. CASE UNCHANGED contents /\ v \notin c /\ Decide(t, FALSE)
    <3>1. Members' = Members /\ v \notin Members
      BY <2>5, <2>7 DEF Members
    <3>2. Members' = Members \ {v}
      BY <3>1
    <3>3. Effective(t, FALSE)
      BY <2>1, <3>1, <3>2, SMT DEF Effective
    <3> QED  BY <2>1, <2>4, <2>7, <3>3 DEF Linear, Takes
  <2>8. CASE v \in c /\ Store(n, c \ {v}) /\ Decide(t, TRUE)
    <3>1. contents'[n] = c \ {v}
      BY <2>1, <2>8, IndexTypes DEF Store
    <3>2. Members' = Members \ {v}
      BY <2>1, <2>5, <3>1, SMTT(60) DEF Members
    <3>3. Effective(t, TRUE)
      BY <2>1, <2>5, <2>8, <3>2 DEF Effective
    <3> QED  BY <2>1, <2>4, <2>8, <3>3 DEF Linear, Takes
  <2> QED  BY <2>6, <2>7, <2>8, ZenonT(60) DEF RemoveNode

\* The first node publishes the first element.
<1>PutRootLinear.
     ASSUME IInv, UnlinkedAreEmpty, NEW t \in Thread, PutRoot(t)
     PROVE  Linear(t)
  <2> USE <1>PutRootLinear, Zenon
  <2> DEFINE v == arg[t]
  <2>1. v \in Key /\ op' = op /\ arg' = arg /\ op[t] = "insert" /\ pc[t] \in Pending
    BY LabelOperation, ZenonT(60) DEF IInv, PutRoot, Pending
  <2>2. CASE UNCHANGED <<topo, contents, res>>
    BY <2>1, <2>2 DEF Linear, Silent, Members, UnlinkedAreEmpty, Linked
  <2>3. CASE /\ DOMAIN topo.index = {} /\ FreeNodes # {} /\ Store(NewNode, {v})
             /\ topo' = Insert(topo, v, NewNode) /\ Decide(t, TRUE)
    <3>1. NewNode \in Node /\ NewNode \notin Range(topo.index)
      BY <2>3, NewNodeIsFree DEF IInv
    <3>2. topo'.index = With(topo.index, v, NewNode)
      BY <2>1, <2>3, <3>1, IndexTypes, InsertMirrors
    <3>3. NewNode \in Linked'
      BY <3>2 DEF With, Linked, Range
    <3>4. contents'[NewNode] = {v} /\ \A m \in Node \ {NewNode} : contents'[m] = contents[m]
      BY <2>3, <3>1, IndexTypes DEF Store
    <3>5. Members = {} /\ Linked = {}
      BY <2>3, <1>NothingThere DEF Linked, Range
    <3>6. \A m \in Node : contents[m] = {}
      BY <3>5 DEF UnlinkedAreEmpty
    <3>7. UnlinkedAreEmpty'
      BY <3>3, <3>4, <3>6 DEF UnlinkedAreEmpty
    <3>8. Members' = {v}
      BY <3>1, <3>4, <3>6 DEF Members
    <3>9. Effective(t, TRUE)
      BY <2>1, <3>5, <3>8 DEF Effective
    <3> QED  BY <2>1, <2>3, <3>7, <3>9 DEF Linear, Takes
  <2> QED  BY <2>2, <2>3, ZenonT(60) DEF PutRoot

\* A value routed to one key is no other key.
<1>NotReplaced.
     ASSUME NEW f, DOMAIN f \subseteq Key, NEW k \in DOMAIN f, NEW x \in Key, Covers(f, x, k),
            NEW j \in DOMAIN f, j # k
     PROVE  j # x
  <2> USE <1>NotReplaced, Zenon
  <2>1. (\A i \in DOMAIN f : i < k => i < x) /\ (x <= k \/ \A i \in DOMAIN f : i <= k)
    BY CoversPointwise
  <2>2. j \in Int /\ k \in Int /\ x \in Int
    BY KeysAreIntegers
  <2> QED  BY <2>1, <2>2, SMTT(60)

\* A split leaves no element behind, and both halves together are the old
\* node and the inserted value.
<1>SplitLinear.
     ASSUME IInv, IInv', SInv, RInv, UnlinkedAreEmpty, NEW t \in Thread, SplitCommit(t)
     PROVE  Linear(t)
  <2> USE <1>SplitLinear, Zenon
  <2> DEFINE v == arg[t]
  <2>1. op' = op /\ arg' = arg /\ op[t] = "insert" /\ pc[t] \in Pending /\ pc[t] \in Splitting
    BY LabelOperation, ZenonT(60) DEF IInv, SplitCommit, Pending, Splitting
  <2>2. CASE UNCHANGED <<topo, contents, res>>
    BY <2>1, <2>2 DEF Linear, Silent, Members, UnlinkedAreEmpty, Linked
  <2>3. CASE /\ Splits(t, SplitLeft(t), SplitRight(t)) /\ SplitRight(t) # {}
             /\ Decide(t, v \notin contents[node[t]])
    <3> DEFINE f == topo.index
               h == topo'.index
               k == key[t]
               n == node[t]
               c == contents[n]
               fresh == NewNode
               left == SplitLeft(t)
               right == SplitRight(t)
               g == Rekeyed(f, k, n, left)
               ml == Max(left)
               mr == Max(right)
    <3>1. n \in Node /\ v \in Key /\ left \in SUBSET Key /\ right \in SUBSET Key /\ right # {}
      BY <2>3, SplitEffect
    <3>2. SplitOutcome(t, left, right)
      BY <2>3, <3>1, SplitResult
    <3>3. /\ k \in DOMAIN f /\ n = f[k] /\ fresh \in Node /\ fresh \notin Range(f) /\ fresh # n
          /\ h = With(g, mr, fresh) /\ contents'[n] = left /\ contents'[fresh] = right
          /\ \A m \in Node \ {n, fresh} : contents'[m] = contents[m]
      BY <3>2 DEF SplitOutcome
    <3>4. left \cup right = c \cup {v}
      BY DEF SplitLeft, SplitRight, LowerHalf
    <3>5. DOMAIN f \subseteq Key /\ f \in [DOMAIN f -> Node] /\ c \in SUBSET Key
      BY <3>1, IndexTypes
    <3>6. Covers(f, v, k)
      BY <2>1, <3>3 DEF RInv, SplitInv, SplitOK
    <3>7. \A x \in left \cup right : Covers(f, x, k)
      BY <3>3, <3>4, <3>6 DEF RInv, Reaches
    <3>8. mr \in right /\ mr \in Key /\ (left # {} => ml \in left /\ ml # mr)
      <4>1. \A x \in left, y \in right : x < y /\ x \in Int
        BY <3>1, <3>5, LeftIsBelow, KeysAreIntegers DEF IInv
      <4>2. mr \in right /\ mr \in Key /\ (left # {} => ml \in left)
        BY <3>1, MaxInKey
      <4> HIDE DEF mr, ml, left, right
      <4> QED  BY <4>1, <4>2, SMTT(60)
    <3>9. contents[fresh] = {}
      BY <3>3 DEF UnlinkedAreEmpty, Linked
    <3>10. (\A j \in DOMAIN f \ {k} : j \in DOMAIN g /\ g[j] = f[j]) /\ (left # {} => n \in Range(g))
      BY <3>1, <3>3, <3>5, <3>7, <1>RekeyedLinks
    <3>11. left # {} => ml \in DOMAIN g /\ g[ml] = n
      <4>1. left # {} => g = With(Without(f, k), ml, n)
        BY DEF Rekeyed
      <4> HIDE DEF g, ml
      <4> QED  BY <4>1 DEF With
    <3> HIDE DEF f, h, k, n, c, fresh, left, right, g, ml, mr, v
    <3>12. (mr \in DOMAIN h /\ h[mr] = fresh) /\ \A j \in DOMAIN g \ {mr} : j \in DOMAIN h /\ h[j] = g[j]
      BY <3>3 DEF With
    <3>13. \A j \in DOMAIN f \ {k} : j # mr
      BY <3>3, <3>5, <3>7, <3>8, <1>NotReplaced, SMT
    <3>14. ASSUME NEW m \in Node, m \notin Range(h) PROVE contents'[m] = {}
      <4>1. m # fresh
        BY <3>12, <3>14 DEF Range
      <4>2. CASE m = n
        <5>1. left = {}
          BY <3>8, <3>11, <3>12, <3>14, <4>2 DEF Range
        <5> QED  BY <3>3, <4>2, <5>1
      <4>3. CASE m # n
        <5>1. m \notin Range(f)
          BY <3>3, <3>10, <3>12, <3>13, <3>14, <4>3, SMTT(60) DEF Range
        <5>2. contents[m] = {}
          BY <5>1 DEF UnlinkedAreEmpty, Linked, f
        <5> QED  BY <3>3, <4>1, <4>3, <5>2
      <4> QED  BY <4>2, <4>3
    <3>15. UnlinkedAreEmpty'
      BY <3>14 DEF UnlinkedAreEmpty, Linked, h
    <3>16. Members' = Members \cup {v}
      <4>1. ASSUME NEW x \in left \cup right PROVE x \in Members'
        BY <3>1, <3>3, <4>1 DEF Members
      <4>2. ASSUME NEW x \in Members PROVE x \in Members'
        <5>1. PICK m \in Node : x \in contents[m]
          BY <4>2 DEF Members
        <5>2. CASE m = n
          BY <3>4, <4>1, <5>1, <5>2 DEF c
        <5>3. CASE m # n
          <6>1. contents'[m] = contents[m]
            BY <3>3, <3>9, <5>1, <5>3
          <6> QED  BY <5>1, <6>1 DEF Members
        <5> QED  BY <5>2, <5>3
      <4>3. ASSUME NEW x \in Members', x # v PROVE x \in Members
        <5>1. PICK m \in Node : x \in contents'[m]
          BY <4>3 DEF Members
        <5>2. CASE m \in {n, fresh}
          <6>1. x \in contents[n]
            BY <3>3, <3>4, <4>3, <5>1, <5>2, SMT DEF c
          <6> QED  BY <3>1, <6>1 DEF Members
        <5>3. CASE m \notin {n, fresh}
          BY <3>3, <5>1, <5>3 DEF Members
        <5> QED  BY <5>2, <5>3
      <4> QED  BY <3>4, <4>1, <4>2, <4>3
    <3>17. v \in Members <=> v \in c
      BY <3>1, <3>3, <3>6, <1>OnlyThere DEF f, c
    <3>18. Decide(t, v \notin c) /\ (v \notin c) \in BOOLEAN
      BY <2>3 DEF v, c, n
    <3>19. Effective(t, v \notin c)
      BY <2>1, <3>16, <3>17 DEF Effective, v
    <3> QED  BY <2>1, <3>15, <3>18, <3>19 DEF Linear, Takes
  <2> QED  BY <2>2, <2>3, SplitEffect, ZenonT(60)

\* A repair moves an entry and no element.
<1>UpdateMaxLinear.
     ASSUME IInv, IInv', RInv, UnlinkedAreEmpty, NEW t \in Thread, UpdateMax(t)
     PROVE  Linear(t)
  <2> USE <1>UpdateMaxLinear, Zenon
  <2>1. contents' = contents /\ res' = res /\ op' = op /\ arg' = arg
    BY UpdateMaxEffect
  <2>2. Silent(t)
    BY <2>1 DEF Silent, Members
  <2>3. CASE topo' = topo
    BY <2>1, <2>2, <2>3 DEF Linear, UnlinkedAreEmpty, Linked
  <2>4. CASE NeedsRekey(t) /\ topo'.index = Rekeyed(topo.index, key[t], node[t], contents[node[t]])
    <3>1. key[t] \in DOMAIN topo.index /\ node[t] = topo.index[key[t]]
      BY <2>4 DEF NeedsRekey, EntryIsCurrent
    <3>2. UnlinkedAreEmpty'
      BY <2>1, <2>4, <3>1, <1>RekeyUnlinks
    <3> QED  BY <2>2, <3>2 DEF Linear
  <2> QED  BY <2>3, <2>4, UpdateMaxEffect

\* The last element of a node goes with the node.
<1>RemoveCommitLinear.
     ASSUME IInv, IInv', SInv, RInv, UnlinkedAreEmpty, NEW t \in Thread, RemoveCommit(t)
     PROVE  Linear(t)
  <2> USE <1>RemoveCommitLinear, Zenon
  <2> DEFINE n == node[t]
             v == arg[t]
             c == contents[n]
  <2>1. op' = op /\ arg' = arg /\ op[t] = "remove" /\ pc[t] \in Pending
    BY LabelOperation, ZenonT(60) DEF IInv, RemoveCommit, Pending
  <2>2. /\ n \in Node /\ v \in Key /\ key[t] \in DOMAIN topo.index /\ n = topo.index[key[t]]
        /\ Covers(topo.index, v, key[t])
    BY RemoveCommitEffect
  <2>3. (v \in Members <=> v \in c) /\ \A m \in Node : v \in contents[m] => m = n
    BY <2>2, <1>OnlyThere
  <2>4. CASE UNCHANGED <<topo, contents, res>>
    BY <2>1, <2>4 DEF Linear, Silent, Members, UnlinkedAreEmpty, Linked
  <2>5. CASE UNCHANGED <<topo, contents>> /\ v \notin c /\ Decide(t, FALSE)
    <3>1. Members' = Members /\ v \notin Members /\ UnlinkedAreEmpty'
      BY <2>3, <2>5 DEF Members, UnlinkedAreEmpty, Linked
    <3>2. Effective(t, FALSE)
      BY <2>1, <3>1, SMT DEF Effective
    <3> QED  BY <2>1, <2>5, <3>1, <3>2 DEF Linear, Takes
  <2>6. CASE v \in c /\ Store(n, c \ {v}) /\ Decide(t, TRUE)
    <3>1. contents'[n] = c \ {v} /\ \A m \in Node \ {n} : contents'[m] = contents[m]
      BY <2>2, <2>6, IndexTypes DEF Store
    <3>2. contents'[n] = {} /\ topo'.index = Rekeyed(topo.index, key[t], n, {})
      <4>1. contents' # contents
        BY <2>6, <3>1
      <4> QED  BY <4>1, RemoveCommitEffect
    <3>3. UnlinkedAreEmpty'
      <4>1. {} \subseteq c
        OBVIOUS
      <4> QED  BY <2>2, <3>1, <3>2, <4>1, <1>RekeyUnlinks
    <3>4. Members' = Members \ {v}
      BY <2>2, <2>3, <3>1, SMTT(60) DEF Members
    <3>5. Effective(t, TRUE)
      BY <2>1, <2>3, <2>6, <3>4 DEF Effective
    <3> QED  BY <2>1, <2>6, <3>3, <3>5 DEF Linear, Takes
  <2> QED  BY <2>4, <2>5, <2>6, ZenonT(60) DEF RemoveCommit

\* A non-empty set of keys has a minimum.
<1>MinExists.
     ASSUME NEW S \in SUBSET Key, S # {}
     PROVE  \E m \in S : \A y \in S : m <= y
  <2> USE <1>MinExists, Zenon
  <2> DEFINE D == {MaxKey + 1 - x : x \in S}
             d == Max(D)
  <2>1. \A x \in S : x \in Int /\ MaxKey + 1 - x \in Key
    BY MaxKeyAssumption, SMTT(60) DEF Key
  <2>2. D \in SUBSET Key /\ D # {}
    BY <2>1
  <2>3. d \in D /\ \A y \in D : y <= d
    <3> HIDE DEF D
    <3> QED  BY <2>2, MaxIsGreatest
  <2> HIDE DEF d
  <2>4. PICK m \in S : d = MaxKey + 1 - m
    BY <2>3
  <2>5. \A y \in S : MaxKey + 1 - y <= MaxKey + 1 - m
    BY <2>3, <2>4
  <2>6. \A y \in S : m <= y
    <3> HIDE DEF D
    <3> QED  BY <2>1, <2>5, MaxKeyAssumption, SMTT(60)
  <2> QED  BY <2>6

\* An index that is not empty routes every value somewhere.
<1>CoverExists.
     ASSUME NEW f, DOMAIN f \subseteq Key, DOMAIN f # {}, NEW v \in Key
     PROVE  \E k \in DOMAIN f : Covers(f, v, k)
  <2> USE <1>CoverExists, Zenon
  <2> DEFINE S == {j \in DOMAIN f : v <= j}
  <2>1. CASE S # {}
    <3>1. PICK k \in S : \A j \in S : k <= j
      BY <2>1, <1>MinExists
    <3>2. \A j \in DOMAIN f : j \in Int /\ k \in Int /\ v \in Int
      BY KeysAreIntegers
    <3>3. \A j \in DOMAIN f : j < k => j < v
      BY <3>1, <3>2, SMTT(60)
    <3> QED  BY <3>1, <3>3, CoversPointwise
  <2>2. CASE S = {}
    <3>1. PICK k \in DOMAIN f : \A j \in DOMAIN f : j <= k
      BY MaxIsGreatest
    <3>2. \A j \in DOMAIN f : j < v
      BY <2>2, KeysAreIntegers, SMTT(60)
    <3> QED  BY <3>1, <3>2, CoversPointwise
  <2> QED  BY <2>1, <2>2

\* That is the case when nothing lies above the keys.
<1>BoundsHold.
     ASSUME IInv, RInv, NoneAbove
     PROVE  Bounds(topo.index, contents)
  <2> USE <1>BoundsHold, Zenon
  <2>1. DOMAIN topo.index \subseteq Key /\ topo.index \in [DOMAIN topo.index -> Node] /\ contents \in [Node -> SUBSET Key]
    BY IndexTypes
  <2>2. ASSUME NEW k \in DOMAIN topo.index, NEW x \in contents[topo.index[k]]
        PROVE  x \in Key /\ x <= k /\ \A j \in DOMAIN topo.index : j < k => j < x
    <3>1. x \in Key
      BY <2>1, <2>2
    <3>2. Covers(topo.index, x, k) /\ x <= k
      BY <2>2 DEF RInv, Reaches, NoneAbove
    <3> QED  BY <2>1, <3>1, <3>2, CoversPointwise
  <2> QED  BY <2>2 DEF Bounds

\* No key reaches the range: nothing lies in it.
<1>RangeMisses.
     ASSUME NEW f, DOMAIN f \subseteq Key, NEW c, Bounds(f, c), NEW r \in Ranges,
            \A fk, bk \in DOMAIN f : ~(IsFront(f, r.lo, fk) /\ Covers(f, r.hi, bk) /\ fk <= bk),
            NEW k \in DOMAIN f, NEW x \in c[f[k]]
     PROVE  x \notin Inside(Key, r)
  <2> USE <1>RangeMisses, Zenon
  <2> DEFINE lo == r.lo
             hi == r.hi
  <2>1. lo \in Key /\ hi \in Key
    BY DEF Ranges
  <2>2. x \in Key /\ x <= k
    BY DEF Bounds
  <2>3. (\A j \in DOMAIN f : j \in Int) /\ lo \in Int /\ hi \in Int /\ x \in Int
    BY <2>1, <2>2, KeysAreIntegers
  <2> SUFFICES ASSUME lo <= x, x <= hi PROVE FALSE
    <3>1. x \in Inside(Key, r) => lo <= x /\ (x < hi \/ x = hi)
      BY DEF Inside
    <3> HIDE DEF lo, hi
    <3> QED  BY <2>3, <3>1, SMT
  <2> HIDE DEF lo, hi
  <2>4. PICK fk \in {j \in DOMAIN f : lo <= j} : \A j \in {i \in DOMAIN f : lo <= i} : fk <= j
    <3>1. k \in {j \in DOMAIN f : lo <= j}
      BY <2>2, <2>3, SMTT(60)
    <3>2. {j \in DOMAIN f : lo <= j} \in SUBSET Key
      OBVIOUS
    <3> QED  BY <3>1, <3>2, <1>MinExists
  <2>5. PICK bk \in DOMAIN f : Covers(f, hi, bk)
    BY <2>1, <1>CoverExists
  <2>6. IsFront(f, lo, fk)
    BY <2>4 DEF IsFront
  <2>7. (\A j \in DOMAIN f : j < bk => j < hi) /\ (hi <= bk \/ \A j \in DOMAIN f : j <= bk)
    BY <2>1, <2>5, CoversPointwise
  <2>8. fk <= bk
    BY <2>3, <2>4, <2>7, SMTT(60)
  <2> QED  BY <2>4, <2>5, <2>6, <2>8 DEF lo, hi

\* The range lies in one node: no other node has elements in it.
<1>RangeInOne.
     ASSUME NEW f, DOMAIN f \subseteq Key, NEW c, Bounds(f, c), NEW r \in Ranges,
            NEW k \in DOMAIN f, IsFront(f, r.lo, k), Covers(f, r.hi, k),
            NEW j \in DOMAIN f, j # k, NEW x \in c[f[j]]
     PROVE  x \notin Inside(Key, r)
  <2> USE <1>RangeInOne, Zenon
  <2> DEFINE lo == r.lo
             hi == r.hi
  <2>1. lo \in Key /\ hi \in Key
    BY DEF Ranges
  <2>2. x \in Key /\ x <= j /\ \A i \in DOMAIN f : i < j => i < x
    BY DEF Bounds
  <2>3. (\A i \in DOMAIN f : i \in Int) /\ lo \in Int /\ hi \in Int /\ x \in Int
    BY <2>1, <2>2, KeysAreIntegers
  <2>4. lo <= k /\ \A i \in DOMAIN f : lo <= i => k <= i
    BY DEF IsFront
  <2>5. hi <= k \/ \A i \in DOMAIN f : i <= k
    BY <2>1, CoversPointwise
  <2>6. x \in Inside(Key, r) => lo <= x /\ (x < hi \/ x = hi)
    BY DEF Inside
  <2> HIDE DEF lo, hi
  <2> QED  BY <2>2, <2>3, <2>4, <2>5, <2>6, SMTT(60)

\* What is cut out of a node lies in the range.
<1>RangeAcross.
     ASSUME NEW f, DOMAIN f \subseteq Key, NEW c, Bounds(f, c), NEW r \in Ranges,
            NEW fk \in DOMAIN f, NEW bk \in DOMAIN f, fk < bk, IsFront(f, r.lo, fk), Covers(f, r.hi, bk),
            NEW k \in DOMAIN f, NEW x \in c[f[k]]
     PROVE  /\ k = fk => (x \in Inside(Key, r) <=> ~(x < r.lo))
            /\ k = bk => (x \in Inside(Key, r) <=> ~(r.hi < x \/ (~r.closed /\ r.hi = x)))
            /\ fk < k /\ k < bk => x \in Inside(Key, r)
            /\ k < fk \/ bk < k => x \notin Inside(Key, r)
  <2> USE <1>RangeAcross, Zenon
  <2> DEFINE lo == r.lo
             hi == r.hi
             closed == r.closed
             within == x \in Inside(Key, r)
  <2>1. lo \in Key /\ hi \in Key /\ closed \in BOOLEAN
    BY DEF Ranges
  <2>2. x \in Key /\ x <= k /\ \A i \in DOMAIN f : i < k => i < x
    BY DEF Bounds
  <2>3. (\A i \in DOMAIN f : i \in Int) /\ lo \in Int /\ hi \in Int /\ x \in Int
    BY <2>1, <2>2, KeysAreIntegers
  <2>4. lo <= fk /\ \A i \in DOMAIN f : lo <= i => fk <= i
    BY DEF IsFront
  <2>5. (\A i \in DOMAIN f : i < bk => i < hi) /\ (hi <= bk \/ \A i \in DOMAIN f : i <= bk)
    BY <2>1, CoversPointwise
  <2>6. within <=> lo <= x /\ (x < hi \/ (closed /\ x = hi))
    BY <2>2 DEF Inside
  <2> HIDE DEF lo, hi, closed, within
  <2>7. k = fk => (within <=> ~(x < lo))
    BY <2>2, <2>3, <2>4, <2>5, <2>6, SMTT(60)
  <2>8. k = bk => (within <=> ~(hi < x \/ (~closed /\ hi = x)))
    BY <2>1, <2>2, <2>3, <2>4, <2>5, <2>6, SMTT(60)
  <2>9. fk < k /\ k < bk => within
    BY <2>2, <2>3, <2>4, <2>5, <2>6, SMTT(60)
  <2>10. k < fk \/ bk < k => ~within
    BY <2>2, <2>3, <2>4, <2>5, <2>6, SMTT(60)
  <2> QED  BY <2>7, <2>8, <2>9, <2>10 DEF lo, hi, closed, within

\* The elements that stay are those outside the range.
<1>RangeLeaves.
     ASSUME NEW R, \A n \in Node : contents'[n] = contents[n] \ R
     PROVE  Members' = Members \ R
  <2> USE <1>RangeLeaves, Zenon
  <2>1. ASSUME NEW x PROVE x \in Members' <=> x \in Members \ R
    <3>1. x \in Members' <=> \E n \in Node : x \in contents'[n]
      BY DEF Members
    <3>2. x \in Members <=> \E n \in Node : x \in contents[n]
      BY DEF Members
    <3> QED  BY <3>1, <3>2
  <2> QED  BY <2>1

\* A range in one node.
<1>OneNodeLinear.
     ASSUME IInv, IInv', SInv, RInv, UnlinkedAreEmpty, Bounds(topo.index, contents), NEW t \in Thread, arg[t] \in Ranges,
            NEW k \in DOMAIN topo.index, IsFront(topo.index, arg[t].lo, k), Covers(topo.index, arg[t].hi, k),
            OneNodeOutcome(t, k)
     PROVE  UnlinkedAreEmpty' /\ \A m \in Node : contents'[m] = contents[m] \ Inside(Key, arg[t])
  <2> USE <1>OneNodeLinear, Zenon
  <2> DEFINE f    == topo.index
             n    == f[k]
             r    == arg[t]
             left == contents[n] \ Inside(contents[n], r)
  <2>1. DOMAIN f \subseteq Key /\ f \in [DOMAIN f -> Node] /\ contents \in [Node -> SUBSET Key]
    BY IndexTypes
  <2>2. n \in Linked /\ n \in Node
    BY <2>1 DEF Linked, Range
  <2>3. contents'[n] = left /\ \A m \in Node \ {n} : contents'[m] = contents[m]
    BY DEF OneNodeOutcome
  <2>4. topo' = topo \/ topo'.index = Rekeyed(f, k, n, left)
    BY DEF OneNodeOutcome
  <2>5. left = contents[n] \ Inside(Key, r)
    <3>1. contents[n] \in SUBSET Key
      BY <2>1, <2>2
    <3> QED  BY <3>1 DEF Inside
  <2>6. ASSUME NEW m \in Node \ {n} PROVE contents'[m] = contents[m] \ Inside(Key, r)
    <3>1. \A x \in contents[m] : x \notin Inside(Key, r)
      <4>1. CASE m \in Linked
        <5>1. PICK j \in DOMAIN f : f[j] = m
          BY <4>1 DEF Linked, Range
        <5> QED  BY <2>1, <2>6, <5>1, <1>RangeInOne
      <4>2. CASE m \notin Linked
        BY <4>2 DEF UnlinkedAreEmpty
      <4> QED  BY <4>1, <4>2
    <3>2. contents'[m] = contents[m]
      BY <2>3, <2>6
    <3> QED  BY <3>1, <3>2
  <2>7. UnlinkedAreEmpty'
    <3>1. CASE topo' = topo
      BY <2>2, <2>3, <3>1, <1>WriteUnlinks
    <3>2. CASE topo'.index = Rekeyed(f, k, n, left)
      <4>1. left \subseteq contents[n]
        OBVIOUS
      <4> HIDE DEF left
      <4> QED  BY <2>3, <3>2, <4>1, <1>RekeyUnlinks
    <3> QED  BY <2>4, <3>1, <3>2
  <2> QED  BY <2>3, <2>5, <2>6, <2>7

\* A range over several nodes leaves no element behind.
<1>SeveralNodesUnlink.
     ASSUME IInv, IInv', SInv, RInv, UnlinkedAreEmpty, Bounds(topo.index, contents), NEW t \in Thread,
            NEW fk \in DOMAIN topo.index, NEW bk \in DOMAIN topo.index, fk < bk, SeveralNodesOutcome(t, fk, bk)
     PROVE  UnlinkedAreEmpty'
  <2> USE <1>SeveralNodesUnlink, Zenon
  <2> DEFINE f == topo.index
             S == DOMAIN f \ Between(fk, bk)
             r == Restrict(f, S)
             n == f[fk]
             c == Kept(t, fk)
             g == Rekeyed(r, fk, n, c)
             h == topo'.index
  <2>1. /\ DOMAIN f \subseteq Key /\ f \in [DOMAIN f -> Node] /\ contents \in [Node -> SUBSET Key]
        /\ \A i, j \in DOMAIN f : f[i] = f[j] => i = j
    BY IndexTypes
  <2>2. DOMAIN r = S /\ \A j \in S : r[j] = f[j]
    BY DEF Restrict
  <2>3. fk \in Int /\ bk \in Int /\ fk # bk
    <3>1. fk \in Int /\ bk \in Int
      BY <2>1, KeysAreIntegers
    <3> QED  BY <3>1, SMT
  <2>4. fk \in S /\ bk \in S
    BY <2>3, SMTT(60) DEF Between
  <2>5. n \in Node /\ c \in SUBSET Key /\ c \subseteq contents[n]
    BY <2>1 DEF Kept
  <2>6. \A x \in c : Covers(r, x, fk)
    <3> SUFFICES ASSUME NEW x \in c PROVE Covers(r, x, fk)
      OBVIOUS
    <3>1. x \in Key /\ x <= fk /\ \A j \in DOMAIN f : j < fk => j < x
      BY <2>5 DEF Bounds
    <3>2. DOMAIN r \subseteq Key /\ fk \in DOMAIN r /\ \A j \in DOMAIN r : j < fk => j < x
      BY <2>1, <2>2, <2>4, <3>1
    <3> HIDE DEF r
    <3> QED  BY <3>1, <3>2, CoversPointwise
  <2>7. (\A j \in DOMAIN r \ {fk} : j \in DOMAIN g /\ g[j] = r[j]) /\ (c # {} => n \in Range(g))
    <3>1. DOMAIN r \subseteq Key /\ fk \in DOMAIN r /\ n = r[fk]
      BY <2>1, <2>2, <2>4
    <3> HIDE DEF r, n, c
    <3> QED  BY <2>5, <2>6, <3>1, <1>RekeyedLinks, SMT
  <2>8. h = IF Trail(t, bk) = {} THEN Without(g, bk) ELSE g
    BY DEF SeveralNodesOutcome, Trimmed
  <2> HIDE DEF r, c, g, h
  <2>9. \A j \in DOMAIN g : (j \in DOMAIN h /\ h[j] = g[j]) \/ (j = bk /\ Trail(t, bk) = {})
    BY <2>8 DEF Without, Restrict
  <2>10. g[bk] = f[bk] /\ bk \in DOMAIN g
    BY <2>2, <2>3, <2>4, <2>7
  <2>11. ASSUME NEW m \in Node, m \notin Range(h) PROVE contents'[m] = {}
    <3>1. contents'[m] = IF m = n THEN c ELSE IF m = f[bk] THEN Trail(t, bk)
                         ELSE IF m \in {f[k] : k \in Between(fk, bk)} THEN {} ELSE contents[m]
      BY DEF SeveralNodesOutcome, c
    <3>2. CASE m = n
      <4> SUFFICES ASSUME c # {} PROVE FALSE
        BY <3>1, <3>2
      <4>1. PICK j \in DOMAIN g : g[j] = n
        BY <2>7 DEF Range
      <4>2. j = bk
        BY <2>9, <2>11, <3>2, <4>1 DEF Range
      <4>3. f[bk] = f[fk]
        BY <2>10, <4>1, <4>2
      <4> QED  BY <2>1, <2>3, <4>3
    <3>3. CASE m # n /\ m = f[bk]
      BY <2>9, <2>10, <2>11, <3>1, <3>3 DEF Range
    <3>4. CASE m # n /\ m # f[bk] /\ m \in {f[k] : k \in Between(fk, bk)}
      BY <3>1, <3>4
    <3>5. CASE m # n /\ m # f[bk] /\ m \notin {f[k] : k \in Between(fk, bk)}
      <4>1. m \notin Linked
        <5> SUFFICES ASSUME NEW j \in DOMAIN f, f[j] = m PROVE FALSE
          BY DEF Linked, Range
        <5>1. j \in S \ {fk} /\ j # bk
          BY <3>5
        <5>2. j \in DOMAIN h /\ h[j] = m
          BY <2>2, <2>7, <2>9, <5>1
        <5> QED  BY <2>11, <5>2 DEF Range
      <4> QED  BY <3>1, <3>5, <4>1 DEF UnlinkedAreEmpty
    <3> QED  BY <3>2, <3>3, <3>4, <3>5
  <2> QED  BY <2>11 DEF UnlinkedAreEmpty, Linked, h

\* It takes away what lies in the range and nothing else.
<1>SeveralNodesLeave.
     ASSUME IInv, UnlinkedAreEmpty, Bounds(topo.index, contents), NEW t \in Thread, arg[t] \in Ranges,
            NEW fk \in DOMAIN topo.index, NEW bk \in DOMAIN topo.index, fk < bk,
            IsFront(topo.index, arg[t].lo, fk), Covers(topo.index, arg[t].hi, bk),
            SeveralNodesOutcome(t, fk, bk), NEW m \in Node
     PROVE  contents'[m] = contents[m] \ Inside(Key, arg[t])
  <2> USE <1>SeveralNodesLeave, Zenon
  <2> DEFINE f == topo.index
             R == Inside(Key, arg[t])
  <2>1. /\ DOMAIN f \subseteq Key /\ f \in [DOMAIN f -> Node]
        /\ \A i, j \in DOMAIN f : f[i] = f[j] => i = j
    BY IndexTypes
  <2>2. \A i \in DOMAIN f : i \in Int
    BY <2>1, KeysAreIntegers
  <2>3. contents'[m] = IF m = f[fk] THEN Kept(t, fk) ELSE IF m = f[bk] THEN Trail(t, bk)
                       ELSE IF m \in {f[k] : k \in Between(fk, bk)} THEN {} ELSE contents[m]
    BY DEF SeveralNodesOutcome
  <2>4. CASE m \notin Linked
    <3>1. contents[m] = {} /\ m # f[fk] /\ m # f[bk] /\ m \notin {f[k] : k \in Between(fk, bk)}
      BY <2>4 DEF UnlinkedAreEmpty, Linked, Range, Between
    <3> QED  BY <2>3, <3>1
  <2>5. ASSUME NEW k \in DOMAIN f, f[k] = m PROVE contents'[m] = contents[m] \ R
    <3>1. \A x \in contents[m] :
            /\ k = fk => (x \in R <=> ~(x < arg[t].lo))
            /\ k = bk => (x \in R <=> ~(arg[t].hi < x \/ (~arg[t].closed /\ arg[t].hi = x)))
            /\ fk < k /\ k < bk => x \in R
            /\ k < fk \/ bk < k => x \notin R
      BY <2>1, <2>5, <1>RangeAcross, SMT
    <3> HIDE DEF R
    <3>2. CASE k = fk
      <4>1. contents'[m] = {x \in contents[m] : x < arg[t].lo}
        BY <2>3, <2>5, <3>2 DEF Kept
      <4> QED  BY <3>1, <3>2, <4>1
    <3>3. CASE k = bk
      <4>1. m # f[fk]
        BY <2>1, <2>2, <2>5, <3>3, SMT
      <4>2. contents'[m] = {x \in contents[m] : arg[t].hi < x \/ (~arg[t].closed /\ arg[t].hi = x)}
        BY <2>3, <2>5, <3>3, <4>1 DEF Trail
      <4> QED  BY <3>1, <3>3, <4>2
    <3>4. CASE fk < k /\ k < bk
      <4>1. m # f[fk] /\ m # f[bk]
        BY <2>1, <2>2, <2>5, <3>4, SMT
      <4>2. m \in {f[j] : j \in Between(fk, bk)}
        BY <2>5, <3>4 DEF Between
      <4> QED  BY <2>3, <3>1, <3>4, <4>1, <4>2
    <3>5. CASE k < fk \/ bk < k
      <4>1. k # fk /\ k # bk /\ k \notin Between(fk, bk)
        BY <2>2, <3>5, SMTT(60) DEF Between
      <4>2. m # f[fk] /\ m # f[bk] /\ m \notin {f[j] : j \in Between(fk, bk)}
        BY <2>1, <2>5, <4>1 DEF Between
      <4> QED  BY <2>3, <3>1, <3>5, <4>2
    <3>6. k = fk \/ k = bk \/ (fk < k /\ k < bk) \/ k < fk \/ bk < k
      BY <2>2, SMTT(60)
    <3> QED  BY <3>2, <3>3, <3>4, <3>5, <3>6
  <2> QED  BY <2>4, <2>5 DEF Linked, Range

\* remove_range takes effect when it commits: by the thread that inserts, no
\* element lies above its node's key.
<1>RangeCommitLinear.
     ASSUME OneInserter, RangeRemovers \subseteq Inserters, IInv, IInv', SInv, RInv, UnlinkedAreEmpty,
            NEW t \in Thread, RangeCommit(t)
     PROVE  Linear(t)
  <2> USE <1>RangeCommitLinear, Zenon
  <2> DEFINE R == Inside(Key, arg[t])
  <2>1. op[t] = "remove_range" /\ arg[t] \in Ranges /\ pc[t] = "range_commit"
    BY LabelOperation, ZenonT(60) DEF IInv, RangeCommit
  <2>2. op' = op /\ arg' = arg /\ Decide(t, TRUE)
    BY ZenonT(60) DEF RangeCommit
  <2>3. t \in Inserters
    BY <2>1, NoneAssumption DEF RInv, CallerInv, MayCall, Operations
  <2>4. ~Repairing(t)
    BY <2>1 DEF Repairing
  <2>5. Bounds(topo.index, contents)
    BY <2>3, <2>4, InserterElsewhere, <1>BoundsHold
  <2>6. UnlinkedAreEmpty' /\ \A m \in Node : contents'[m] = contents[m] \ R
    <3>1. CASE /\ UNCHANGED <<topo, contents>>
               /\ \A fk, bk \in DOMAIN topo.index :
                    ~(IsFront(topo.index, arg[t].lo, fk) /\ Covers(topo.index, arg[t].hi, bk) /\ fk <= bk)
      <4>1. UnlinkedAreEmpty'
        BY <3>1 DEF UnlinkedAreEmpty, Linked
      <4>2. ASSUME NEW m \in Node, NEW x \in contents[m] PROVE x \notin R
        <5>1. PICK k \in DOMAIN topo.index : topo.index[k] = m
          BY <4>2 DEF UnlinkedAreEmpty, Linked, Range
        <5>2. DOMAIN topo.index \subseteq Key
          BY IndexTypes
        <5> QED  BY <2>1, <2>5, <3>1, <4>2, <5>1, <5>2, <1>RangeMisses
      <4> QED  BY <3>1, <4>1, <4>2
    <3>2. ASSUME NEW k \in DOMAIN topo.index, IsFront(topo.index, arg[t].lo, k), Covers(topo.index, arg[t].hi, k),
                 OneNodeOutcome(t, k)
          PROVE  UnlinkedAreEmpty' /\ \A m \in Node : contents'[m] = contents[m] \ R
      BY <2>1, <2>5, <3>2, <1>OneNodeLinear
    <3>3. ASSUME NEW fk \in DOMAIN topo.index, NEW bk \in DOMAIN topo.index, fk < bk,
                 IsFront(topo.index, arg[t].lo, fk), Covers(topo.index, arg[t].hi, bk), SeveralNodesOutcome(t, fk, bk)
          PROVE  UnlinkedAreEmpty' /\ \A m \in Node : contents'[m] = contents[m] \ R
      BY <2>1, <2>5, <3>3, <1>SeveralNodesUnlink, <1>SeveralNodesLeave
    <3> QED  BY <3>1, <3>2, <3>3, RangeCases, ZenonT(60)
  <2>7. Members' = Members \ R
    BY <2>6, <1>RangeLeaves
  <2>8. Effective(t, TRUE)
    BY <2>1, <2>7 DEF Effective
  <2> QED  BY <2>1, <2>2, <2>6, <2>8 DEF Linear, Takes, Pending

\* Lookups answer what is in the set, and the others are invisible.
<1>IdleLinear.
     ASSUME IInv, RInv, UnlinkedAreEmpty, NEW t \in Thread, KeepsNodes(t)
     PROVE  Call(t) \/ Return(t) \/ Linear(t)
  <2> USE <1>IdleLinear, Zenon
  <2>1. UnlinkedAreEmpty' /\ Members' = Members
    BY IdleSteps DEF Idle, UnlinkedAreEmpty, Linked, Members
  <2>2. CASE op' = op /\ arg' = arg /\ res' = res
    BY <2>1, <2>2 DEF Linear, Silent
  <2>3. ASSUME NEW r \in BOOLEAN, op' = op, arg' = arg, Decide(t, r), pc[t] \in Pending,
               op[t] \in {"remove", "contains", "get", "select_optimistic"}, r => arg[t] \in Members,
               op[t] # "select_optimistic" => r = (arg[t] \in Members), op[t] = "remove" => ~r
        PROVE  Linear(t)
    <3>1. op[t] = "remove" => Members' = Members \ {arg[t]}
      BY <2>1, <2>3
    <3>2. Effective(t, r)
      BY <2>1, <2>3, <3>1 DEF Effective
    <3> QED  BY <2>1, <2>3, <3>2 DEF Linear, Takes
  <2>4. DOMAIN topo.index = {} => arg[t] \notin Members
    BY <1>NothingThere
  <2>5. CASE PutRead(t) \/ SplitWrite(t) \/ RekeyWrite(t) \/ RangeWrite(t) \/ AttachWrite(t) \/ Drop(t)
    BY <2>2, <2>5 DEF PutRead, SplitWrite, RekeyWrite, RangeWrite, AttachWrite, Drop, SwapRoot, Release
  <2>6. CASE RemoveRead(t) \/ RemoveWrite(t)
    <3>1. op[t] = "remove" /\ pc[t] \in Pending
      BY <2>6, LabelOperation DEF IInv, RemoveRead, RemoveWrite, Pending
    <3>2. CASE DOMAIN topo.index = {} /\ Decide(t, FALSE) /\ op' = op /\ arg' = arg
      <4>1. FALSE = (arg[t] \in Members)
        BY <2>4, <3>2, SMT
      <4> QED  BY <2>3, <3>1, <3>2, <4>1
    <3> QED  BY <2>2, <2>6, <3>2 DEF RemoveRead, RemoveWrite
  <2>7. CASE GetGeneration(t) \/ GetRoot(t) \/ GetLock(t) \/ DropRef(t)
    BY <2>2, <2>7 DEF GetGeneration, GetRoot, GetLock, DropRef
  <2>8. CASE GetCheck(t) /\ t \in unmoved
    <3> DEFINE r == node[t] # None /\ arg[t] \in contents[node[t]]
    <3>1. r \in BOOLEAN /\ Decide(t, r) /\ op' = op /\ arg' = arg /\ pc[t] = "get_check"
      BY <2>8 DEF GetCheck, Answer
    <3>2. op[t] \in {"contains", "get"} /\ arg[t] \in Key
      BY <3>1, LabelOperation DEF IInv
    <3>4. IF node[t] = None THEN DOMAIN topo.index = {}
          ELSE \E k \in DOMAIN topo.index : Covers(topo.index, arg[t], k) /\ topo.index[k] = node[t]
      BY <2>8, <3>1, ReadIsDefinitive DEF ValidatedReadIsDefinitive
    <3>5. r = (arg[t] \in Members)
      <4>1. CASE node[t] = None
        <5>1. arg[t] \notin Members
          BY <2>4, <3>4, <4>1
        <5> QED  BY <4>1, <5>1, SMT
      <4>2. CASE node[t] # None
        <5>1. PICK k \in DOMAIN topo.index : Covers(topo.index, arg[t], k) /\ topo.index[k] = node[t]
          BY <3>4, <4>2
        <5>2. arg[t] \in Members <=> arg[t] \in contents[node[t]]
          BY <3>2, <5>1, <1>OnlyThere
        <5> QED  BY <4>2, <5>2, SMT
      <4> QED  BY <4>1, <4>2
    <3> HIDE DEF r
    <3>6. pc[t] \in Pending /\ op[t] # "remove" /\ op[t] # "select_optimistic"
      BY <3>1, <3>2 DEF Pending
    <3> QED  BY <2>3, <3>1, <3>2, <3>5, <3>6
  <2>9. CASE GetCheck(t) /\ t \notin unmoved
    BY <2>2, <2>9 DEF GetCheck
  <2>10. CASE GetFallback(t)
    <3>1. op[t] \in {"contains", "get"} /\ arg[t] \in Key
      BY <2>10, LabelOperation DEF IInv, GetFallback
    <3>2. pc[t] \in Pending /\ op[t] # "remove" /\ op[t] # "select_optimistic" /\ op' = op /\ arg' = arg
      BY <2>10, <3>1 DEF Pending, GetFallback
    <3>3. CASE DOMAIN topo.index = {} /\ Decide(t, FALSE)
      <4>1. FALSE = (arg[t] \in Members)
        BY <2>4, <3>3, SMT
      <4> QED  BY <2>3, <3>1, <3>2, <3>3, <4>1
    <3>4. ASSUME NEW k \in DOMAIN topo.index, Covers(topo.index, arg[t], k),
                 Decide(t, arg[t] \in contents[topo.index[k]])
          PROVE  Linear(t)
      <4> DEFINE r == arg[t] \in contents[topo.index[k]]
      <4>1. r \in BOOLEAN /\ Decide(t, r) /\ r = (arg[t] \in Members)
        BY <3>1, <3>4, <1>OnlyThere, SMT
      <4> HIDE DEF r
      <4> QED  BY <2>3, <3>1, <3>2, <4>1
    <3> QED  BY <2>10, <3>3, <3>4 DEF GetFallback, Answer
  <2>11. CASE SelectRead(t)
    <3>1. op[t] = "select_optimistic" /\ pc[t] \in Pending
      BY <2>11, LabelOperation DEF IInv, SelectRead, Pending
    <3>2. CASE DOMAIN topo.index = {} /\ Decide(t, FALSE) /\ op' = op /\ arg' = arg
      BY <2>3, <3>1, <3>2
    <3> QED  BY <2>2, <2>11, <3>2 DEF SelectRead
  <2>12. CASE SelectNode(t)
    <3> DEFINE r == arg[t] \in contents[node[t]]
    <3>1. op[t] = "select_optimistic" /\ pc[t] \in Pending /\ node[t] \in Node
      BY <2>12, LabelOperation DEF IInv, SelectNode, Pending, AtNode
    <3>2. Decide(t, r) /\ op' = op /\ arg' = arg
      BY <2>12 DEF SelectNode
    <3>4. r \in BOOLEAN
      BY SMT
    <3>3. r => arg[t] \in Members
      BY <3>1 DEF Members
    <3> HIDE DEF r
    <3> QED  BY <2>3, <3>1, <3>2, <3>3, <3>4
  <2> QED  BY <2>5, <2>6, <2>7, <2>8, <2>9, <2>10, <2>11, <2>12 DEF KeepsNodes, Get, SelectOptimistic

<1> USE Zenon
<1> SUFFICES ASSUME OneInserter, RangeRemovers \subseteq Inserters, IInv, IInv', SInv, RInv, LInv,
                    NEW t \in Thread, Call(t) \/ Step(t)
             PROVE  LInv' /\ (Call(t) \/ Return(t) \/ Linear(t))
  OBVIOUS
<1>1. ~AttachCommit(t)
  <2>1. AttachCommit(t) => op[t] = "attach_node"
    BY LabelOperation DEF IInv, AttachCommit
  <2> QED  BY <2>1, NoneAssumption DEF RInv, CallerInv, MayCall, Operations, OneInserter
<1>2. UnlinkedAreEmpty
  BY DEF LInv
<1>3. UnlinkedAreEmpty' /\ (Call(t) \/ Return(t) \/ Linear(t))
  <2>1. CASE KeepsNodes(t)
    <3>1. UnlinkedAreEmpty'
      BY <1>2, <2>1, IdleSteps DEF Idle, UnlinkedAreEmpty, Linked
    <3> QED  BY <1>2, <2>1, <3>1, <1>IdleLinear
  <2>2. CASE ~KeepsNodes(t)
    BY <1>1, <1>2, <2>2, <1>PutNodeLinear, <1>RemoveNodeLinear, <1>PutRootLinear, <1>SplitLinear, <1>UpdateMaxLinear,
       <1>RemoveCommitLinear, <1>RangeCommitLinear
       DEF KeepsNodes, Step, Put, Commit, Delete, RemoveRange, Attach, Linear
  <2> QED  BY <2>1, <2>2
<1>4. ResInv'
  BY OutcomeStep DEF LInv
<1> QED  BY <1>3, <1>4 DEF LInv

\* The set refines the atomic set.
LEMMA NextLinear ==
  ASSUME OneInserter, RangeRemovers \subseteq Inserters
  PROVE  IInv /\ IInv' /\ SInv /\ RInv /\ LInv /\ [Next]_vars => LInv' /\ [Atomic!Next]_Atomic!vars
\* A step that decides an outcome is the instant at which the call takes effect.
<1>TakesEffect.
     ASSUME IInv, UnlinkedAreEmpty, IInv', UnlinkedAreEmpty', NEW t \in Thread,
            op[t] # None, res[t] = None, op' = op, arg' = arg, NEW r \in BOOLEAN, Decide(t, r), Effective(t, r)
     PROVE  Atomic!Next
  <2> USE <1>TakesEffect, Zenon
  <2> DEFINE set == UNION {contents[n] : n \in Linked}
  <2>1. set = Members /\ set' = Members'
    BY AbstractSet
  <2>2. op[t] \in Operations
    BY DEF IInv, TypeOK
  <2>3. Atomic!Within(arg[t]) = Inside(Key, arg[t])
    BY DEF Atomic!Within, Inside, Key, Atomic!Key
  <2>4. Atomic!Effect(op[t], arg[t], r, set')
    BY <2>1, <2>2, <2>3, ZenonT(60) DEF Atomic!Effect, Effective, Operations
  <2>5. Atomic!TakeEffect(t)
    BY <2>4 DEF Atomic!TakeEffect, Decide
  <2> QED  BY <2>5 DEF Atomic!Next

\* A call, an instant at which a call takes effect, a return, or nothing.
<1>LinearSteps.
     ASSUME IInv, IInv', LInv, UnlinkedAreEmpty', NEW t \in Thread, Call(t) \/ Return(t) \/ Linear(t)
     PROVE  [Atomic!Next]_Atomic!vars
  <2> USE <1>LinearSteps, Zenon
  <2> DEFINE set == UNION {contents[n] : n \in Linked}
  <2>1. ASSUME Members' = Members PROVE set' = set
    BY <2>1, AbstractSet DEF LInv
  <2>2. CASE Call(t)
    <3>1. topo' = topo /\ contents' = contents /\ res' = res /\ pc[t] = "idle"
      BY <2>2 DEF Call, shared
    <3>2. op[t] = None
      BY <3>1, ZenonT(60) DEF IInv, TypeOK, ThreadOK, Labels, Operations
    <3>3. PICK o \in Operations : op' = [op EXCEPT ![t] = o] /\ \E a \in Arguments(o) : arg' = [arg EXCEPT ![t] = a]
      BY <2>2 DEF Call
    <3>4. PICK a \in Arguments(o) : arg' = [arg EXCEPT ![t] = a]
      BY <3>3
    <3>5. op'[t] = o /\ arg'[t] = a
      BY <3>3, <3>4 DEF IInv, TypeOK
    <3>6. o \in Atomic!Operations /\ a \in Atomic!Arguments(o)
      BY DEF Operations, Arguments, Ranges, Key, Atomic!Operations, Atomic!Arguments, Atomic!Key
    <3>7. set' = set
      BY <3>1 DEF Linked
    <3>8. Atomic!Invoke(t)
      BY <3>1, <3>2, <3>3, <3>4, <3>5, <3>6, <3>7 DEF Atomic!Invoke
    <3> QED  BY <3>8 DEF Atomic!Next
  <2>3. CASE Return(t)
    <3>1. set' = set /\ res[t] # None
      BY <2>3 DEF Return, shared, Linked, LInv, ResInv, ResOK, Decided
    <3>2. Atomic!Return(t)
      BY <2>3, <3>1 DEF Return, Decide, Atomic!Return
    <3> QED  BY <3>2 DEF Atomic!Next
  <2>4. CASE Silent(t)
    <3>1. set' = set
      BY <2>1, <2>4 DEF Silent
    <3> QED  BY <2>4, <3>1 DEF Silent, Atomic!vars
  <2>5. CASE Takes(t)
    <3>1. res[t] = None /\ pc[t] \notin {"idle", "walk"}
      BY <2>5 DEF Takes, LInv, ResInv, ResOK, Undecided, Pending
    <3>2. op[t] # None
      BY <3>1, LabelOperation, NoneAssumption DEF IInv
    <3>3. PICK r \in BOOLEAN : Decide(t, r) /\ Effective(t, r)
      BY <2>5 DEF Takes
    <3>4. op' = op /\ arg' = arg
      BY <2>5 DEF Takes
    <3>5. Atomic!Next
      BY <3>1, <3>2, <3>3, <3>4, <1>TakesEffect DEF LInv
    <3> QED  BY <3>5
  <2> QED  BY <2>2, <2>3, <2>4, <2>5 DEF Linear

<1> SUFFICES ASSUME IInv, IInv', SInv, RInv, LInv, [Next]_vars
             PROVE  LInv' /\ [Atomic!Next]_Atomic!vars
  BY Zenon
<1>1. CASE UNCHANGED vars
  <2>1. LInv'
    BY <1>1, Zenon DEF vars, shared, locals, LInv, ResInv, ResOK, UnlinkedAreEmpty, Linked
  <2> QED  BY <1>1, <2>1, Zenon DEF vars, shared, locals, Linked, Atomic!vars
<1>2. ASSUME NEW t \in Thread, Call(t) \/ Step(t) PROVE LInv' /\ [Atomic!Next]_Atomic!vars
  <2>1. LInv' /\ (Call(t) \/ Return(t) \/ Linear(t))
    BY <1>2, StepLinear
  <2>2. UnlinkedAreEmpty'
    BY <2>1 DEF LInv
  <2> QED  BY <2>1, <2>2, <1>LinearSteps
<1> QED  BY <1>1, <1>2, Zenon DEF Next

=============================================================================
