--------------------------- MODULE RoutingProofs ----------------------------
(***************************************************************************)
(* Every operation keeps nodes keyed by their maxima or schedules the      *)
(* repair of a stale key, and keeps every element where the index routes   *)
(* it to, for any number of keys, nodes and threads and any node capacity. *)
(***************************************************************************)
EXTENDS ConcurrentSetLemmas

-----------------------------------------------------------------------------
(* Stale routing keys: one step.                                           *)

\* What a step of thread t does to the entry of node n under key k: the entry
\* is exact, or an old one whose maximum stays, or t is now its repairer.
Exactly(k, n) == contents'[n] # {} /\ Max(contents'[n]) = k

Remains(k, n) == k \in DOMAIN topo.index /\ topo.index[k] = n

MaximumStays(t, k, n) ==
  /\ Remains(k, n) /\ contents'[n] # {}
  /\ Max(contents'[n]) = Max(contents[n])
  /\ Repairs(t, n, k) => RepairsNext(t, n, k) /\ op'[t] = op[t]

Scheduled(t, k, n) ==
  /\ Remains(k, n) /\ ~Repairing(t) /\ RepairsNext(t, n, k) /\ contents'[n] # {}
  /\ contents'[n] \subseteq contents[n] \/ op'[t] = "insert"

-----------------------------------------------------------------------------
(* Stale routing keys: the steps of each operation.                        *)

\* A new or restored set keys every node by its maximum.
LEMMA InitRepairs == KeySetsCount /\ Init => SInv
<1> USE Zenon
<1> SUFFICES ASSUME KeySetsCount, Init PROVE SInv
  OBVIOUS
<1>1. contents \in [Node -> SUBSET Key] /\ topo.index = AttachedIndex(contents)
  BY RestoredAssumption DEF Init
<1>2. ASSUME NEW k \in DOMAIN topo.index
      PROVE  contents[topo.index[k]] \in SUBSET Key /\ contents[topo.index[k]] # {} /\ Max(contents[topo.index[k]]) = k /\ k \in Key
  BY <1>1, <1>2, AttachedIndexType
<1>3. ASSUME NEW k \in DOMAIN topo.index, NEW v \in contents[topo.index[k]] PROVE ~(k < v)
  <2>1. v <= k
    BY <1>2, MaxIsGreatest
  <2> QED  BY <1>2, <2>1, MaxKeyAssumption, SMTT(60) DEF Key
<1>4. RepairInv
  BY <1>2, <1>3 DEF RepairInv, EntryRepaired
<1>5. HeldInv
  BY DEF HeldInv, Held, Init
<1> QED  BY <1>4, <1>5 DEF SInv

\* Every step of every thread preserves the invariant.
LEMMA NextRepairs == IInv /\ IInv' /\ SInv /\ [Next]_vars => SInv'
<1> SUFFICES ASSUME KeySetsCount PROVE IInv /\ IInv' /\ SInv /\ [Next]_vars => SInv'
  BY Zenon DEF IInv

\* A step that treats every entry in one of these ways preserves the invariant.
<1>RepairStep.
     ASSUME IInv, IInv', RepairInv, NEW t \in Thread, OthersStay(t),
            \A k \in DOMAIN topo'.index :
              \/ Exactly(k, topo'.index[k])
              \/ MaximumStays(t, k, topo'.index[k])
              \/ Scheduled(t, k, topo'.index[k])
     PROVE  RepairInv'
  <2> USE <1>RepairStep, Zenon
  <2>0. ASSUME NEW k \in DOMAIN topo'.index, NEW n, n = topo'.index[k]
        PROVE  /\ contents'[n] # {}
               /\ Max(contents'[n]) # k => \E u \in Thread : RepairsNext(u, n, k)
               /\ \A v \in contents'[n] : k < v => \E u \in Thread : op'[u] = "insert" /\ RepairsNext(u, n, k)
    <3>1. n \in Node /\ contents'[n] \in SUBSET Key /\ k \in Key
      BY <2>0, IndexTypesNext
    <3>2. \A u \in Thread : u # t /\ Repairs(u, n, k) => RepairsNext(u, n, k) /\ op'[u] = op[u]
      BY DEF OthersStay, Repairs, Repairing, RepairsNext
    <3>3. Remains(k, n) => EntryRepaired(k, n)
      BY DEF Remains, RepairInv
    <3>5. CASE Exactly(k, n)
      <4>1. contents'[n] # {} => \A v \in contents'[n] : v <= k
        BY <3>1, <3>5, MaxIsGreatest DEF Exactly
      <4>2. \A v \in contents'[n] : ~(k < v)
        BY <3>1, <4>1, MaxKeyAssumption, SMTT(60) DEF Key
      <4> QED  BY <3>5, <4>2 DEF Exactly
    <3>6. CASE MaximumStays(t, k, n)
      <4>1. \A u \in Thread : Repairs(u, n, k) => RepairsNext(u, n, k) /\ op'[u] = op[u]
        BY <3>2, <3>6 DEF MaximumStays
      <4>2. EntryRepaired(k, n)
        BY <3>3, <3>6 DEF MaximumStays
      <4>3. contents[n] \in SUBSET Key /\ contents[n] # {} /\ Max(contents[n]) \in contents[n]
        <5>1. contents[n] \in SUBSET Key /\ contents[n] # {}
          BY <3>1, <4>2, IndexTypes DEF EntryRepaired
        <5> QED  BY <5>1, MaxIsGreatest
      <4>4. \A v \in contents'[n] : v <= Max(contents[n])
        BY <3>1, <3>6, MaxIsGreatest DEF MaximumStays
      <4>5. ASSUME NEW v \in contents'[n], k < v PROVE k < Max(contents[n])
        <5> DEFINE m == Max(contents[n])
        <5>1. v <= m /\ m \in Key /\ v \in Key
          BY <3>1, <4>3, <4>4
        <5> HIDE DEF m
        <5>2. k < m
          BY <3>1, <4>5, <5>1, MaxKeyAssumption, SMTT(60) DEF Key
        <5> QED  BY <5>2 DEF m
      <4> QED  BY <3>6, <4>1, <4>2, <4>3, <4>5 DEF MaximumStays, EntryRepaired
    <3>7. CASE Scheduled(t, k, n)
      <4>1. EntryRepaired(k, n) /\ RepairsNext(t, n, k) /\ ~Repairs(t, n, k)
        BY <3>3, <3>7 DEF Scheduled, Repairs
      <4> QED  BY <3>2, <3>7, <4>1 DEF Scheduled, EntryRepaired
    <3> QED  BY <2>0, <3>5, <3>6, <3>7
  <2>8. \A k \in DOMAIN topo'.index : EntryRepaired(k, topo.index[k])'
    BY <2>0, SMTT(60) DEF EntryRepaired, Repairs, Repairing, RepairsNext
  <2> QED  BY <2>8 DEF RepairInv

\* Only the holder of the structural write lock changes the index, so the
\* entries of threads that hold the lock themselves stay current.
<1>HeldStep.
     ASSUME IInv, HeldInv, NEW t \in Thread, OthersStay(t),
            topo' = topo \/ \A u \in Thread \ {t} : pc[u] \notin Writing \cup Reading,
            pc'[t] \in Held => EntryIsCurrent(t)' /\ Covers(topo'.index, arg'[t], key'[t])
     PROVE  HeldInv'
  <2> USE <1>HeldStep, Zenon
  <2> SUFFICES ASSUME NEW u \in Thread, pc'[u] \in Held
               PROVE  EntryIsCurrent(u)' /\ Covers(topo'.index, arg'[u], key'[u])
    BY DEF HeldInv
  <2>1. CASE u = t
    BY <2>1
  <2>2. CASE u # t
    <3>1. pc[u] = pc'[u] /\ key'[u] = key[u] /\ node'[u] = node[u] /\ arg'[u] = arg[u]
      BY <2>2 DEF OthersStay
    <3>2. topo' = topo
      BY <2>2, <3>1 DEF Held, Writing, Reading, Publishing
    <3> QED  BY <3>1, <3>2 DEF HeldInv, EntryIsCurrent
  <2> QED  BY <2>1, <2>2

\* Such steps preserve the invariant.
<1>UndisturbedStep.
     ASSUME IInv, IInv', SInv, NEW t \in Thread, Undisturbed(t)
     PROVE  SInv'
  <2> USE <1>UndisturbedStep, Zenon
  <2>1. HeldInv'
    BY <1>HeldStep DEF SInv, Undisturbed
  <2>2. OthersStay(t) /\ topo' = topo /\ contents' = contents
    BY DEF Undisturbed
  <2>3. ASSUME NEW k \in DOMAIN topo'.index PROVE MaximumStays(t, k, topo'.index[k])
    <3>1. Remains(k, topo'.index[k]) /\ contents[topo'.index[k]] # {}
      BY <2>2, <2>3 DEF Remains, SInv, RepairInv, EntryRepaired
    <3>2. Repairs(t, topo'.index[k], k) => RepairsNext(t, topo'.index[k], k) /\ op'[t] = op[t]
      BY DEF Undisturbed, Repairs, RepairsNext
    <3> QED  BY <2>2, <3>1, <3>2 DEF MaximumStays
  <2>4. RepairInv'
    BY <2>2, <2>3, <1>RepairStep DEF SInv
  <2> QED  BY <2>1, <2>4 DEF SInv

\* A node that loses one of several elements keeps another.
<1>SeveralElements.
     ASSUME KeySetsCount, NEW c \in SUBSET Key, NEW v \in c, Cardinality(c) > 1
     PROVE  c \ {v} # {}
  <2> USE <1>SeveralElements
  <2>1. Cardinality(c \ {v}) = Cardinality(c) - 1 /\ Cardinality(c) \in Nat /\ Cardinality({}) = 0
    BY Zenon DEF KeySetsCount
  <2>2. Cardinality(c \ {v}) # Cardinality({})
    <3> DEFINE d == Cardinality(c)
    <3>1. d \in Nat /\ d > 1
      BY <2>1, Zenon
    <3> HIDE DEF d
    <3>2. d - 1 # 0
      BY <3>1, SMT
    <3> QED  BY <2>1, <3>2, Zenon DEF d
  <2> QED  BY <2>2, Zenon

\* A node's maximum changes only when the thread schedules a repair.
<1>NodeMaximum.
     ASSUME IInv, NEW t \in Thread, PutNode(t) \/ RemoveNode(t), contents[node[t]] # {}
     PROVE  LET n == node[t]
            IN  /\ contents'[n] # {}
                /\ \/ RepairsNext(t, n, key[t]) /\ (op[t] = "insert" \/ contents'[n] \subseteq contents[n])
                   \/ Max(contents'[n]) = Max(contents[n])
  <2> USE <1>NodeMaximum, Zenon
  <2> DEFINE n == node[t]
             c == contents[n]
             v == arg[t]
  <2>1. n \in Node /\ v \in Key /\ c \in SUBSET Key /\ c # {}
    BY NodeStepFrame DEF IInv, TypeOK
  <2>2. Max(c) \in c /\ \A y \in c : y <= Max(c)
    BY <2>1, MaxIsGreatest
  <2>3. CASE UNCHANGED contents
    BY <2>1, <2>3
  <2>4. ASSUME NEW x \in c, v < x, Store(n, c \cup {v})
        PROVE  contents'[n] # {} /\ Max(contents'[n]) = Max(c)
    <3>1. contents'[n] = c \cup {v}
      BY <2>1, <2>4 DEF Store, IInv, TypeOK
    <3>2. \A y \in c \cup {v} : y <= Max(c)
      <4> HIDE DEF c, v
      <4>1. Max(c) \in Key /\ x \in Key
        BY <2>1, <2>2
      <4> QED  BY <2>1, <2>2, <2>4, <4>1, MaxKeyAssumption, SMTT(60) DEF Key
    <3>3. Max(c \cup {v}) = Max(c)
      BY <2>1, <2>2, <3>2, MaxIs
    <3> QED  BY <3>1, <3>2, <3>3, <2>2
  <2>5. ASSUME NEW x \in c, v < x, Store(n, c \ {v})
        PROVE  contents'[n] # {} /\ Max(contents'[n]) = Max(c)
    <3>1. contents'[n] = c \ {v}
      BY <2>1, <2>5 DEF Store, IInv, TypeOK
    <3>2. Max(c) # v
      <4> HIDE DEF c, v
      <4>1. Max(c) \in Key /\ x \in Key
        BY <2>1, <2>2
      <4> QED  BY <2>1, <2>2, <2>5, <4>1, MaxKeyAssumption, SMTT(60) DEF Key
    <3>3. Max(c \ {v}) = Max(c)
      BY <2>1, <2>2, <3>2, MaxIs
    <3> QED  BY <3>1, <3>2, <3>3, <2>2
  <2>6. CASE PutNode(t)
    <3>1. op[t] = "insert" /\ op' = op
      BY <2>6, LabelOperation, ZenonT(60) DEF IInv, PutNode
    <3>2. CASE Store(n, c \cup {v}) /\ \E x \in c : v < x
      BY <2>4, <3>2
    <3>3. CASE Goto(t, "rekey_write") /\ UNCHANGED <<node, key>> /\ Store(n, c \cup {v})
      <4>1. contents'[n] = c \cup {v}
        BY <2>1, <3>3 DEF Store, IInv, TypeOK
      <4> QED  BY <2>1, <3>1, <3>3, <4>1, ZenonT(60) DEF IInv, TypeOK, RepairsNext, Goto
    <3> QED  BY <2>3, <2>6, <3>2, <3>3, ZenonT(60) DEF PutNode
  <2>7. CASE RemoveNode(t)
    <3>2. CASE Store(n, c \ {v}) /\ \E x \in c : v < x
      BY <2>5, <3>2
    <3>3. CASE /\ Goto(t, "rekey_write") /\ UNCHANGED <<node, key>>
               /\ v \in c /\ Cardinality(c) > 1 /\ Store(n, c \ {v})
      <4>1. contents'[n] = c \ {v}
        BY <2>1, <3>3 DEF Store, IInv, TypeOK
      <4>2. c \ {v} # {}
        BY <2>1, <3>3, <1>SeveralElements DEF IInv
      <4> QED  BY <3>3, <4>1, <4>2, ZenonT(60) DEF IInv, TypeOK, RepairsNext, Goto
    <3> QED  BY <2>3, <2>7, <3>2, <3>3, ZenonT(60) DEF RemoveNode
  <2> QED  BY <2>6, <2>7

\* put_checked_inner and remove_inner schedule the repair of a key they make stale.
<1>NodeStepRepairs.
     ASSUME IInv, IInv', SInv, NEW t \in Thread, PutNode(t) \/ RemoveNode(t)
     PROVE  SInv'
  <2> USE <1>NodeStepRepairs, Zenon
  <2>0. OthersStay(t) /\ topo' = topo /\ ~Repairing(t) /\ op' = op
    BY NodeStepFrame
  <2>1. HeldInv'
    BY <2>0, NodeStepFrame, <1>HeldStep DEF SInv
  <2>2. key[t] \in DOMAIN topo.index /\ topo.index[key[t]] = node[t] /\ contents[node[t]] # {}
    <3>1. key[t] \in DOMAIN topo.index /\ topo.index[key[t]] = node[t]
      BY NodeStepFrame DEF SInv, HeldInv, EntryIsCurrent
    <3> QED  BY <3>1 DEF SInv, RepairInv, EntryRepaired
  <2>3. ASSUME NEW k \in DOMAIN topo'.index, NEW n, n = topo'.index[k]
        PROVE  MaximumStays(t, k, n) \/ Scheduled(t, k, n)
    <3>1. Remains(k, n) /\ contents[n] # {} /\ n \in Node
      BY <2>0, <2>3, IndexTypes DEF Remains, SInv, RepairInv, EntryRepaired
    <3>2. CASE n = node[t]
      <4>1. k = key[t]
        BY <2>2, <3>1, <3>2, IndexTypes DEF Remains
      <4>2. /\ contents'[n] # {}
            /\ \/ RepairsNext(t, n, k) /\ (op[t] = "insert" \/ contents'[n] \subseteq contents[n])
               \/ Max(contents'[n]) = Max(contents[n])
        BY <2>2, <3>2, <4>1, <1>NodeMaximum
      <4> QED  BY <2>0, <3>1, <4>2 DEF MaximumStays, Scheduled, Repairs
    <3>3. CASE n # node[t]
      <4>1. contents'[n] = contents[n]
        BY <3>1, <3>3, NodeStepFrame
      <4> QED  BY <2>0, <3>1, <4>1 DEF MaximumStays, Repairs
    <3> QED  BY <3>2, <3>3
  <2>4. RepairInv'
    BY <2>0, <2>3, <1>RepairStep DEF SInv
  <2> QED  BY <2>1, <2>4 DEF SInv

\* What remains to be shown of a commit: every entry is exact or an old one whose
\* maximum stays and which the thread does not repair.
<1>CommitRepairs.
     ASSUME IInv, IInv', SInv, NEW t \in Thread, Commits(t),
            \A k \in DOMAIN topo'.index :
              \/ Exactly(k, topo'.index[k])
              \/ MaximumStays(t, k, topo'.index[k])
     PROVE  SInv'
  <2> USE <1>CommitRepairs, Zenon
  <2>1. OthersStay(t)
    BY CommitFrame
  <2>2. HeldInv'
    BY <2>1, CommitFrame, <1>HeldStep DEF SInv
  <2>3. RepairInv'
    BY <2>1, <1>RepairStep DEF SInv
  <2> QED  BY <2>2, <2>3 DEF SInv

\* An entry of a node that a commit leaves alone.
<1>Untouched.
     ASSUME SInv, NEW t, NEW k \in DOMAIN topo.index, NEW n, n = topo.index[k],
            contents'[n] = contents[n], ~Repairs(t, n, k)
     PROVE  MaximumStays(t, k, n)
  <2> USE <1>Untouched, Zenon
  <2>1. contents[n] # {}
    BY DEF SInv, RepairInv, EntryRepaired
  <2> QED  BY <2>1 DEF MaximumStays, Remains

\* A commit that finds nothing to do.
<1>NoCommit.
     ASSUME IInv, IInv', SInv, NEW t \in Thread, Commits(t), UNCHANGED <<topo, contents>>, ~Repairing(t)
     PROVE  SInv'
  <2> USE <1>NoCommit, Zenon
  <2>1. ASSUME NEW k \in DOMAIN topo'.index PROVE MaximumStays(t, k, topo'.index[k])
    BY <2>1, <1>Untouched DEF Repairs
  <2> QED  BY <2>1, <1>CommitRepairs

\* The first node and an attached node are keyed by their maximum.
<1>InsertCommitRepairs.
     ASSUME IInv, IInv', SInv, NEW t \in Thread, PutRoot(t) \/ AttachCommit(t)
     PROVE  SInv'
  <2> USE <1>InsertCommitRepairs, Zenon
  <2>0. ~Repairing(t) /\ Commits(t)
    BY DEF Repairing, PutRoot, AttachCommit, Commits
  <2>1. CASE UNCHANGED <<topo, contents>>
    BY <2>0, <2>1, <1>NoCommit
  <2>2. ASSUME NEW c \in SUBSET Key, c # {}, NEW m \in Key, m = Max(c), FreeNodes # {}, Store(NewNode, c),
               topo' = Insert(topo, m, NewNode)
        PROVE  SInv'
    <3>1. NewNode \in Node /\ NewNode \notin Range(topo.index)
      BY <2>2, NewNodeIsFree DEF IInv
    <3>2. topo'.index = With(topo.index, m, NewNode)
      BY <2>2, <3>1, IndexTypes, InsertMirrors
    <3>3. contents'[NewNode] = c /\ \A n \in Node \ {NewNode} : contents'[n] = contents[n]
      BY <2>2, <3>1, IndexTypes DEF Store
    <3>4. ASSUME NEW k \in DOMAIN topo'.index
          PROVE  Exactly(k, topo'.index[k]) \/ MaximumStays(t, k, topo'.index[k])
      <4>1. CASE k = m
        BY <2>2, <3>2, <3>3, <4>1 DEF With, Exactly
      <4>2. CASE k # m
        <5>1. k \in DOMAIN topo.index /\ topo'.index[k] = topo.index[k]
          BY <3>2, <3>4, <4>2 DEF With
        <5>2. topo.index[k] \in Node \ {NewNode}
          BY <3>1, <5>1, IndexTypes DEF Range
        <5> QED  BY <2>0, <3>3, <5>1, <5>2, <1>Untouched DEF Repairs
      <4> QED  BY <4>1, <4>2
    <3> QED  BY <2>0, <3>4, <1>CommitRepairs
  <2>3. CASE PutRoot(t)
    <3>1. arg[t] \in Key
      BY <2>3, LabelOperation, ZenonT(60) DEF IInv, PutRoot
    <3>2. {arg[t]} \in SUBSET Key /\ {arg[t]} # {} /\ arg[t] <= arg[t]
      BY <3>1, KeysAreIntegers, SMT
    <3>3. arg[t] = Max({arg[t]})
      BY <3>2, MaxIs
    <3> QED  BY <2>1, <2>2, <2>3, <3>1, <3>2, <3>3, ZenonT(60) DEF PutRoot
  <2>4. CASE AttachCommit(t)
    <3>1. arg[t] \in SUBSET Key /\ arg[t] # {}
      BY <2>4, LabelOperation, ZenonT(60) DEF IInv, AttachCommit
    <3>2. Max(arg[t]) \in Key
      BY <3>1, MaxInKey
    <3> QED  BY <2>1, <2>2, <2>4, <3>1, <3>2, ZenonT(60) DEF AttachCommit
  <2> QED  BY <2>3, <2>4

\* Both halves of a split are keyed by their maximum.
<1>SplitRepairs.
     ASSUME IInv, IInv', SInv, NEW t \in Thread, SplitCommit(t)
     PROVE  SInv'
  <2> USE <1>SplitRepairs, Zenon
  <2>0. node[t] \in Node /\ ~Repairing(t) /\ Commits(t)
    BY SplitEffect DEF Commits
  <2>1. CASE UNCHANGED <<topo, contents>>
    BY <2>0, <2>1, <1>NoCommit
  <2>2. ASSUME NEW left \in SUBSET Key, NEW right \in SUBSET Key, right # {}, Splits(t, left, right)
        PROVE  SInv'
    <3> DEFINE g == Rekeyed(topo.index, key[t], node[t], left)
    <3>1. /\ key[t] \in DOMAIN topo.index /\ topo.index[key[t]] = node[t]
          /\ topo'.index = With(g, Max(right), NewNode)
          /\ contents'[node[t]] = left /\ contents'[NewNode] = right
          /\ NewNode \notin Range(topo.index)
          /\ \A n \in Node \ {node[t], NewNode} : contents'[n] = contents[n]
      <4>1. SplitOutcome(t, left, right)
        BY <2>0, <2>2, SplitResult
      <4> QED  BY <4>1 DEF SplitOutcome
    <3> HIDE DEF g
    <3>2. ASSUME NEW k \in DOMAIN topo'.index
          PROVE  Exactly(k, topo'.index[k]) \/ MaximumStays(t, k, topo'.index[k])
      <4>1. CASE k = Max(right)
        BY <2>2, <3>1, <4>1 DEF With, Exactly
      <4>2. CASE k # Max(right)
        <5>1. k \in DOMAIN g /\ topo'.index[k] = g[k]
          BY <3>1, <3>2, <4>2 DEF With
        <5>2. CASE left # {} /\ k = Max(left) /\ g[k] = node[t]
          BY <3>1, <5>1, <5>2 DEF Exactly
        <5>3. CASE k \in DOMAIN topo.index /\ k # key[t] /\ g[k] = topo.index[k]
          <6>1. topo.index[k] \in Node \ {node[t], NewNode}
            BY <3>1, <5>3, IndexTypes DEF Range
          <6> QED  BY <2>0, <3>1, <5>1, <5>3, <6>1, <1>Untouched DEF Repairs
        <5> QED  BY <5>1, <5>2, <5>3, RekeyedEntries, SMT DEF g
      <4> QED  BY <4>1, <4>2
    <3> QED  BY <2>0, <3>2, <1>CommitRepairs
  <2> QED  BY <2>1, <2>2, SplitEffect, ZenonT(60)

\* A commit that finds its entry stale makes it exact; one that does not leaves
\* an exact entry or one that another thread has moved.
<1>UpdateMaxRepairs.
     ASSUME IInv, IInv', SInv, NEW t \in Thread, UpdateMax(t)
     PROVE  SInv'
  <2> USE <1>UpdateMaxRepairs, Zenon
  <2> DEFINE g == Rekeyed(topo.index, key[t], node[t], contents[node[t]])
  <2>0. contents' = contents /\ Commits(t)
    BY UpdateMaxEffect DEF Commits
  <2>1. ASSUME NEW k \in DOMAIN topo'.index, NEW n, n = topo'.index[k]
        PROVE  Exactly(k, n) \/ MaximumStays(t, k, n)
    <3>1. CASE ~NeedsRekey(t) /\ topo' = topo
      <4>1. CASE node[t] = n /\ key[t] = k
        <5>1. contents[n] # {}
          BY <2>1, <3>1 DEF SInv, RepairInv, EntryRepaired
        <5> QED  BY <2>0, <2>1, <3>1, <4>1, <5>1 DEF NeedsRekey, EntryIsCurrent, Exactly
      <4>2. CASE ~(node[t] = n /\ key[t] = k)
        BY <2>0, <2>1, <3>1, <4>2, <1>Untouched DEF Repairs
      <4> QED  BY <4>1, <4>2
    <3>2. CASE topo'.index = g
      <4> HIDE DEF g
      <4>1. CASE contents[node[t]] # {} /\ k = Max(contents[node[t]]) /\ g[k] = node[t]
        BY <2>0, <2>1, <3>2, <4>1 DEF Exactly
      <4>2. CASE k \in DOMAIN topo.index /\ k # key[t] /\ g[k] = topo.index[k]
        BY <2>0, <2>1, <3>2, <4>2, <1>Untouched DEF Repairs
      <4> QED  BY <2>1, <3>2, <4>1, <4>2, RekeyedEntries, SMT DEF g
    <3> QED  BY <3>1, <3>2, UpdateMaxEffect
  <2> QED  BY <2>0, <2>1, <1>CommitRepairs

\* Unlinking a drained node leaves the other entries alone.
<1>RemoveCommitRepairs.
     ASSUME IInv, IInv', SInv, NEW t \in Thread, RemoveCommit(t)
     PROVE  SInv'
  <2> USE <1>RemoveCommitRepairs, Zenon
  <2> DEFINE g == Rekeyed(topo.index, key[t], node[t], {})
  <2>0. ~Repairing(t) /\ Commits(t) /\ key[t] \in DOMAIN topo.index /\ topo.index[key[t]] = node[t]
    BY RemoveCommitEffect DEF Commits
  <2>1. CASE UNCHANGED <<topo, contents>>
    BY <2>0, <2>1, <1>NoCommit
  <2>2. CASE topo'.index = g /\ \A n \in Node \ {node[t]} : contents'[n] = contents[n]
    <3>1. ASSUME NEW k \in DOMAIN topo'.index, NEW n, n = topo'.index[k]
          PROVE  MaximumStays(t, k, n)
      <4>1. k \in DOMAIN topo.index /\ k # key[t] /\ n = topo.index[k]
        BY <2>2, <3>1, RekeyedEntries, SMT
      <4>2. n \in Node \ {node[t]}
        BY <2>0, <4>1, IndexTypes
      <4> QED  BY <2>0, <2>2, <4>1, <4>2, <1>Untouched DEF Repairs
    <3> QED  BY <2>0, <3>1, <1>CommitRepairs
  <2> QED  BY <2>1, <2>2, RemoveCommitEffect

\* Every node remove_range cuts is re-keyed, unlinked, or keeps its maximum.
<1>RangeCommitRepairs.
     ASSUME IInv, IInv', SInv, NEW t \in Thread, RangeCommit(t)
     PROVE  SInv'
  <2> USE <1>RangeCommitRepairs, Zenon
  <2>1. ~Repairing(t) /\ Commits(t)
    BY DEF Repairing, RangeCommit, Commits
  <2>2. arg[t] \in Ranges
    BY LabelOperation, ZenonT(60) DEF IInv, RangeCommit
  <2>3. \A k \in DOMAIN topo.index : topo.index[k] \in Node /\ contents[topo.index[k]] # {}
                                     /\ contents[topo.index[k]] \in SUBSET Key /\ k \in Int
    BY IndexTypes, KeysAreIntegers DEF SInv, RepairInv, EntryRepaired
  <2>4. CASE UNCHANGED <<topo, contents>>
    BY <2>1, <2>4, <1>NoCommit
  <2>5. ASSUME NEW fk \in DOMAIN topo.index, OneNodeOutcome(t, fk), NEW k \in DOMAIN topo'.index, NEW n, n = topo'.index[k]
        PROVE  Exactly(k, n) \/ MaximumStays(t, k, n)
    <3> DEFINE m    == topo.index[fk]
               left == contents[m] \ Inside(contents[m], arg[t])
               g    == Rekeyed(topo.index, fk, m, left)
    <3>1. contents'[m] = left /\ \A j \in Node \ {m} : contents'[j] = contents[j]
      BY <2>5 DEF OneNodeOutcome
    <3>2. CASE topo' = topo /\ left # {} /\ Max(left) = Max(contents[m])
      <4>1. k \in DOMAIN topo.index /\ n = topo.index[k] /\ n \in Node /\ contents[n] # {}
        BY <2>3, <2>5, <3>2
      <4>2. contents'[n] # {} /\ Max(contents'[n]) = Max(contents[n])
        <5> HIDE DEF left, m
        <5>1. CASE n = m
          BY <3>1, <3>2, <5>1
        <5>2. CASE n # m
          BY <3>1, <4>1, <5>2
        <5> QED  BY <5>1, <5>2
      <4> QED  BY <2>1, <4>1, <4>2 DEF MaximumStays, Remains, Repairs
    <3>3. CASE topo'.index = g
      <4>1. CASE left # {} /\ k = Max(left) /\ g[k] = m
        BY <2>5, <3>1, <3>3, <4>1 DEF Exactly
      <4>2. CASE k \in DOMAIN topo.index /\ k # fk /\ g[k] = topo.index[k]
        <5>1. n \in Node /\ n # m /\ n = topo.index[k]
          BY <2>3, <2>5, <3>3, <4>2, IndexTypes
        <5> QED  BY <2>1, <3>1, <4>2, <5>1, <1>Untouched DEF Repairs
      <4> QED  BY <2>5, <3>3, <4>1, <4>2, RekeyedEntries, SMT
    <3> QED  BY <2>5, <3>2, <3>3 DEF OneNodeOutcome
  <2>6. ASSUME NEW fk \in DOMAIN topo.index, NEW bk \in DOMAIN topo.index, fk < bk, SeveralNodesOutcome(t, fk, bk),
               NEW k \in DOMAIN topo'.index, NEW n, n = topo'.index[k]
        PROVE  Exactly(k, n) \/ MaximumStays(t, k, n)
    <3> DEFINE front == topo.index[fk]
               back  == topo.index[bk]
               f     == Restrict(topo.index, DOMAIN topo.index \ Between(fk, bk))
               g     == Trimmed(t, fk, bk)
    <3>1. k \in DOMAIN g /\ n = g[k] /\ (Trail(t, bk) = {} => k # bk)
      BY <2>6 DEF SeveralNodesOutcome, Without, Restrict
    <3>2. front \in Node /\ back \in Node /\ front # back
      BY <2>3, <2>6, IndexTypes, SMTT(60)
    <3>3. contents'[front] = Kept(t, fk) /\ contents'[back] = Trail(t, bk)
      BY <2>6, <3>2 DEF SeveralNodesOutcome
    <3>4. CASE Kept(t, fk) # {} /\ k = Max(Kept(t, fk)) /\ g[k] = front
      BY <3>1, <3>3, <3>4 DEF Exactly
    <3>5. CASE k \in DOMAIN f /\ k # fk /\ g[k] = f[k]
      <4>1. k \in DOMAIN topo.index /\ k \notin Between(fk, bk) /\ n = topo.index[k] /\ n # front /\ n \in Node
        BY <2>3, <3>1, <3>5, IndexTypes DEF Restrict
      <4>2. CASE k = bk
        <5>1. Trail(t, bk) # {} /\ Trail(t, bk) \subseteq contents[back] /\ contents[back] \in SUBSET Key
          BY <2>3, <3>1, <4>2 DEF Trail
        <5>2. Max(contents[back]) \in contents[back] /\ \A y \in contents[back] : y <= Max(contents[back])
          BY <5>1, MaxIsGreatest
        <5>3. Max(contents[back]) \in Trail(t, bk)
          <6> DEFINE max == Max(contents[back])
          <6>1. max \in contents[back] /\ max \in Key /\ \A y \in contents[back] : y <= max
            BY <5>1, <5>2
          <6> HIDE DEF max
          <6>2. PICK x \in contents[back] : arg[t].hi < x \/ (~arg[t].closed /\ arg[t].hi = x)
            BY <5>1 DEF Trail
          <6>3. x \in Int /\ max \in Int /\ arg[t].hi \in Int /\ x <= max
            BY <2>2, <5>1, <6>1, KeysAreIntegers DEF Ranges
          <6>4. arg[t].hi < max \/ (~arg[t].closed /\ arg[t].hi = max)
            BY <6>2, <6>3, SMTT(60)
          <6>5. max \in Trail(t, bk)
            BY <6>1, <6>4 DEF Trail
          <6> QED  BY <6>5 DEF max
        <5>4. Max(Trail(t, bk)) = Max(contents[back])
          BY <5>1, <5>2, <5>3, MaxIs
        <5> QED  BY <2>1, <3>3, <4>1, <4>2, <5>1, <5>4, <2>3 DEF MaximumStays, Remains, Repairs
      <4>3. CASE k # bk
        <5>1. n # back /\ n \notin {topo.index[j] : j \in Between(fk, bk)}
          BY <4>1, <4>3, IndexTypes DEF Between
        <5>2. contents'[n] = contents[n]
          BY <2>6, <4>1, <5>1 DEF SeveralNodesOutcome
        <5> QED  BY <2>1, <4>1, <5>2, <1>Untouched DEF Repairs
      <4> QED  BY <4>2, <4>3
    <3> QED  BY <3>1, <3>4, <3>5, RekeyedEntries, SMT DEF Trimmed
  <2>7. \/ UNCHANGED <<topo, contents>> \/ \E k \in DOMAIN topo.index : OneNodeOutcome(t, k)
        \/ \E fk, bk \in DOMAIN topo.index : fk < bk /\ SeveralNodesOutcome(t, fk, bk)
    BY RangeCases, ZenonT(60)
  <2>8. CASE ~UNCHANGED <<topo, contents>>
    <3>1. \A k \in DOMAIN topo'.index : Exactly(k, topo'.index[k]) \/ MaximumStays(t, k, topo'.index[k])
      BY <2>5, <2>6, <2>7, <2>8, ZenonT(60)
    <3> QED  BY <2>1, <3>1, <1>CommitRepairs
  <2> QED  BY <2>4, <2>8

<1> USE Zenon
<1> SUFFICES ASSUME IInv, IInv', SInv, [Next]_vars PROVE SInv'
  OBVIOUS
<1>1. CASE UNCHANGED vars
  BY <1>1, SMTT(60) DEF vars, shared, locals, SInv, HeldInv, EntryIsCurrent, RepairInv, EntryRepaired, Repairs, Repairing
<1>2. ASSUME NEW t \in Thread, Call(t) \/ Step(t) PROVE SInv'
  <2>1. CASE KeepsNodes(t)
    BY <2>1, UndisturbedSteps, <1>UndisturbedStep
  <2>2. CASE PutNode(t) \/ RemoveNode(t)
    BY <2>2, <1>NodeStepRepairs
  <2>3. CASE PutRoot(t) \/ AttachCommit(t)
    BY <2>3, <1>InsertCommitRepairs
  <2> QED  BY <1>2, <2>1, <2>2, <2>3, <1>SplitRepairs, <1>UpdateMaxRepairs, <1>RemoveCommitRepairs, <1>RangeCommitRepairs
           DEF KeepsNodes, Step, Put, Commit, Delete, RemoveRange, Attach
<1> QED  BY <1>1, <1>2 DEF Next

-----------------------------------------------------------------------------
(* Reachability: what moving a node's entry does to routing.               *)

\* The elements of node n of index f, and others that are routed to it, are
\* divided between n and a fresh node, the smaller ones first.
Halved(f, k, n, fresh, left, right, old, new) ==
  /\ DOMAIN f \subseteq Key /\ f \in [DOMAIN f -> Node]
  /\ \A i, j \in DOMAIN f : f[i] = f[j] => i = j
  /\ old \in [Node -> SUBSET Key] /\ new \in [Node -> SUBSET Key]
  /\ k \in DOMAIN f /\ n = f[k] /\ fresh \in Node /\ fresh \notin Range(f)
  /\ left \in SUBSET Key /\ right \in SUBSET Key /\ right # {}
  /\ \A x \in left, y \in right : x < y
  /\ \A x \in left \cup right : Covers(f, x, k)
  /\ new[n] = left /\ new[fresh] = right /\ \A m \in Node \ {n, fresh} : new[m] = old[m]

\* Index h differs from f only by entries that are gone or moved to lower keys:
\* values that were routed to an entry that stays in place still are.
Lowered(f, h) ==
  \A j \in DOMAIN h :
    \/ \E i \in DOMAIN f : f[i] = h[j] /\ j < i
    \/ j \in DOMAIN f /\ f[j] = h[j] /\ \A v \in Key : Covers(f, v, j) => Covers(h, v, j)

-----------------------------------------------------------------------------
(* Reachability: the steps of each operation.                              *)

\* A new or restored set stores its elements where they are routed to.
LEMMA InitReaches == KeySetsCount /\ Init => RInv
<1> USE Zenon
<1> SUFFICES ASSUME KeySetsCount, Init PROVE RInv
  OBVIOUS
<1> DEFINE f == topo.index
<1>1. contents \in [Node -> SUBSET Key] /\ Attachable(contents) /\ f = AttachedIndex(contents)
  BY RestoredAssumption DEF Init
<1>2. DOMAIN f \subseteq Key /\ \A k \in DOMAIN f : f[k] \in Node /\ contents[f[k]] # {} /\ Max(contents[f[k]]) = k
  BY <1>1, AttachedIndexType
<1>3. \A k \in DOMAIN f : k \in contents[f[k]] /\ \A x \in contents[f[k]] : x <= k
  BY <1>1, <1>2, MaxIsGreatest
<1>4. ASSUME NEW k \in DOMAIN f, NEW v \in contents[f[k]] PROVE Covers(f, v, k)
  <2>1. v \in Key /\ v \in Int /\ k \in Int
    BY <1>1, <1>2, <1>4, KeysAreIntegers
  <2>2. ASSUME NEW j \in DOMAIN f, j < k PROVE j < v
    <3>0. j \in Int
      BY <1>2, <2>2, KeysAreIntegers
    <3>1. j # k
      BY <2>1, <2>2, <3>0, SMT
    <3>2. j \in Int /\ f[j] # f[k] /\ f[j] \in Node /\ f[k] \in Node
      BY <1>2, <3>0, <3>1
    <3>3. \/ \A x \in contents[f[j]], y \in contents[f[k]] : x < y
          \/ \A x \in contents[f[j]], y \in contents[f[k]] : y < x
      BY <1>1, <3>2 DEF Attachable
    <3>4. j < v \/ k < j
      BY <1>3, <1>4, <3>3
    <3> QED  BY <2>1, <2>2, <3>2, <3>4, SMTT(60)
  <2> QED  BY <1>2, <1>3, <1>4, <2>1, <2>2, CoversPointwise
<1>5. CallerInv /\ SplitInv
  BY DEF Init, CallerInv, SplitInv, Splitting
<1> QED  BY <1>4, <1>5 DEF RInv, Reaches

\* Every step preserves reachability when one thread inserts.
LEMMA NextReaches == OneInserter /\ IInv /\ IInv' /\ SInv /\ RInv /\ [Next]_vars => RInv'
<1> SUFFICES ASSUME KeySetsCount PROVE OneInserter /\ IInv /\ IInv' /\ SInv /\ RInv /\ [Next]_vars => RInv'
  BY Zenon DEF IInv

\* A value that was routed to k is routed to the first key of M at or above it.
<1>MovedSelf.
     ASSUME NEW f, NEW h, NEW k, NEW M, Moved(f, h, k, M),
            NEW x \in Key, Covers(f, x, k), NEW m \in M, x <= m, \A i \in M : i < m => i < x
     PROVE  Covers(h, x, m)
  <2> USE <1>MovedSelf, Zenon
  <2> USE DEF Moved
  <2>1. \A i \in DOMAIN f \cup M \cup {x} : i \in Int
    BY KeysAreIntegers
  <2>2. (\A i \in DOMAIN f : i < k => i < x) /\ (m <= k \/ \A i \in DOMAIN f : i <= k)
    BY CoversPointwise
  <2>3. m \in DOMAIN h /\ DOMAIN h \subseteq Key
    OBVIOUS
  <2>4. \A i \in DOMAIN h : i < m => i < x
    BY <2>1, <2>2, SMTT(60)
  <2> QED  BY <2>3, <2>4, CoversPointwise

\* A value routed to an entry that stays, when others go, still is.
<1>CoversRestrict.
     ASSUME NEW f, DOMAIN f \subseteq Key, NEW S \in SUBSET DOMAIN f, NEW v \in Key, NEW k \in S, Covers(f, v, k)
     PROVE  Covers(Restrict(f, S), v, k)
  BY <1>CoversRestrict, MaxKeyAssumption, Zenon DEF Covers, IsLast, Key, Restrict

\* Re-keying a node to its maximum, or unlinking it when it is drained, keeps
\* every remaining element reachable.
<1>ReachesRekeyed.
     ASSUME NEW f, DOMAIN f \subseteq Key, f \in [DOMAIN f -> Node],
            NEW old \in [Node -> SUBSET Key], NEW new \in [Node -> SUBSET Key], Reaches(f, old),
            NEW k \in DOMAIN f, NEW n, n = f[k], NEW c \in SUBSET Key, c \subseteq old[n], new[n] = c,
            \A j \in DOMAIN f \ {k} : new[f[j]] \subseteq old[f[j]]
     PROVE  Reaches(Rekeyed(f, k, n, c), new)
  <2> USE <1>ReachesRekeyed, Zenon
  <2> DEFINE h == Rekeyed(f, k, n, c)
             m == Max(c)
             M == IF c = {} THEN {} ELSE {m}
  <2>1. c # {} => m \in c /\ \A x \in c : x <= m
    BY MaxIsGreatest
  <2>2. DOMAIN h = (DOMAIN f \ {k}) \cup M
    <3>1. CASE c = {}
      BY <3>1 DEF Rekeyed, Without, Restrict
    <3>2. CASE c # {}
      <4>1. h = With(Without(f, k), m, n)
        BY <3>2 DEF Rekeyed
      <4> HIDE DEF h, m
      <4> QED  BY <3>2, <4>1 DEF With, Without, Restrict
    <3> QED  BY <3>1, <3>2
  <2>3. \A x \in c : Covers(f, x, k)
    BY DEF Reaches
  <2>4. ASSUME NEW j \in DOMAIN h
        PROVE  (c # {} /\ j = m /\ h[j] = n) \/ (j \in DOMAIN f /\ j # k /\ h[j] = f[j])
    BY <2>4, RekeyedEntries, SMT
  <2> HIDE DEF h, m
  <2>5. Moved(f, h, k, M)
    BY <2>1, <2>2, <2>3 DEF Moved
  <2> SUFFICES ASSUME NEW j \in DOMAIN h, NEW v \in new[h[j]]
               PROVE  Covers(h, v, j)
    BY DEF Reaches, h
  <2>6. CASE c # {} /\ j = m /\ h[j] = n
    <3>1. v \in c /\ v \in Key /\ v <= m /\ Covers(f, v, k) /\ m \in M
      BY <2>1, <2>3, <2>6
    <3>2. \A i \in M : i < m => i < v
      <4>1. m \in Int
        BY <2>1, <2>6, KeysAreIntegers
      <4> QED  BY <2>6, <4>1, SMTT(60)
    <3> HIDE DEF M
    <3>3. Covers(h, v, m)
      BY <2>5, <3>1, <3>2, <1>MovedSelf, SMT
    <3> QED  BY <2>6, <3>3
  <2>7. CASE j \in DOMAIN f /\ j # k /\ h[j] = f[j]
    <3>1. v \in old[f[j]] /\ v \in Key
      BY <2>7
    <3>2. Covers(f, v, j)
      BY <2>7, <3>1 DEF Reaches
    <3> HIDE DEF M
    <3> QED  BY <2>5, <2>7, <3>1, <3>2, MovedOthers
  <2> QED  BY <2>4, <2>6, <2>7

\* Removing entries keeps the elements of the others reachable.
<1>ReachesRestrict.
     ASSUME NEW f, DOMAIN f \subseteq Key, f \in [DOMAIN f -> Node],
            NEW old \in [Node -> SUBSET Key], NEW new \in [Node -> SUBSET Key], Reaches(f, old),
            NEW S \in SUBSET DOMAIN f, \A j \in S : new[f[j]] \subseteq old[f[j]]
     PROVE  Reaches(Restrict(f, S), new)
  <2> USE <1>ReachesRestrict, Zenon
  <2>1. DOMAIN Restrict(f, S) = S /\ \A j \in S : Restrict(f, S)[j] = f[j]
    BY DEF Restrict
  <2>2. ASSUME NEW j \in S, NEW v \in new[f[j]] PROVE Covers(Restrict(f, S), v, j)
    <3>1. v \in old[f[j]] /\ v \in Key /\ Covers(f, v, j)
      BY <2>2 DEF Reaches
    <3> QED  BY <3>1, <1>CoversRestrict
  <2> QED  BY <2>1, <2>2 DEF Reaches

\* Elements that go away are none that must be reached.
<1>ReachesShrink.
     ASSUME NEW f, f \in [DOMAIN f -> Node], NEW old \in [Node -> SUBSET Key], NEW new \in [Node -> SUBSET Key],
            Reaches(f, old), \A j \in DOMAIN f : new[f[j]] \subseteq old[f[j]]
     PROVE  Reaches(f, new)
  BY <1>ReachesShrink, Zenon DEF Reaches

\* A split keeps every element reachable, the riding value included.
<1>ReachesSplit.
     ASSUME NEW f, NEW k, NEW n, NEW fresh, NEW left, NEW right, NEW old, NEW new,
            Halved(f, k, n, fresh, left, right, old, new), Reaches(f, old)
     PROVE  Reaches(With(Rekeyed(f, k, n, left), Max(right), fresh), new)
  <2> USE <1>ReachesSplit, Zenon
  <2> USE DEF Halved
  <2> DEFINE g  == Rekeyed(f, k, n, left)
             ml == Max(left)
             mr == Max(right)
             h  == With(g, mr, fresh)
             M  == IF left = {} THEN {mr} ELSE {ml, mr}
  <2>1. mr \in right /\ mr \in Key /\ (\A y \in right : y <= mr)
        /\ (left # {} => ml \in left /\ ml \in Key /\ ml < mr /\ \A x \in left : x <= ml)
    BY MaxIsGreatest
  <2>2. DOMAIN g = (DOMAIN f \ {k}) \cup (IF left = {} THEN {} ELSE {ml})
    <3>1. CASE left = {}
      BY <3>1 DEF Rekeyed, Without, Restrict
    <3>2. CASE left # {}
      <4>1. g = With(Without(f, k), ml, n)
        BY <3>2 DEF Rekeyed
      <4> HIDE DEF g, ml
      <4> QED  BY <3>2, <4>1 DEF With, Without, Restrict
    <3> QED  BY <3>1, <3>2
  <2>3. ASSUME NEW j \in DOMAIN g
        PROVE  (left # {} /\ j = ml /\ g[j] = n) \/ (j \in DOMAIN f /\ j # k /\ g[j] = f[j])
    BY <2>3, RekeyedEntries, SMT
  <2> HIDE DEF g, ml, mr
  <2>4. DOMAIN h = DOMAIN g \cup {mr} /\ h[mr] = fresh /\ \A j \in DOMAIN g \ {mr} : h[j] = g[j]
    BY DEF With
  <2>5. Moved(f, h, k, M)
    BY <2>1, <2>2, <2>4, SMTT(60) DEF Moved
  <2>6. \A i \in left \cup right \cup M : i \in Int
    BY <2>1, KeysAreIntegers
  <2> HIDE DEF h
  <2> SUFFICES ASSUME NEW j \in DOMAIN h, NEW v \in new[h[j]]
               PROVE  Covers(h, v, j)
    BY DEF Reaches, h, g, mr
  <2>7. CASE j = mr
    <3>1. v \in right /\ v \in Key /\ v <= mr /\ Covers(f, v, k) /\ mr \in M
      BY <2>1, <2>4, <2>7
    <3>2. \A i \in M : i < mr => i < v
      BY <2>1, <2>6, <3>1, SMTT(60)
    <3> HIDE DEF M
    <3>3. Covers(h, v, mr)
      BY <2>5, <3>1, <3>2, <1>MovedSelf
    <3> QED  BY <2>7, <3>3
  <2>8. CASE j # mr /\ left # {} /\ j = ml /\ g[j] = n
    <3>1. v \in left /\ v \in Key /\ v <= ml /\ Covers(f, v, k) /\ ml \in M
      BY <2>1, <2>4, <2>8
    <3>2. \A i \in M : i < ml => i < v
      BY <2>1, <2>6, <2>8, <3>1, SMTT(60)
    <3> HIDE DEF M
    <3>3. Covers(h, v, ml)
      BY <2>5, <3>1, <3>2, <1>MovedSelf, SMT
    <3> QED  BY <2>8, <3>3
  <2>9. CASE j # mr /\ j \in DOMAIN f /\ j # k /\ g[j] = f[j]
    <3>1. h[j] = f[j] /\ f[j] \in Node /\ f[j] # n /\ f[j] # fresh
      BY <2>4, <2>9, ZenonT(60) DEF Range
    <3>2. v \in old[f[j]] /\ v \in Key
      BY <3>1
    <3>3. Covers(f, v, j)
      BY <2>9, <3>2 DEF Reaches
    <3> HIDE DEF M
    <3> QED  BY <2>5, <2>9, <3>2, <3>3, MovedOthers
  <2> QED  BY <2>3, <2>4, <2>7, <2>8, <2>9

\* Re-keying a node none of whose elements lies above its key.
<1>LoweredRekeyed.
     ASSUME NEW f, DOMAIN f \subseteq Key, NEW k \in DOMAIN f, NEW n, n = f[k], NEW c \in SUBSET Key,
            \A x \in c : Covers(f, x, k) /\ x <= k
     PROVE  Lowered(f, Rekeyed(f, k, n, c))
  <2> USE <1>LoweredRekeyed, Zenon
  <2> DEFINE h == Rekeyed(f, k, n, c)
             m == Max(c)
             M == IF c = {} THEN {} ELSE {m}
  <2>1. c # {} => m \in c
    BY MaxIsGreatest
  <2>2. DOMAIN h = (DOMAIN f \ {k}) \cup M
    <3>1. CASE c = {}
      BY <3>1 DEF Rekeyed, Without, Restrict
    <3>2. CASE c # {}
      <4>1. h = With(Without(f, k), m, n)
        BY <3>2 DEF Rekeyed
      <4> HIDE DEF h, m
      <4> QED  BY <3>2, <4>1 DEF With, Without, Restrict
    <3> QED  BY <3>1, <3>2
  <2>3. ASSUME NEW j \in DOMAIN h
        PROVE  (c # {} /\ j = m /\ h[j] = n) \/ (j \in DOMAIN f /\ j # k /\ h[j] = f[j])
    BY <2>3, RekeyedEntries, SMT
  <2> HIDE DEF h, m
  <2>4. Moved(f, h, k, M)
    BY <2>1, <2>2 DEF Moved
  <2>5. ASSUME NEW j \in DOMAIN h
        PROVE  \/ \E i \in DOMAIN f : f[i] = h[j] /\ j < i
               \/ j \in DOMAIN f /\ f[j] = h[j] /\ \A v \in Key : Covers(f, v, j) => Covers(h, v, j)
    <3>1. CASE c # {} /\ j = m /\ h[j] = n /\ m # k
      <4>1. m \in Int /\ k \in Int /\ m <= k
        BY <2>1, <3>1, KeysAreIntegers
      <4> QED  BY <3>1, <4>1, SMT
    <3>2. CASE c # {} /\ j = m /\ h[j] = n /\ m = k
      <4>1. DOMAIN h = DOMAIN f
        BY <2>2, <3>2
      <4> QED  BY <3>2, <4>1 DEF Covers, IsLast
    <3>3. CASE j \in DOMAIN f /\ j # k /\ h[j] = f[j]
      <4> HIDE DEF M
      <4>1. \A v \in Key : Covers(f, v, j) => Covers(h, v, j)
        BY <2>4, <3>3, MovedOthers
      <4> QED  BY <3>3, <4>1
    <3> QED  BY <2>3, <2>5, <3>1, <3>2, <3>3
  <2> QED  BY <2>5 DEF Lowered, h

\* Removing entries.
<1>LoweredRestrict.
     ASSUME NEW f, DOMAIN f \subseteq Key, NEW S \in SUBSET DOMAIN f
     PROVE  Lowered(f, Restrict(f, S))
  <2> USE <1>LoweredRestrict, Zenon
  <2>1. DOMAIN Restrict(f, S) = S /\ \A j \in S : Restrict(f, S)[j] = f[j]
    BY DEF Restrict
  <2> QED  BY <2>1, <1>CoversRestrict DEF Lowered

\* One change after another.
<1>LoweredTwice.
     ASSUME NEW f, NEW g, NEW h, DOMAIN f \subseteq Key, DOMAIN g \subseteq Key, DOMAIN h \subseteq Key,
            Lowered(f, g), Lowered(g, h)
     PROVE  Lowered(f, h)
  <2> USE <1>LoweredTwice, Zenon
  <2>1. \A i \in DOMAIN f \cup DOMAIN g \cup DOMAIN h : i \in Int
    BY KeysAreIntegers
  <2>2. ASSUME NEW j \in DOMAIN h
        PROVE  \/ \E i \in DOMAIN f : f[i] = h[j] /\ j < i
               \/ j \in DOMAIN f /\ f[j] = h[j] /\ \A v \in Key : Covers(f, v, j) => Covers(h, v, j)
    <3>1. CASE \E i \in DOMAIN g : g[i] = h[j] /\ j < i
      <4>1. PICK i \in DOMAIN g : g[i] = h[j] /\ j < i
        BY <3>1
      <4>2. CASE \E l \in DOMAIN f : f[l] = g[i] /\ i < l
        <5>1. PICK l \in DOMAIN f : f[l] = g[i] /\ i < l
          BY <4>2
        <5>2. j < l
          BY <2>1, <2>2, <4>1, <5>1, SMT
        <5> QED  BY <4>1, <5>1, <5>2
      <4>3. CASE i \in DOMAIN f /\ f[i] = g[i]
        BY <4>1, <4>3
      <4> QED  BY <4>2, <4>3 DEF Lowered
    <3>2. CASE j \in DOMAIN g /\ g[j] = h[j] /\ \A v \in Key : Covers(g, v, j) => Covers(h, v, j)
      BY <3>2 DEF Lowered
    <3> QED  BY <2>2, <3>1, <3>2 DEF Lowered
  <2> QED  BY <2>2 DEF Lowered

\* A step preserves the splitters' entries when it lowers keys at most.
<1>SplitInvStep.
     ASSUME IInv, IInv', RInv, NEW t \in Thread, OthersStay(t),
            (\E u \in Thread \ {t} : pc[u] \in Splitting) => Lowered(topo.index, topo'.index),
            pc'[t] \in Splitting => SplitOK(t)'
     PROVE  SplitInv'
  <2> USE <1>SplitInvStep, Zenon
  <2> SUFFICES ASSUME NEW u \in Thread \ {t}, pc'[u] \in Splitting
               PROVE  SplitOK(u)'
    BY DEF SplitInv
  <2>1. pc[u] \in Splitting /\ node'[u] = node[u] /\ key'[u] = key[u] /\ arg'[u] = arg[u]
    BY DEF OthersStay
  <2>2. SplitOK(u) /\ Lowered(topo.index, topo'.index)
    BY <2>1 DEF RInv, SplitInv
  <2>3. key[u] \in Key /\ arg[u] \in Key
    BY <2>1, LabelOperation DEF IInv, Splitting, AtNode, AtEntry
  <2>4. DOMAIN topo.index \subseteq Key /\ DOMAIN topo'.index \subseteq Key
    BY IndexTypes, IndexTypesNext
  <2>5. ASSUME NEW j \in DOMAIN topo'.index, topo'.index[j] = node[u]
        PROVE  j <= key[u] /\ (j = key[u] => Covers(topo'.index, arg[u], j))
    <3>1. CASE \E i \in DOMAIN topo.index : topo.index[i] = topo'.index[j] /\ j < i
      <4>1. PICK i \in DOMAIN topo.index : topo.index[i] = node[u] /\ j < i
        BY <2>5, <3>1
      <4>2. i <= key[u]
        BY <2>2, <4>1 DEF SplitOK
      <4>3. i \in Int /\ j \in Int /\ key[u] \in Int
        BY <2>3, <2>4, <2>5, KeysAreIntegers
      <4> QED  BY <4>1, <4>2, <4>3, SMT
    <3>2. CASE /\ j \in DOMAIN topo.index /\ topo.index[j] = topo'.index[j]
               /\ \A v \in Key : Covers(topo.index, v, j) => Covers(topo'.index, v, j)
      BY <2>2, <2>3, <2>5, <3>2 DEF SplitOK
    <3> QED  BY <2>2, <2>5, <3>1, <3>2 DEF Lowered
  <2> QED  BY <2>1, <2>5 DEF SplitOK

\* Threads execute the operations they may call.
<1>CallerStep.
     ASSUME RInv, NEW t \in Thread, OthersStay(t), op'[t] = op[t] \/ op'[t] = None \/ MayCall(t, op'[t])
     PROVE  CallerInv'
  <2> USE <1>CallerStep, Zenon
  <2>1. \A u \in Thread : op'[u] # None => MayCall(u, op'[u])
    BY DEF RInv, CallerInv, OthersStay
  <2>2. \A u \in Thread : (op[u] # None => MayCall(u, op[u]))'
    BY <2>1 DEF MayCall
  <2> QED  BY <2>2 DEF CallerInv

\* Who calls and who comes to split, among the steps that leave index and
\* nodes alone.
<1>UndisturbedCalls.
     ASSUME IInv, NEW t \in Thread, KeepsNodes(t)
     PROVE  /\ op'[t] = op[t] \/ op'[t] = None \/ MayCall(t, op'[t])
            /\ pc'[t] \in Splitting =>
                 pc[t] \in Splitting /\ node'[t] = node[t] /\ key'[t] = key[t] /\ arg'[t] = arg[t]
  <2> USE <1>UndisturbedCalls, Zenon
  <2>0. DOMAIN pc = Thread /\ op \in [Thread -> Operations \cup {None}] /\ TypeOK
    BY DEF IInv, TypeOK
  <2>1. CASE Call(t)
    BY <2>0, <2>1 DEF Call, Goto, Splitting, FirstStep, Operations
  <2>2. CASE Return(t)
    BY <2>0, <2>2 DEF Return, Goto, Splitting
  <2>3. CASE SplitWrite(t)
    BY <2>3 DEF SplitWrite, Splitting
  <2>4. CASE PutRead(t) \/ RekeyWrite(t) \/ RemoveRead(t) \/ RangeWrite(t) \/ AttachWrite(t) \/ RemoveWrite(t)
    BY <2>0, <2>4, ZenonT(60)
       DEF Splitting, PutRead, RekeyWrite, RemoveRead, RangeWrite, AttachWrite, RemoveWrite, Goto
  <2>5. CASE Drop(t)
    <3>1. op[t] \in {"insert", "remove", "remove_range", "attach_node"}
      BY <2>0, <2>5, LabelOperation DEF Drop, SwapRoot, Release
    <3> QED  BY <2>0, <2>5, <3>1 DEF Splitting, Drop, SwapRoot, Release, Goto, FirstStep
  <2>6. CASE Get(t)
    <3>1. CASE GetGeneration(t) \/ GetRoot(t) \/ GetLock(t) \/ DropRef(t)
      BY <2>0, <3>1 DEF Splitting, GetGeneration, GetRoot, GetLock, DropRef, Retry, Goto
    <3>2. CASE GetCheck(t)
      BY <2>0, <3>2, ZenonT(60) DEF Splitting, GetCheck, Answer, Retry, Goto
    <3>3. CASE GetFallback(t)
      BY <2>0, <3>3, ZenonT(60) DEF Splitting, GetFallback, Answer, Goto
    <3> QED  BY <2>6, <3>1, <3>2, <3>3 DEF Get
  <2>7. CASE SelectOptimistic(t)
    BY <2>0, <2>7, ZenonT(60) DEF Splitting, SelectOptimistic, SelectRead, SelectNode, Goto
  <2> QED  BY <2>1, <2>2, <2>3, <2>4, <2>5, <2>6, <2>7 DEF KeepsNodes

\* They preserve the invariant.
<1>UndisturbedReaches.
     ASSUME IInv, IInv', RInv, NEW t \in Thread, KeepsNodes(t)
     PROVE  RInv'
  <2> USE <1>UndisturbedReaches, Zenon
  <2>1. OthersStay(t) /\ topo' = topo /\ contents' = contents
    BY IdleSteps DEF Idle
  <2>2. CallerInv'
    BY <2>1, <1>UndisturbedCalls, <1>CallerStep
  <2>3. Lowered(topo.index, topo'.index)
    BY <2>1 DEF Lowered
  <2>4. pc'[t] \in Splitting => SplitOK(t)'
    BY <2>1, <1>UndisturbedCalls DEF RInv, SplitInv, SplitOK
  <2>5. SplitInv'
    BY <2>1, <2>3, <2>4, <1>SplitInvStep
  <2> QED  BY <2>1, <2>2, <2>5 DEF RInv, Reaches

\* put_checked_inner stores its value where the index routes it to, or finds
\* the node full and remembers the entry; remove_inner only takes values away.
<1>NodeStepReaches.
     ASSUME IInv, IInv', SInv, RInv, NEW t \in Thread, PutNode(t) \/ RemoveNode(t)
     PROVE  RInv'
  <2> USE <1>NodeStepReaches, Zenon
  <2> DEFINE n == node[t]
  <2>1. /\ OthersStay(t) /\ topo' = topo /\ n \in Node /\ arg[t] \in Key /\ key[t] \in Key /\ op' = op /\ arg' = arg
        /\ contents' \in [Node -> SUBSET Key] /\ \A m \in Node \ {n} : contents'[m] = contents[m]
    BY NodeStepFrame
  <2>2. key[t] \in DOMAIN topo.index /\ topo.index[key[t]] = n /\ Covers(topo.index, arg[t], key[t])
    BY NodeStepFrame DEF SInv, HeldInv, EntryIsCurrent
  <2>3. contents'[n] \subseteq contents[n] \cup {arg[t]}
    <3>1. contents'[n] = contents[n] \/ contents'[n] = contents[n] \cup {arg[t]} \/ contents'[n] = contents[n] \ {arg[t]}
      BY <2>1, ZenonT(60) DEF IInv, TypeOK, PutNode, RemoveNode, Store
    <3> QED  BY <3>1
  <2>4. ASSUME NEW k \in DOMAIN topo'.index, NEW v \in contents'[topo'.index[k]]
        PROVE  Covers(topo'.index, v, k)
    <3>1. topo.index[k] \in Node
      BY <2>1, <2>4, IndexTypes
    <3>2. CASE v \in contents[topo.index[k]]
      BY <2>1, <2>4, <3>2 DEF RInv, Reaches
    <3>3. CASE v \notin contents[topo.index[k]]
      <4>1. topo.index[k] = n /\ v = arg[t]
        BY <2>1, <2>3, <2>4, <3>1, <3>3
      <4>2. k = key[t]
        BY <2>1, <2>2, <2>4, <4>1, IndexTypes
      <4> QED  BY <2>1, <2>2, <4>1, <4>2
    <3> QED  BY <3>2, <3>3
  <2>5. pc'[t] \in Splitting => node'[t] = node[t] /\ key'[t] = key[t]
    BY ZenonT(60) DEF IInv, TypeOK, PutNode, RemoveNode, Goto, Splitting
  <2>6. pc'[t] \in Splitting => SplitOK(t)'
    <3> SUFFICES ASSUME pc'[t] \in Splitting, NEW j \in DOMAIN topo.index, topo.index[j] = n
                 PROVE  j <= key[t] /\ (j = key[t] => Covers(topo.index, arg[t], j))
      BY <2>1, <2>5 DEF SplitOK
    <3>1. j = key[t]
      BY <2>2, IndexTypes
    <3>2. j \in Int
      BY <2>1, <3>1, KeysAreIntegers
    <3> QED  BY <2>2, <3>1, <3>2, SMT
  <2>7. CallerInv'
    BY <2>1, <1>CallerStep
  <2>8. SplitInv'
    <3>1. Lowered(topo.index, topo'.index)
      BY <2>1 DEF Lowered
    <3> QED  BY <2>1, <2>6, <3>1, <1>SplitInvStep
  <2> QED  BY <2>4, <2>7, <2>8 DEF RInv, Reaches

\* What commits have in common: the thread does not come to split.
<1>CommitReaches.
     ASSUME IInv, IInv', RInv, NEW t \in Thread, Commits(t),
            (\E u \in Thread \ {t} : pc[u] \in Splitting) => Lowered(topo.index, topo'.index),
            Reaches(topo'.index, contents')
     PROVE  RInv'
  <2> USE <1>CommitReaches, Zenon
  <2>1. OthersStay(t) /\ op' = op /\ pc'[t] \notin Splitting
    BY CommitFrame
  <2>2. CallerInv' /\ SplitInv'
    BY <2>1, <1>CallerStep, <1>SplitInvStep
  <2> QED  BY <2>2 DEF RInv, Reaches

\* Only one thread inserts.
<1>NoOtherSplitter.
     ASSUME OneInserter, IInv, RInv, NEW t \in Thread, op[t] = "insert"
     PROVE  \A u \in Thread \ {t} : pc[u] \notin Splitting
  BY <1>NoOtherSplitter, SplitterInserts, Zenon DEF OneInserter

\* The first node holds the only element.
<1>PutRootReaches.
     ASSUME OneInserter, IInv, IInv', SInv, RInv, NEW t \in Thread, PutRoot(t)
     PROVE  RInv'
  <2> USE <1>PutRootReaches, Zenon
  <2>0. Commits(t)
    BY DEF Commits
  <2>1. op[t] = "insert" /\ arg[t] \in Key
    BY LabelOperation, ZenonT(60) DEF IInv, PutRoot
  <2>2. \A u \in Thread \ {t} : pc[u] \notin Splitting
    BY <2>1, <1>NoOtherSplitter
  <2>3. CASE UNCHANGED <<topo, contents>>
    BY <2>0, <2>2, <2>3, <1>CommitReaches DEF RInv, Reaches
  <2>4. CASE /\ DOMAIN topo.index = {} /\ FreeNodes # {} /\ Store(NewNode, {arg[t]})
             /\ topo' = Insert(topo, arg[t], NewNode)
    <3>1. NewNode \in Node /\ NewNode \notin Range(topo.index)
      BY <2>4, NewNodeIsFree DEF IInv
    <3>2. topo'.index = With(topo.index, arg[t], NewNode)
      BY <2>1, <2>4, <3>1, IndexTypes, InsertMirrors
    <3>3. DOMAIN topo'.index = {arg[t]} /\ topo'.index[arg[t]] = NewNode
      BY <2>4, <3>2 DEF With
    <3>4. contents'[NewNode] = {arg[t]}
      BY <2>4, <3>1, IndexTypes DEF Store
    <3>5. arg[t] <= arg[t]
      BY <2>1, KeysAreIntegers, SMT
    <3>6. Covers(topo'.index, arg[t], arg[t])
      BY <2>1, <3>3, <3>5, CoversPointwise
    <3>7. Reaches(topo'.index, contents')
      BY <3>3, <3>4, <3>6 DEF Reaches
    <3> QED  BY <2>0, <2>2, <3>7, <1>CommitReaches
  <2> QED  BY <2>3, <2>4, ZenonT(60) DEF PutRoot

\* A split moves the elements of the node the inserted value is routed to.
<1>SplitReaches.
     ASSUME OneInserter, IInv, IInv', SInv, RInv, NEW t \in Thread, SplitCommit(t)
     PROVE  RInv'
  <2> USE <1>SplitReaches, Zenon
  <2>0. Commits(t)
    BY DEF Commits
  <2>1. op[t] = "insert" /\ pc[t] \in Splitting
    BY LabelOperation, ZenonT(60) DEF IInv, SplitCommit, Splitting
  <2>2. \A u \in Thread \ {t} : pc[u] \notin Splitting
    BY <2>1, <1>NoOtherSplitter
  <2>3. CASE UNCHANGED <<topo, contents>>
    BY <2>0, <2>2, <2>3, <1>CommitReaches DEF RInv, Reaches
  <2>4. CASE Splits(t, SplitLeft(t), SplitRight(t)) /\ contents[node[t]] # {} /\ SplitRight(t) # {}
    <3> DEFINE f == topo.index
               k == key[t]
               n == node[t]
               fresh == NewNode
               left == SplitLeft(t)
               right == SplitRight(t)
    <3>1. node[t] \in Node /\ arg[t] \in Key /\ left \in SUBSET Key /\ right \in SUBSET Key /\ right # {}
      BY <2>4, SplitEffect
    <3>2. contents[node[t]] \in SUBSET Key
      BY <3>1, IndexTypes
    <3>3. \A x \in left, y \in right : x < y
      BY <3>1, <3>2, LeftIsBelow DEF IInv
    <3>4. \A x \in left \cup right : x \in contents[node[t]] \/ x = arg[t]
      BY DEF SplitLeft, SplitRight, LowerHalf
    <3>5. SplitOutcome(t, left, right)
      BY <2>4, <3>1, SplitResult
    <3>6. /\ k \in DOMAIN f /\ n = f[k] /\ fresh \in Node /\ fresh \notin Range(f)
          /\ topo'.index = With(Rekeyed(f, k, n, left), Max(right), fresh)
          /\ contents'[n] = left /\ contents'[fresh] = right
          /\ \A m \in Node \ {n, fresh} : contents'[m] = contents[m]
      BY <3>5 DEF SplitOutcome
    <3>7. Covers(f, arg[t], k)
      BY <2>1, <3>6 DEF RInv, SplitInv, SplitOK
    <3>8. \A x \in left \cup right : Covers(f, x, k)
      BY <3>4, <3>6, <3>7 DEF RInv, Reaches
    <3>9. /\ DOMAIN f \subseteq Key /\ f \in [DOMAIN f -> Node] /\ (\A i, j \in DOMAIN f : f[i] = f[j] => i = j)
          /\ contents \in [Node -> SUBSET Key] /\ Reaches(f, contents)
      BY IndexTypes DEF RInv
    <3> DEFINE new == contents'
               old == contents
    <3>10. Halved(f, k, n, fresh, left, right, old, new) /\ Reaches(f, old)
      BY <3>1, <3>3, <3>6, <3>8, <3>9, IndexTypesNext DEF Halved
    <3> HIDE DEF f, k, n, fresh, left, right, new, old
    <3>11. Reaches(With(Rekeyed(f, k, n, left), Max(right), fresh), new)
      BY <3>10, <1>ReachesSplit
    <3> QED  BY <2>0, <2>2, <3>6, <3>11, <1>CommitReaches DEF new
  <2> QED  BY <2>3, <2>4, SplitEffect, ZenonT(60)

\* A node is re-keyed to the maximum of the elements it keeps, or unlinked.
<1>RekeyReaches.
     ASSUME OneInserter, IInv, IInv', SInv, RInv, NEW t \in Thread, Commits(t),
            NEW k \in DOMAIN topo.index, NEW n, n = topo.index[k], NEW c, c \subseteq contents[n],
            topo'.index = Rekeyed(topo.index, k, n, c), contents'[n] = c,
            \A m \in Node \ {n} : contents'[m] = contents[m]
     PROVE  RInv'
  <2> USE <1>RekeyReaches, Zenon
  <2> DEFINE f == topo.index
  <2>1. /\ DOMAIN f \subseteq Key /\ f \in [DOMAIN f -> Node] /\ (\A i, j \in DOMAIN f : f[i] = f[j] => i = j)
        /\ contents \in [Node -> SUBSET Key] /\ Reaches(f, contents)
    BY IndexTypes DEF RInv
  <2>2. n \in Node /\ c \in SUBSET Key /\ \A x \in c : Covers(f, x, k)
    BY <2>1 DEF Reaches
  <2>3. \A j \in DOMAIN f \ {k} : contents'[f[j]] \subseteq contents[f[j]]
    BY <2>1
  <2>4. Reaches(topo'.index, contents')
    <3> HIDE DEF f
    <3>1. Reaches(Rekeyed(f, k, n, c), contents')
      BY <2>1, <2>2, <2>3, IndexTypesNext, <1>ReachesRekeyed, SMT DEF f
    <3> QED  BY <3>1 DEF f
  <2>5. ASSUME NEW u \in Thread \ {t}, pc[u] \in Splitting
        PROVE  Lowered(f, topo'.index)
    <3>1. u \in Inserters /\ ~Repairing(u)
      BY <2>5, SplitterInserts DEF Repairing, Splitting
    <3>2. \A x \in c : x <= k
      BY <3>1, InserterElsewhere DEF NoneAbove
    <3>3. Lowered(f, Rekeyed(f, k, n, c))
      BY <2>1, <2>2, <3>2, <1>LoweredRekeyed
    <3> QED  BY <3>3
  <2> QED  BY <2>4, <2>5, <1>CommitReaches

\* UpdateMax moves a node to its maximum.
<1>UpdateMaxReaches.
     ASSUME OneInserter, IInv, IInv', SInv, RInv, NEW t \in Thread, UpdateMax(t)
     PROVE  RInv'
  <2> USE <1>UpdateMaxReaches, Zenon
  <2>1. contents' = contents /\ contents \in [Node -> SUBSET Key] /\ node[t] \in Node /\ Commits(t)
    BY UpdateMaxEffect, IndexTypes DEF Commits
  <2>2. CASE topo' = topo
    <3>1. Lowered(topo.index, topo'.index)
      BY <2>2 DEF Lowered
    <3> QED  BY <2>1, <2>2, <3>1, <1>CommitReaches DEF RInv, Reaches
  <2>3. CASE NeedsRekey(t) /\ topo'.index = Rekeyed(topo.index, key[t], node[t], contents[node[t]])
    <3>1. key[t] \in DOMAIN topo.index /\ node[t] = topo.index[key[t]]
      BY <2>3 DEF NeedsRekey, EntryIsCurrent
    <3> QED  BY <2>1, <2>3, <3>1, <1>RekeyReaches
  <2> QED  BY <2>2, <2>3, UpdateMaxEffect

\* RemoveCommit unlinks a node with its last element.
<1>RemoveCommitReaches.
     ASSUME OneInserter, IInv, IInv', SInv, RInv, NEW t \in Thread, RemoveCommit(t)
     PROVE  RInv'
  <2> USE <1>RemoveCommitReaches, Zenon
  <2>0. Commits(t)
    BY DEF Commits
  <2>1. CASE UNCHANGED <<topo, contents>>
    <3>1. Lowered(topo.index, topo'.index)
      BY <2>1 DEF Lowered
    <3> QED  BY <2>0, <2>1, <3>1, <1>CommitReaches DEF RInv, Reaches
  <2>2. CASE /\ contents'[node[t]] = {} /\ \A n \in Node \ {node[t]} : contents'[n] = contents[n]
             /\ topo'.index = Rekeyed(topo.index, key[t], node[t], {})
    <3>1. key[t] \in DOMAIN topo.index /\ node[t] = topo.index[key[t]] /\ {} \subseteq contents[node[t]]
      BY RemoveCommitEffect
    <3> QED  BY <2>0, <2>2, <3>1, <1>RekeyReaches
  <2> QED  BY <2>1, <2>2, RemoveCommitEffect

\* A range over several nodes.
<1>SeveralNodesReaches.
     ASSUME OneInserter, IInv, IInv', SInv, RInv, NEW t \in Thread, RangeCommit(t),
            NEW fk \in DOMAIN topo.index, NEW bk \in DOMAIN topo.index, fk < bk, SeveralNodesOutcome(t, fk, bk)
     PROVE  RInv'
  <2> USE <1>SeveralNodesReaches, Zenon
  <2> DEFINE f == topo.index
             S == DOMAIN f \ Between(fk, bk)
             r == Restrict(f, S)
             n == f[fk]
             c == Kept(t, fk)
             g == Rekeyed(r, fk, n, c)
             old == contents
             new == contents'
             h == topo'.index
  <2>1. /\ DOMAIN f \subseteq Key /\ f \in [DOMAIN f -> Node] /\ (\A i, j \in DOMAIN f : f[i] = f[j] => i = j)
        /\ old \in [Node -> SUBSET Key] /\ Reaches(f, old)
    BY IndexTypes DEF RInv
  <2>2. new \in [Node -> SUBSET Key] /\ Commits(t)
    BY IndexTypesNext DEF Commits
  <2>3. S \in SUBSET DOMAIN f /\ DOMAIN r = S /\ \A j \in S : r[j] = f[j]
    BY DEF Restrict
  <2>4. fk \in S
    <3>1. fk \in Int
      BY <2>1, KeysAreIntegers
    <3> QED  BY <3>1, SMTT(60) DEF Between
  <2>5. n \in Node /\ n = r[fk] /\ c \in SUBSET Key /\ c \subseteq old[n]
    BY <2>1, <2>3, <2>4 DEF Kept
  <2>6. new[n] = c /\ \A m \in Node : new[m] \subseteq old[m]
    <3>1. new = [m \in Node |-> IF m = n THEN c ELSE IF m = f[bk] THEN Trail(t, bk)
                                ELSE IF m \in {f[k] : k \in Between(fk, bk)} THEN {} ELSE old[m]]
      BY DEF SeveralNodesOutcome
    <3>2. Trail(t, bk) \subseteq old[f[bk]]
      BY DEF Trail
    <3> HIDE DEF new, old, f, n, c
    <3> QED  BY <2>5, <3>1, <3>2
  <2>7. h = g \/ h = Restrict(g, DOMAIN g \ {bk})
    BY DEF SeveralNodesOutcome, Trimmed, Without
  <2> HIDE DEF f, n, c, r, S, old, new
  <2>8. DOMAIN r \subseteq Key /\ r \in [DOMAIN r -> Node] /\ fk \in DOMAIN r
    BY <2>1, <2>3, <2>4 DEF r, Restrict
  <2>9. ASSUME NEW j \in DOMAIN g PROVE j \in Key /\ g[j] \in Node
    <3>1. CASE c # {} /\ j = Max(c) /\ g[j] = n
      BY <2>5, <3>1, MaxInKey
    <3>2. CASE j \in DOMAIN r /\ g[j] = r[j]
      BY <2>8, <3>2
    <3> QED  BY <2>9, <3>1, <3>2, RekeyedEntries, SMT
  <2>10. g = [j \in DOMAIN g |-> g[j]]
    <3>1. CASE c = {}
      BY <3>1 DEF Rekeyed, Without, Restrict
    <3>2. CASE c # {}
      <4> DEFINE m == Max(c)
      <4>1. g = With(Without(r, fk), m, n)
        BY <3>2 DEF Rekeyed
      <4> HIDE DEF g, m
      <4> QED  BY <4>1 DEF With
    <3> QED  BY <3>1, <3>2
  <2>11. DOMAIN g \subseteq Key /\ g \in [DOMAIN g -> Node]
    <3> HIDE DEF g
    <3> QED  BY <2>9, <2>10
  <2>12. Reaches(r, old)
    <3>1. Reaches(Restrict(f, S), old)
      BY <2>1, <2>3, <1>ReachesRestrict
    <3> QED  BY <3>1 DEF r
  <2>13. Reaches(g, new)
    <3>1. \A j \in DOMAIN r \ {fk} : new[r[j]] \subseteq old[r[j]]
      BY <2>6, <2>8
    <3> QED  BY <2>1, <2>2, <2>5, <2>6, <2>8, <2>12, <3>1, <1>ReachesRekeyed
  <2>14. Reaches(h, new)
    <3> HIDE DEF g, h
    <3>1. CASE h = Restrict(g, DOMAIN g \ {bk})
      <4>1. Reaches(Restrict(g, DOMAIN g \ {bk}), new)
        BY <2>2, <2>11, <2>13, <1>ReachesRestrict
      <4> QED  BY <3>1, <4>1
    <3> QED  BY <2>7, <2>13, <3>1
  <2>15. ASSUME NEW u \in Thread \ {t}, pc[u] \in Splitting
         PROVE  Lowered(f, h)
    <3>1. u \in Inserters /\ ~Repairing(u)
      BY <2>15, SplitterInserts DEF Repairing, Splitting
    <3>2. \A x \in c : x <= fk
      BY <3>1, <2>5, InserterElsewhere DEF NoneAbove, f, n, old
    <3>3. \A x \in c : Covers(r, x, fk)
      BY <2>5, <2>8, <2>12 DEF Reaches
    <3>4. Lowered(f, r)
      BY <2>1, <2>3, <1>LoweredRestrict DEF r
    <3>5. Lowered(r, g)
      BY <2>5, <2>8, <3>2, <3>3, <1>LoweredRekeyed
    <3> HIDE DEF g, h
    <3>6. Lowered(f, g)
      BY <2>1, <2>8, <2>11, <3>4, <3>5, <1>LoweredTwice
    <3>7. CASE h = Restrict(g, DOMAIN g \ {bk})
      <4>1. Lowered(g, h) /\ DOMAIN h \subseteq Key
        BY <2>11, <3>7, <1>LoweredRestrict DEF Restrict
      <4> QED  BY <2>1, <2>11, <3>6, <4>1, <1>LoweredTwice
    <3> QED  BY <2>7, <3>6, <3>7
  <2> QED  BY <2>2, <2>14, <2>15, <1>CommitReaches DEF f, new

\* remove_range.
<1>RangeCommitReaches.
     ASSUME OneInserter, IInv, IInv', SInv, RInv, NEW t \in Thread, RangeCommit(t)
     PROVE  RInv'
  <2> USE <1>RangeCommitReaches, Zenon
  <2>1. contents' \in [Node -> SUBSET Key] /\ Commits(t)
    BY IndexTypesNext DEF Commits
  <2>2. CASE UNCHANGED <<topo, contents>>
    <3>1. Lowered(topo.index, topo'.index)
      BY <2>2 DEF Lowered
    <3> QED  BY <2>1, <2>2, <3>1, <1>CommitReaches DEF RInv, Reaches
  <2>3. ASSUME NEW k \in DOMAIN topo.index, OneNodeOutcome(t, k)
        PROVE  RInv'
    <3> DEFINE n == topo.index[k]
               left == contents[n] \ Inside(contents[n], arg[t])
    <3>1. contents'[n] = left /\ (\A m \in Node \ {n} : contents'[m] = contents[m]) /\ left \subseteq contents[n]
      BY <2>3 DEF OneNodeOutcome
    <3>2. topo' = topo \/ topo'.index = Rekeyed(topo.index, k, n, left)
      BY <2>3 DEF OneNodeOutcome
    <3> HIDE DEF left
    <3>3. CASE topo' = topo
      <4>1. Lowered(topo.index, topo'.index)
        BY <3>3 DEF Lowered
      <4>2. \A j \in DOMAIN topo.index : contents'[topo.index[j]] \subseteq contents[topo.index[j]]
        BY <3>1, IndexTypes
      <4>3. Reaches(topo.index, contents')
        BY <2>1, <4>2, IndexTypes, <1>ReachesShrink DEF RInv
      <4> QED  BY <2>1, <3>3, <4>1, <4>3, <1>CommitReaches
    <3>4. CASE topo'.index = Rekeyed(topo.index, k, n, left)
      BY <2>1, <3>1, <3>4, <1>RekeyReaches
    <3> QED  BY <3>2, <3>3, <3>4
  <2>4. \/ UNCHANGED <<topo, contents>> \/ \E k \in DOMAIN topo.index : OneNodeOutcome(t, k)
        \/ \E fk, bk \in DOMAIN topo.index : fk < bk /\ SeveralNodesOutcome(t, fk, bk)
    BY RangeCases, ZenonT(60)
  <2> QED  BY <2>2, <2>3, <2>4, <1>SeveralNodesReaches

<1> USE Zenon
<1> SUFFICES ASSUME OneInserter, IInv, IInv', SInv, RInv, [Next]_vars PROVE RInv'
  OBVIOUS
<1>1. CASE UNCHANGED vars
  BY <1>1 DEF vars, shared, locals, RInv, Reaches, CallerInv, MayCall, SplitInv, SplitOK
<1>2. ASSUME NEW t \in Thread, Call(t) \/ Step(t) PROVE RInv'
  <2>1. ~AttachCommit(t)
    <3>1. AttachCommit(t) => op[t] = "attach_node"
      BY LabelOperation DEF IInv, AttachCommit
    <3> QED  BY <3>1, NoneAssumption DEF RInv, CallerInv, MayCall, Operations, OneInserter
  <2>2. CASE KeepsNodes(t)
    BY <2>2, <1>UndisturbedReaches
  <2>3. CASE PutNode(t) \/ RemoveNode(t)
    BY <2>3, <1>NodeStepReaches
  <2> QED  BY <1>2, <2>1, <2>2, <2>3, <1>PutRootReaches, <1>SplitReaches,
              <1>UpdateMaxReaches, <1>RemoveCommitReaches, <1>RangeCommitReaches
              DEF KeepsNodes, Step, Put, Commit, Delete, RemoveRange, Attach
<1> QED  BY <1>1, <1>2 DEF Next

\* Only a call gives a thread an operation, and one that it may execute.
LEMMA CallersStep ==
  ASSUME IInv, CallerInv, [Next]_vars
  PROVE  CallerInv'
<1> USE Zenon
<1>1. op \in [Thread -> Operations \cup {None}]
  BY DEF IInv, TypeOK
<1>2. ASSUME NEW t \in Thread, op' = op \/ op' = [op EXCEPT ![t] = None]
      PROVE  CallerInv'
  <2>1. \A u \in Thread : op'[u] = op[u] \/ op'[u] = None
    BY <1>1, <1>2
  <2> QED  BY <2>1 DEF CallerInv, MayCall
<1>3. ASSUME NEW t \in Thread, Call(t) PROVE CallerInv'
  <2>1. PICK o \in Operations : MayCall(t, o) /\ op' = [op EXCEPT ![t] = o]
    BY <1>3 DEF Call
  <2>2. op'[t] = o /\ \A u \in Thread \ {t} : op'[u] = op[u]
    BY <1>1, <2>1
  <2> QED  BY <2>1, <2>2 DEF CallerInv, MayCall
<1>4. ASSUME NEW t \in Thread, Step(t) PROVE op' = op \/ op' = [op EXCEPT ![t] = None]
  <2>1. CASE Put(t)
    BY <2>1 DEF Put, PutRead, PutRoot, PutNode
  <2>2. CASE Commit(t)
    BY <2>2 DEF Commit, SplitWrite, SplitCommit, RekeyWrite, UpdateMax
  <2>3. CASE Delete(t)
    BY <2>3 DEF Delete, RemoveRead, RemoveNode, RemoveWrite, RemoveCommit
  <2>4. CASE RemoveRange(t) \/ Attach(t)
    BY <2>4 DEF RemoveRange, RangeWrite, RangeCommit, Attach, AttachWrite, AttachCommit
  <2>5. CASE Drop(t) \/ Return(t)
    BY <2>5 DEF Drop, SwapRoot, Release, Return
  <2>6. CASE Get(t)
    BY <2>6 DEF Get, GetGeneration, GetRoot, GetLock, GetCheck, GetFallback, DropRef, Retry, Answer
  <2>7. CASE SelectOptimistic(t)
    BY <2>7 DEF SelectOptimistic, SelectRead, SelectNode
  <2> QED  BY <1>4, <2>1, <2>2, <2>3, <2>4, <2>5, <2>6, <2>7 DEF Step
<1>5. CASE UNCHANGED vars
  BY <1>5 DEF vars, locals, CallerInv, MayCall
<1> QED  BY <1>2, <1>3, <1>4, <1>5 DEF Next
=============================================================================
