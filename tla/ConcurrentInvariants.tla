------------------------ MODULE ConcurrentInvariants ------------------------
(***************************************************************************)
(* The inductive invariants of the concurrent set that its proofs and the  *)
(* proofs about walks over it share, and the words for what a step leaves  *)
(* alone.                                                                  *)
(***************************************************************************)
EXTENDS ConcurrentSet

-----------------------------------------------------------------------------
(* The inductive invariant of the topology and its readers.                *)

Writing == Publishing \cup {"rekey_commit"}

Reading == {"put_node", "remove_node", "walk"}

\* The structural lock excludes, and the generation is odd exactly while a
\* publishing guard exists; a reader's even generation is then out of date.
LockInv ==
  /\ \A t, u \in Thread : t # u /\ pc[t] \in Writing => pc[u] \notin Writing \cup Reading
  /\ odd <=> \E t \in Thread : pc[t] \in Publishing
  /\ odd => unmoved = {}

\* Node n, or no node, is where the map f routes the value v.
RoutedBy(f, v, n) ==
  IF n = None THEN DOMAIN f = {} ELSE \E k \in DOMAIN f : Covers(f, v, k) /\ f[k] = n

\* As long as a reader's generation is current, so is its route.
ReaderInv ==
  \A t \in unmoved : pc[t] \in {"get_lock", "get_check"} => RoutedBy(root, arg[t], node[t])

\* Nodes hold finite sets of values, which can be counted and have two ends.
KeySetsCount ==
  /\ Cardinality({}) = 0
  /\ \A c \in SUBSET Key : Cardinality(c) \in Nat
  /\ \A c \in SUBSET Key : \A v \in c : Cardinality(c \ {v}) = Cardinality(c) - 1
  /\ \A c, d \in SUBSET Key : c \subseteq d => Cardinality(c) <= Cardinality(d)
  /\ \A c \in SUBSET Key : c # {} => /\ \E x \in c : \A y \in c : x <= y
                                   /\ \E x \in c : \A y \in c : y <= x

IInv == KeySetsCount /\ TypeOK /\ PublicationInvariant /\ LockInv /\ ReaderInv

-----------------------------------------------------------------------------
(* The inductive invariant of routing keys, on top of IInv.                *)

\* Where a thread has routed under a structural lock that it still holds.
Held == {"put_node", "remove_node", "remove_commit"}

\* The entry such a thread works with is the one its value is routed to.
HeldInv ==
  \A t \in Thread : pc[t] \in Held => EntryIsCurrent(t) /\ Covers(topo.index, arg[t], key[t])

Repairing(t) == pc[t] \in {"rekey_write", "rekey_commit"}

\* Thread t has the UpdateMax of node n to commit under routing key k.
Repairs(t, n, k) == Repairing(t) /\ node[t] = n /\ key[t] = k

\* A linked node has elements; a key that is not their maximum is going to be
\* repaired; when it lies below an element, by an insert.
EntryRepaired(k, n) ==
  /\ contents[n] # {}
  /\ Max(contents[n]) # k => \E t \in Thread : Repairs(t, n, k)
  /\ \A v \in contents[n] : k < v => \E t \in Thread : op[t] = "insert" /\ Repairs(t, n, k)

RepairInv == \A k \in DOMAIN topo.index : EntryRepaired(k, topo.index[k])

SInv == HeldInv /\ RepairInv

-----------------------------------------------------------------------------
(* The inductive invariant of reachability, with one inserting thread.     *)

\* One thread inserts, and nodes are attached only before the set is shared.
OneInserter == (\A t, u \in Inserters : t = u) /\ Attachers = {}

Splitting == {"split_write", "split_commit"}

\* The node of a thread that is about to split has not moved, and then it is
\* still the one the thread's value is routed to, or it has moved down.
SplitOK(t) ==
  \A j \in DOMAIN topo.index :
    topo.index[j] = node[t] => j <= key[t] /\ (j = key[t] => Covers(topo.index, arg[t], j))

CallerInv == \A t \in Thread : op[t] # None => MayCall(t, op[t])

SplitInv == \A t \in Thread : pc[t] \in Splitting => SplitOK(t)

\* Every element is stored where the index routes it to.
Reaches(f, c) == \A k \in DOMAIN f : \A v \in c[f[k]] : Covers(f, v, k)

RInv == Reaches(topo.index, contents) /\ CallerInv /\ SplitInv

\* Elements lie at or below their nodes' keys.
NoneAbove == \A k \in DOMAIN topo.index : \A v \in contents[topo.index[k]] : v <= k

-----------------------------------------------------------------------------
(* Outcomes, and values above their node's key.                            *)

\* Where a call has no outcome yet, and where it has one.
Pending ==   {"put_read", "put_root", "put_node", "split_write", "split_commit",
              "remove_read", "remove_node", "remove_write", "remove_commit",
              "range_write", "range_commit", "attach_write", "attach_commit",
              "get_gen", "get_root", "get_lock", "get_check", "select_read", "select_node"}

Undecided == Pending \cup {"idle", "walk"}

Decided == {"rekey_write", "rekey_commit", "dirty", "swapped", "ref", "done"}

ResOK(t) == (pc[t] \in Undecided => res[t] = None) /\ (pc[t] \in Decided => res[t] # None)

ResInv == \A t \in Thread : ResOK(t)

\* Of the node that an insert is to re-key only the inserted value lies above
\* the routing key, and the insert's outcome is decided.
OwnAbove(t) ==
  op[t] = "insert" /\ Repairing(t) =>
    res[t] = TRUE /\ \A v \in contents[node[t]] : v > key[t] => v = arg[t]

AboveInv == \A t \in Thread : OwnAbove(t)

-----------------------------------------------------------------------------
(* What a step of one thread does to the rest.                             *)

\* A step of thread t leaves the other threads' variables alone.
OthersStay(t) ==
  \A u \in Thread \ {t} :
    /\ pc'[u] = pc[u] /\ op'[u] = op[u] /\ arg'[u] = arg[u]
    /\ node'[u] = node[u] /\ key'[u] = key[u] /\ retries'[u] = retries[u]

Idle(t) == OthersStay(t) /\ topo' = topo /\ contents' = contents

\* What a step of thread t may do to the nodes: take elements out; add the value
\* that t inserts where there is room, or to the lower half of a split; fill a
\* node nobody knows with that value, the upper half or an attached node.
NodesChange(t) ==
  \A n \in Node :
    \/ contents'[n] \subseteq contents[n]
    \/ /\ n = node[t] /\ op[t] = "insert" /\ op' = op /\ arg' = arg /\ arg[t] \in Key
       /\ arg[t] \in contents[n] \/ res'[t] = TRUE
       /\ \/ Cardinality(contents[n]) < Capacity /\ contents'[n] \subseteq contents[n] \cup {arg[t]}
          \/ contents'[n] \subseteq LowerHalf(contents[n]) \cup {arg[t]}
    \/ /\ \A u \in Thread : node[u] # n
       /\ \/ op[t] = "attach_node"
          \/ /\ arg[t] \in Key /\ node[t] \in Node \cup {None}
             /\ \/ contents'[n] \subseteq {arg[t]}
                \/ /\ node[t] \in Node
                   /\ contents'[n] \subseteq (contents[node[t]] \ LowerHalf(contents[node[t]])) \cup {arg[t]}

\* A node that somebody keeps gains at most the value that thread t inserts,
\* with the insert's outcome decided.
GrowsByInsert(t) ==
  \A u \in Thread : node[u] \in Node =>
    \A x \in contents'[node[u]] :
      \/ x \in contents[node[u]]
      \/ op[t] = "insert" /\ op' = op /\ arg' = arg /\ x = arg[t] /\ res'[t] = TRUE
=============================================================================
