---------------------------- MODULE ConcurrentSet ----------------------------
(***************************************************************************)
(* The concurrent ordered set (src/src/concurrent/set.rs, operation.rs):   *)
(* inserts, removes, point lookups and range removal by several threads    *)
(* over one topology of individually locked nodes.                         *)
(*                                                                         *)
(* A node's sorted vector is the set of its elements.  One action is one   *)
(* stretch between two points where another thread can be observed: the    *)
(* acquisition of the structural lock, of a node lock, an atomic load of   *)
(* the generation or of the published root, and the two stores that end a  *)
(* publication.  Which locks a thread holds follows from its pc.           *)
(***************************************************************************)
EXTENDS Topology

CONSTANTS Thread,
          None,          \* absent option: no node, no key, no outcome
          Capacity,      \* node_capacity
          Inserters, Removers, Lookers, RangeRemovers, Attachers,   \* who calls what
          Restored       \* node contents a set may start from

Operations ==
  {"insert", "remove", "contains", "get", "select_optimistic", "remove_range", "attach_node"}

\* A range argument is [lo, hi) or [lo, hi]: over integers these bounds also
\* stand for an excluded start and for unbounded ends.
Ranges == [lo : Key, hi : Key, closed : BOOLEAN]

Arguments(o) ==
  CASE o = "remove_range" -> Ranges
    [] o = "attach_node" -> (SUBSET Key) \ {{}}
    [] OTHER -> Key

\* attach_nodes: nodes are non-empty and occupy ordered, disjoint ranges.
Attachable(c) ==
  \A m, n \in Node : m # n =>
    (\A x \in c[m], y \in c[n] : x < y) \/ (\A x \in c[m], y \in c[n] : y < x)

\* The other threads are the composed modules' scans and exports.
Callers == UNION {Inserters, Removers, Lookers, RangeRemovers, Attachers}

ASSUME ThreadAssumption == Callers \subseteq Thread
ASSUME NoneAssumption ==
  None \notin Key /\ None \notin Node /\ None \notin BOOLEAN /\ None \notin Operations
ASSUME CapacityAssumption == Capacity \in Nat \ {0}
ASSUME RestoredAssumption ==
  \A c \in Restored : c \in [Node -> SUBSET Key] /\ Attachable(c)

VARIABLES
  topo,      \* canonical index and the writer's publication state
  root,      \* PublishedIndex.current: the snapshot point reads route by
  odd,       \* parity of Topology.generation
  unmoved,   \* readers whose loaded generation is still the current one
  contents,  \* elements of every node
  pc, op, arg,
  node, key, \* the node and routing key a thread works with
  retries,   \* failed optimistic attempts of a point read
  res        \* outcome of a call, once decided

shared == <<topo, root, odd, unmoved, contents>>
locals == <<pc, op, arg, node, key, retries, res>>
vars   == <<shared, locals>>

\* STABLE_READ_BLOCKING_FALLBACK_AFTER
FallbackAfter == 2

-----------------------------------------------------------------------------
(* Locks.                                                                  *)

Publishing == {"split_commit", "remove_commit", "range_commit", "attach_commit",
               "dirty", "swapped", "clean"}

\* "walk" is the label of the composed modules' readers of several nodes.
TopologyReaders == {t \in Thread : pc[t] \in {"put_node", "remove_node", "walk"}}
TopologyWriters == {t \in Thread : pc[t] \in Publishing \cup {"rekey_commit"}}

CanReadTopology  == TopologyWriters = {}
CanWriteTopology == TopologyWriters = {} /\ TopologyReaders = {}

\* Defect: a Ref does not hold the node's lock.
CanWriteNodeUnderRef(n) == \A t \in Thread : pc[t] = "get_check" => node[t] # n

\* A node's write guard never outlives an action; read guards do.
CanWriteNode(n) == \A t \in Thread : pc[t] \in {"get_check", "ref"} => node[t] # n

-----------------------------------------------------------------------------
(* Helpers.                                                                *)

Linked == Range(topo.index)

\* Allocations nobody can reach any more: an Arc keeps its identity in use.
FreeNodes ==
  Node \ (Linked \cup Range(topo.routes) \cup Range(root) \cup Range(node))

\* Identities are interchangeable, so which one an allocation gets is moot.
NewNode == CHOOSE n \in FreeNodes : TRUE

\* generation.fetch_add(1)
BumpGeneration == odd' = ~odd /\ unmoved' = {}

Goto(t, l) == pc' = [pc EXCEPT ![t] = l]
Hold(t, n, k) == node' = [node EXCEPT ![t] = n] /\ key' = [key EXCEPT ![t] = k]
Forget(t) == Hold(t, None, None)
Decide(t, r) == res' = [res EXCEPT ![t] = r]
Store(n, c) == contents' = [contents EXCEPT ![n] = c]

\* The entry of f an operation on v works with, and no entry in an empty map.
Select(t, f, v) ==
  \/ DOMAIN f = {} /\ Forget(t)
  \/ \E k \in DOMAIN f : Covers(f, v, k) /\ Hold(t, f[k], k)

\* NodeLike::halve keeps the lower half in place.
LowerHalf(c) ==
  {x \in c : Cardinality({y \in c : y < x}) < Cardinality(c) \div 2}

\* Elements whose insertion has been acknowledged.
Acknowledged ==
  (UNION {contents[n] : n \in Linked}) \
    {arg[t] : t \in {u \in Thread : op[u] = "insert" /\ res[u] = TRUE}}

\* index.get(&old_max) is this very node.
EntryIsCurrent(t) == key[t] \in DOMAIN topo.index /\ topo.index[key[t]] = node[t]

-----------------------------------------------------------------------------
(* Calls and returns.                                                      *)

FirstStep(o) ==
  CASE o = "insert" -> "put_read"
    [] o = "remove" -> "remove_read"
    [] o \in {"contains", "get"} -> "get_gen"
    [] o = "select_optimistic" -> "select_read"
    [] o = "remove_range" -> "range_write"
    [] o = "attach_node" -> "attach_write"

MayCall(t, o) ==
  \/ o = "insert" /\ t \in Inserters
  \/ o = "remove" /\ t \in Removers
  \/ o \in {"contains", "get", "select_optimistic"} /\ t \in Lookers
  \/ o = "remove_range" /\ t \in RangeRemovers
  \/ o = "attach_node" /\ t \in Attachers

Call(t) ==
  /\ pc[t] = "idle"
  /\ \E o \in {p \in Operations : MayCall(t, p)} :
       /\ op' = [op EXCEPT ![t] = o]
       /\ \E a \in Arguments(o) : arg' = [arg EXCEPT ![t] = a]
       /\ Goto(t, FirstStep(o))
  /\ UNCHANGED <<shared, node, key, retries, res>>

Return(t) ==
  /\ pc[t] = "done"
  /\ Goto(t, "idle")
  /\ op' = [op EXCEPT ![t] = None] /\ arg' = [arg EXCEPT ![t] = None]
  /\ Forget(t) /\ Decide(t, None) /\ retries' = [retries EXCEPT ![t] = 0]
  /\ UNCHANGED shared

-----------------------------------------------------------------------------
(* put_checked_inner and put_inner.                                        *)

\* Route under the structural read guard; an empty index is left to PutRoot.
PutRead(t) ==
  /\ pc[t] = "put_read" /\ CanReadTopology
  /\ Select(t, topo.index, arg[t])
  /\ Goto(t, IF DOMAIN topo.index = {} THEN "put_root" ELSE "put_node")
  /\ UNCHANGED <<shared, op, arg, retries, res>>

\* Publish the first node, unless another first writer did so meanwhile.
PutRoot(t) ==
  /\ pc[t] = "put_root" /\ CanWriteTopology
  /\ BumpGeneration
  /\ \/ /\ DOMAIN topo.index # {}
        /\ Goto(t, "clean")
        /\ UNCHANGED <<topo, contents, res>>
     \/ /\ DOMAIN topo.index = {}
        /\ FreeNodes # {}
        /\ Store(NewNode, {arg[t]})
        /\ topo' = Insert(topo, arg[t], NewNode)
        /\ Decide(t, TRUE) /\ Goto(t, "dirty")
  /\ UNCHANGED <<root, op, arg, node, key, retries>>

\* Under the node's write guard: insert, replace, or schedule a commit.
PutNode(t) ==
  LET n == node[t]
      v == arg[t]
      c == contents[n]
  IN
  /\ pc[t] = "put_node" /\ CanWriteNode(n)
  /\ \/ /\ Cardinality(c) >= Capacity
        /\ Goto(t, "split_write")
        /\ UNCHANGED <<contents, node, key, res>>
     \/ /\ Cardinality(c) < Capacity /\ v \in c
        /\ Decide(t, FALSE) /\ Goto(t, "done") /\ Forget(t)
        /\ UNCHANGED contents
     \/ /\ Cardinality(c) < Capacity /\ v \notin c
        /\ Store(n, c \cup {v}) /\ Decide(t, TRUE)
        /\ \/ \E x \in c : v < x /\ Goto(t, "done") /\ Forget(t)
           \/ (\A x \in c : x < v) /\ Goto(t, "rekey_write") /\ UNCHANGED <<node, key>>
  /\ UNCHANGED <<topo, root, odd, unmoved, op, arg, retries>>

-----------------------------------------------------------------------------
(* Operation::commit.                                                      *)

SplitWrite(t) ==
  /\ pc[t] = "split_write" /\ CanWriteTopology
  /\ BumpGeneration /\ Goto(t, "split_commit")
  /\ UNCHANGED <<topo, root, contents, op, arg, node, key, retries, res>>

\* Topology after splitting: lower half under the old node, upper under new.
SplitTopology(T, oldKey, n, lower, new, upper) ==
  LET T1 == Remove(T, oldKey)
      T2 == IF lower = {} THEN T1 ELSE Insert(T1, Max(lower), n)
  IN  Insert(T2, Max(upper), new)

\* The half that takes the riding value v.
RidesLow(lower, v) == lower # {} /\ v <= Max(lower)

SplitCommit(t) ==
  LET n     == node[t]
      v     == arg[t]
      c     == contents[n]
      lower == LowerHalf(c)
      left  == IF RidesLow(lower, v) THEN lower \cup {v} ELSE lower
      right == IF RidesLow(lower, v) THEN c \ lower ELSE (c \ lower) \cup {v}
  IN
  /\ pc[t] = "split_commit" /\ CanWriteNode(n)
  /\ Forget(t)
  /\ \/ /\ ~EntryIsCurrent(t) \/ c = {}
        /\ Goto(t, "clean")
        /\ UNCHANGED <<topo, contents, res>>
     \/ /\ EntryIsCurrent(t) /\ c # {}
        /\ FreeNodes # {}
        /\ contents' = [contents EXCEPT ![n] = left, ![NewNode] = right]
        /\ topo' = SplitTopology(topo, key[t], n, left, NewNode, right)
        /\ Decide(t, v \notin c) /\ Goto(t, "dirty")
  /\ UNCHANGED <<root, odd, unmoved, op, arg, retries>>

\* write_rekey leaves the generation alone.
RekeyWrite(t) ==
  /\ pc[t] = "rekey_write" /\ CanWriteTopology
  /\ Goto(t, "rekey_commit")
  /\ UNCHANGED <<shared, op, arg, node, key, retries, res>>

\* The entry is current and its key is no longer the node's maximum.
NeedsRekey(t) ==
  EntryIsCurrent(t) /\ contents[node[t]] # {} /\ Max(contents[node[t]]) # key[t]

\* Defect: a repair installs the maximum its own insert saw.
UpdateMaxToOwnValue(t) ==
  /\ pc[t] = "rekey_commit" /\ CanWriteNode(node[t])
  /\ topo' = IF NeedsRekey(t) /\ op[t] = "insert"
             THEN RekeyLastNode(topo, key[t], arg[t], node[t]) ELSE topo
  /\ Goto(t, "done") /\ Forget(t)
  /\ UNCHANGED <<root, odd, unmoved, contents, op, arg, retries, res>>

UpdateMax(t) ==
  LET n   == node[t]
      max == Max(contents[n])
  IN
  /\ pc[t] = "rekey_commit" /\ CanWriteNode(n)
  /\ Forget(t)
  /\ \/ /\ ~NeedsRekey(t)
        /\ Goto(t, "done")
        /\ UNCHANGED <<topo, odd, unmoved>>
     \/ /\ NeedsRekey(t) /\ CanRekeyLastNode(topo, root, n, max)
        /\ topo' = RekeyLastNode(topo, key[t], max, n)
        /\ Goto(t, "done")
        /\ UNCHANGED <<odd, unmoved>>
     \/ /\ NeedsRekey(t) /\ ~CanRekeyLastNode(topo, root, n, max)
        /\ BumpGeneration
        /\ topo' = Insert(Remove(topo, key[t]), max, n)
        /\ Goto(t, "dirty")
  /\ UNCHANGED <<root, contents, op, arg, retries, res>>

-----------------------------------------------------------------------------
(* remove_inner.                                                           *)

RemoveRead(t) ==
  /\ pc[t] = "remove_read" /\ CanReadTopology
  /\ Select(t, topo.index, arg[t])
  /\ \/ DOMAIN topo.index = {} /\ Decide(t, FALSE) /\ Goto(t, "done")
     \/ DOMAIN topo.index # {} /\ Goto(t, "remove_node") /\ UNCHANGED res
  /\ UNCHANGED <<shared, op, arg, retries>>

\* Defect: a node's last element is removed like any other.
RemoveNodeInPlace(t) ==
  /\ pc[t] = "remove_node" /\ CanWriteNode(node[t])
  /\ Store(node[t], contents[node[t]] \ {arg[t]})
  /\ Decide(t, arg[t] \in contents[node[t]]) /\ Goto(t, "done") /\ Forget(t)
  /\ UNCHANGED <<topo, root, odd, unmoved, op, arg, retries>>

\* A node's last element is left to a commit under the structural lock.
RemoveNode(t) ==
  LET n == node[t]
      v == arg[t]
      c == contents[n]
  IN
  /\ pc[t] = "remove_node" /\ CanWriteNode(n)
  /\ \/ /\ v \notin c
        /\ Decide(t, FALSE) /\ Goto(t, "done") /\ Forget(t)
        /\ UNCHANGED contents
     \/ /\ v \in c /\ Cardinality(c) <= 1
        /\ Goto(t, "remove_write") /\ Forget(t)
        /\ UNCHANGED <<contents, res>>
     \/ /\ v \in c /\ Cardinality(c) > 1
        /\ Store(n, c \ {v}) /\ Decide(t, TRUE)
        /\ \/ \E x \in c : v < x /\ Goto(t, "done") /\ Forget(t)
           \/ (\A x \in c : x <= v) /\ Goto(t, "rekey_write") /\ UNCHANGED <<node, key>>
  /\ UNCHANGED <<topo, root, odd, unmoved, op, arg, retries>>

\* Route again: the candidate may have moved while no guard was held.
RemoveWrite(t) ==
  /\ pc[t] = "remove_write" /\ CanWriteTopology
  /\ BumpGeneration
  /\ Select(t, topo.index, arg[t])
  /\ \/ DOMAIN topo.index = {} /\ Decide(t, FALSE) /\ Goto(t, "clean")
     \/ DOMAIN topo.index # {} /\ Goto(t, "remove_commit") /\ UNCHANGED res
  /\ UNCHANGED <<topo, root, contents, op, arg, retries>>

\* Defect: a node that grew while no guard was held is unlinked all the same.
RemoveCommitGrown(t) ==
  LET c == contents[node[t]]
  IN
  /\ pc[t] = "remove_commit" /\ CanWriteNode(node[t])
  /\ Store(node[t], c \ {arg[t]})
  /\ topo' = IF arg[t] \in c THEN Remove(topo, key[t]) ELSE topo
  /\ Decide(t, arg[t] \in c) /\ Goto(t, "dirty") /\ Forget(t)
  /\ UNCHANGED <<root, odd, unmoved, op, arg, retries>>

RemoveCommit(t) ==
  LET n == node[t]
      v == arg[t]
      c == contents[n]
  IN
  /\ pc[t] = "remove_commit" /\ CanWriteNode(n)
  /\ Forget(t)
  /\ \/ /\ Cardinality(c) > 1
        /\ Goto(t, "clean")
        /\ UNCHANGED <<topo, contents, res>>
     \/ /\ Cardinality(c) <= 1 /\ v \notin c
        /\ Decide(t, FALSE) /\ Goto(t, "clean")
        /\ UNCHANGED <<topo, contents>>
     \/ /\ Cardinality(c) <= 1 /\ v \in c
        /\ Store(n, c \ {v}) /\ topo' = Remove(topo, key[t])
        /\ Decide(t, TRUE) /\ Goto(t, "dirty")
  /\ UNCHANGED <<root, odd, unmoved, op, arg, retries>>

-----------------------------------------------------------------------------
(* remove_range.                                                           *)

RangeWrite(t) ==
  /\ pc[t] = "range_write" /\ CanWriteTopology
  /\ BumpGeneration /\ Goto(t, "range_commit")
  /\ UNCHANGED <<topo, root, contents, op, arg, node, key, retries, res>>

\* Elements inside a range argument.
Inside(S, r) == {x \in S : r.lo <= x /\ (x < r.hi \/ (r.closed /\ x = r.hi))}

\* Defect: a drained node keeps its entry.
RekeyDrained(T, k, n, c) ==
  IF c = {} THEN T ELSE Insert(Remove(T, k), Max(c), n)

\* Defect: the entry is re-keyed to the first element.
RekeyToFirst(T, k, n, c) ==
  IF c = {} THEN Remove(T, k) ELSE Insert(Remove(T, k), Min(c), n)

\* Re-key node n after its maximum went away, or unlink it when drained.
Rekey(T, k, n, c) ==
  IF c = {} THEN Remove(T, k) ELSE Insert(Remove(T, k), Max(c), n)

\* First node reaching lo, first node reaching hi (or the last node).
IsFront(f, lo, k) == k \in DOMAIN f /\ lo <= k /\ \A j \in DOMAIN f : lo <= j => k <= j

\* The whole range lives in the node under key k.
RangeInOneNode(t, k) ==
  LET n == topo.index[k]
      gone == Inside(contents[n], arg[t])
      left == contents[n] \ gone
  IN
  /\ CanWriteNode(n)
  /\ Store(n, left)
  /\ IF gone # {} /\ Max(contents[n]) \in gone
     THEN topo' = Rekey(topo, k, n, left) /\ Goto(t, "dirty")
     ELSE Goto(t, "clean") /\ UNCHANGED topo

\* Drop the nodes in between, trim the front node and the back node.
RangeAcrossNodes(t, fk, bk) ==
  LET front  == topo.index[fk]
      back   == topo.index[bk]
      between == {k \in DOMAIN topo.index : fk < k /\ k < bk}
      middle == {topo.index[k] : k \in between}
      kept   == {x \in contents[front] : x < arg[t].lo}
      tail   == {x \in contents[back] : arg[t].hi < x \/ (~arg[t].closed /\ arg[t].hi = x)}
      T1     == Rekey(RemoveAll(topo, between), fk, front, kept)
  IN
  /\ \A n \in middle \cup {front, back} : CanWriteNode(n)
  /\ contents' = [n \in Node |-> IF n = front THEN kept
                                ELSE IF n = back THEN tail
                                ELSE IF n \in middle THEN {} ELSE contents[n]]
  /\ topo' = IF tail = {} THEN Remove(T1, bk) ELSE T1
  /\ Goto(t, "dirty")

RangeCommit(t) ==
  /\ pc[t] = "range_commit"
  /\ \/ /\ \A fk, bk \in DOMAIN topo.index :
             ~(IsFront(topo.index, arg[t].lo, fk) /\ Covers(topo.index, arg[t].hi, bk) /\ fk <= bk)
        /\ Goto(t, "clean")
        /\ UNCHANGED <<topo, contents>>
     \/ \E fk, bk \in DOMAIN topo.index :
          /\ IsFront(topo.index, arg[t].lo, fk) /\ Covers(topo.index, arg[t].hi, bk)
          /\ \/ fk = bk /\ RangeInOneNode(t, fk)
             \/ fk < bk /\ RangeAcrossNodes(t, fk, bk)
  /\ Decide(t, TRUE)
  /\ UNCHANGED <<root, odd, unmoved, op, arg, node, key, retries>>

-----------------------------------------------------------------------------
(* attach_nodes, for a batch of one node.                                  *)

AttachWrite(t) ==
  /\ pc[t] = "attach_write" /\ CanWriteTopology
  /\ BumpGeneration /\ Goto(t, "attach_commit")
  /\ UNCHANGED <<topo, root, contents, op, arg, node, key, retries, res>>

\* The documented precondition: the values and the nodes already attached
\* form mutually ordered, non-overlapping ranges.
Fits(c) ==
  \A n \in Linked : (\A x \in c, y \in contents[n] : x < y) \/ (\A x \in c, y \in contents[n] : y < x)

\* A call outside the precondition is given no effect.
AttachCommit(t) ==
  /\ pc[t] = "attach_commit"
  /\ Decide(t, Fits(arg[t]))
  /\ \/ /\ Fits(arg[t]) /\ FreeNodes # {}
        /\ Store(NewNode, arg[t])
        /\ topo' = Insert(topo, Max(arg[t]), NewNode)
        /\ Goto(t, "dirty")
     \/ /\ ~Fits(arg[t])
        /\ Goto(t, "clean")
        /\ UNCHANGED <<topo, contents>>
  /\ UNCHANGED <<root, odd, unmoved, op, arg, node, key, retries>>

-----------------------------------------------------------------------------
(* Drop of TopologyWriteGuard.                                             *)

\* Swap the published root; the generation is still odd.
SwapRoot(t) ==
  /\ pc[t] = "dirty"
  /\ root' = topo.routes
  /\ Goto(t, "swapped")
  /\ UNCHANGED <<topo, odd, unmoved, contents, op, arg, node, key, retries, res>>

\* Make the generation even and release the structural lock.  A commit that
\* decided nothing starts its operation over.
Release(t) ==
  /\ pc[t] \in {"swapped", "clean"}
  /\ BumpGeneration
  /\ Goto(t, IF res[t] = None THEN FirstStep(op[t]) ELSE "done")
  /\ UNCHANGED <<topo, root, contents, op, arg, node, key, retries, res>>

-----------------------------------------------------------------------------
(* get_with, lock_node_for_value and get.                                  *)

\* Defect: failed attempts are not counted.
RetryUncounted(t) ==
  /\ Goto(t, "get_gen") /\ Forget(t)
  /\ UNCHANGED retries

Retry(t) ==
  /\ retries' = [retries EXCEPT ![t] = @ + 1]
  /\ Goto(t, "get_gen") /\ Forget(t)

\* Answer from node n; a Ref keeps the node's read guard.
Answer(t, n, hit) ==
  /\ Decide(t, hit)
  /\ IF op[t] = "get" /\ hit
     THEN Goto(t, "ref") /\ Hold(t, n, None)
     ELSE Goto(t, "done") /\ Forget(t)

\* Defect: an optimistic attempt is made whatever the number of failures.
GetGenerationUnbounded(t) ==
  /\ pc[t] = "get_gen"
  /\ IF odd THEN Retry(t) /\ UNCHANGED unmoved
     ELSE unmoved' = unmoved \cup {t} /\ Goto(t, "get_root") /\ UNCHANGED <<node, key, retries>>
  /\ UNCHANGED <<topo, root, odd, contents, op, arg, res>>

GetGeneration(t) ==
  /\ pc[t] = "get_gen" /\ retries[t] < FallbackAfter
  /\ \/ /\ odd
        /\ Retry(t)
        /\ UNCHANGED unmoved
     \/ /\ ~odd
        /\ unmoved' = unmoved \cup {t}
        /\ Goto(t, "get_root")
        /\ UNCHANGED <<node, key, retries>>
  /\ UNCHANGED <<topo, root, odd, contents, op, arg, res>>

\* Load the root and route in that snapshot.
GetRoot(t) ==
  /\ pc[t] = "get_root"
  /\ Select(t, root, arg[t])
  /\ Goto(t, IF DOMAIN root = {} THEN "get_check" ELSE "get_lock")
  /\ UNCHANGED <<shared, op, arg, retries, res>>

GetLock(t) ==
  /\ pc[t] = "get_lock"
  /\ Goto(t, "get_check")
  /\ UNCHANGED <<shared, op, arg, node, key, retries, res>>

\* Load the generation again with the node locked.
GetCheck(t) ==
  /\ pc[t] = "get_check"
  /\ \/ /\ t \in unmoved
        /\ Answer(t, node[t], node[t] # None /\ arg[t] \in contents[node[t]])
        /\ UNCHANGED retries
     \/ /\ t \notin unmoved
        /\ Retry(t)
        /\ UNCHANGED res
  /\ unmoved' = unmoved \ {t}
  /\ UNCHANGED <<topo, root, odd, contents, op, arg>>

\* Route canonically and lock the node under the structural read guard.
GetFallback(t) ==
  /\ pc[t] = "get_gen" /\ retries[t] >= FallbackAfter /\ CanReadTopology
  /\ \/ /\ DOMAIN topo.index = {}
        /\ Answer(t, None, FALSE)
     \/ \E k \in DOMAIN topo.index :
          /\ Covers(topo.index, arg[t], k)
          /\ Answer(t, topo.index[k], arg[t] \in contents[topo.index[k]])
  /\ UNCHANGED <<shared, op, arg, retries>>

\* The caller drops its Ref.
DropRef(t) ==
  /\ pc[t] = "ref"
  /\ Goto(t, "done") /\ Forget(t)
  /\ UNCHANGED <<shared, op, arg, retries, res>>

\* lock_node_for_value_optimistic: the structural guard is dropped before
\* the node is locked, and nothing is validated afterwards.
SelectRead(t) ==
  /\ pc[t] = "select_read" /\ CanReadTopology
  /\ Select(t, topo.index, arg[t])
  /\ \/ DOMAIN topo.index = {} /\ Decide(t, FALSE) /\ Goto(t, "done")
     \/ DOMAIN topo.index # {} /\ Goto(t, "select_node") /\ UNCHANGED res
  /\ UNCHANGED <<shared, op, arg, retries>>

SelectNode(t) ==
  /\ pc[t] = "select_node"
  /\ Decide(t, arg[t] \in contents[node[t]])
  /\ Goto(t, "done") /\ Forget(t)
  /\ UNCHANGED <<shared, op, arg, retries>>

-----------------------------------------------------------------------------
(* The specification.                                                      *)

\* with_maximum_node_size followed by attach_nodes.
AttachedIndex(c) ==
  LET filled == {n \in Node : c[n] # {}}
  IN  [k \in {Max(c[n]) : n \in filled} |-> CHOOSE n \in filled : Max(c[n]) = k]

Init ==
  /\ contents \in Restored
  /\ root = AttachedIndex(contents)
  /\ topo = [index |-> root, routes |-> root, keys |-> AntiFunction(root)]
  /\ odd = FALSE /\ unmoved = {}
  /\ pc = [t \in Thread |-> "idle"]
  /\ op = [t \in Thread |-> None] /\ arg = [t \in Thread |-> None]
  /\ node = [t \in Thread |-> None] /\ key = [t \in Thread |-> None]
  /\ retries = [t \in Thread |-> 0]
  /\ res = [t \in Thread |-> None]

Put(t)    == PutRead(t) \/ PutRoot(t) \/ PutNode(t)
Commit(t) == SplitWrite(t) \/ SplitCommit(t) \/ RekeyWrite(t) \/ UpdateMax(t)
Delete(t) == RemoveRead(t) \/ RemoveNode(t) \/ RemoveWrite(t) \/ RemoveCommit(t)
RemoveRange(t) == RangeWrite(t) \/ RangeCommit(t)
Attach(t) == AttachWrite(t) \/ AttachCommit(t)
Drop(t)   == SwapRoot(t) \/ Release(t)
Get(t)    == GetGeneration(t) \/ GetRoot(t) \/ GetLock(t) \/ GetCheck(t) \/ GetFallback(t) \/ DropRef(t)
SelectOptimistic(t) == SelectRead(t) \/ SelectNode(t)

Step(t) ==
  \/ Put(t) \/ Commit(t) \/ Delete(t) \/ RemoveRange(t) \/ Attach(t) \/ Drop(t)
  \/ Get(t) \/ SelectOptimistic(t) \/ Return(t)

Next == \E t \in Thread : Call(t) \/ Step(t)

Spec == Init /\ [][Next]_vars


\* Callers drop their references, and parking_lot hands a contended lock to
\* every waiter eventually (its unlocks are fair every millisecond or so).
FairSpec == Spec /\ \A t \in Thread : SF_vars(Step(t))

-----------------------------------------------------------------------------
(* Types.                                                                  *)

\* The labels a thread passes through while it executes operation o.
Labels(o) ==
  {"done"} \cup
  CASE o = "insert" -> {"put_read", "put_root", "put_node", "split_write", "split_commit",
                        "rekey_write", "rekey_commit", "dirty", "swapped", "clean"}
    [] o = "remove" -> {"remove_read", "remove_node", "remove_write", "remove_commit",
                        "rekey_write", "rekey_commit", "dirty", "swapped", "clean"}
    [] o = "contains" -> {"get_gen", "get_root", "get_lock", "get_check"}
    [] o = "get" -> {"get_gen", "get_root", "get_lock", "get_check", "ref"}
    [] o = "select_optimistic" -> {"select_read", "select_node"}
    [] o = "remove_range" -> {"range_write", "range_commit", "dirty", "swapped", "clean"}
    [] o = "attach_node" -> {"attach_write", "attach_commit", "dirty", "swapped", "clean"}

\* Where a thread is working with a node, and with its routing key.
AtNode == {"put_node", "split_write", "split_commit", "rekey_write", "rekey_commit",
           "remove_node", "remove_commit", "get_lock", "get_check", "ref", "select_node"}
AtEntry == AtNode \ {"get_check", "ref"}

\* Program counter, operation, argument, node, key and retries of a thread fit together.
ThreadOK(t) ==
  /\ IF op[t] = None THEN (pc[t] = "idle" \/ (pc[t] = "walk" /\ t \notin Callers)) /\ arg[t] = None
     ELSE pc[t] \in Labels(op[t]) /\ arg[t] \in Arguments(op[t])
  /\ (op[t] # None \/ t \in Callers) /\ pc[t] \notin AtNode => node[t] = None
  /\ pc[t] \in AtNode \ {"get_check"} => node[t] # None
  /\ pc[t] \in AtEntry => key[t] # None
  /\ pc[t] \in {"get_root", "get_lock", "get_check"} => retries[t] < FallbackAfter

\* Every variable holds a value the code's types and control flow allow.
TypeOK ==
  /\ topo \in Topologies
  /\ root \in PartialFunctions(Key, Node)
  /\ odd \in BOOLEAN /\ unmoved \in SUBSET Thread
  /\ contents \in [Node -> SUBSET Key]
  /\ DOMAIN pc = Thread /\ DOMAIN arg = Thread
  /\ op \in [Thread -> Operations \cup {None}]
  /\ node \in [Thread -> Node \cup {None}] /\ key \in [Thread -> Key \cup {None}]
  /\ retries \in [Thread -> 0 .. FallbackAfter]
  /\ res \in [Thread -> BOOLEAN \cup {None}]
  /\ \A t \in Thread : ThreadOK(t)

-----------------------------------------------------------------------------
(* Safety.                                                                 *)

\* The publication invariant documented above Topology, which the debug
\* assertions in the guard's Drop test: whatever threads commit, and in
\* whatever order, the guard's routes mirror the canonical index, and unless
\* a guard is about to swap the root, these are the routes readers see.
PublicationInvariant ==
  /\ Mirrors(topo)
  /\ (\A t \in Thread : pc[t] # "dirty") => root = topo.routes

\* A point read whose generation check is about to succeed in get_with or
\* lock_node_for_value has locked the very node the canonical index routes
\* its value to, or has seen an empty set; so its answer is definitive even
\* though last-node re-keys went on meanwhile without a generation change.
ValidatedReadIsDefinitive ==
  \A t \in Thread :
    pc[t] = "get_check" /\ t \in unmoved =>
      IF node[t] = None THEN DOMAIN topo.index = {}
      ELSE \E k \in DOMAIN topo.index : Covers(topo.index, arg[t], k) /\ topo.index[k] = node[t]

\* No thread ever finds an empty node in the index: removing a node's last
\* element unlinks the node in the same critical section (remove_inner,
\* remove_range), so the empty-node branches of Operation::commit are dead.
NoLinkedNodeIsEmpty == \A n \in Linked : contents[n] # {}

\* Every element is stored where a point operation on it looks for it.  Nodes
\* then occupy disjoint ranges, no element is stored twice and none is lost
\* behind a neighbour's key.
ElementsAreReachable ==
  \A k \in DOMAIN topo.index : \A v \in contents[topo.index[k]] : Covers(topo.index, v, k)

\* A routing key that is not its node's maximum is transient: the thread that
\* changed the maximum in put_checked_inner or remove_inner still has its
\* UpdateMax to commit under that very key.
StaleKeyHasRepairer ==
  \A k \in DOMAIN topo.index :
    contents[topo.index[k]] # {} /\ Max(contents[topo.index[k]]) # k =>
      \E t \in Thread :
        pc[t] \in {"rekey_write", "rekey_commit"} /\ node[t] = topo.index[k] /\ key[t] = k

\* The documented promise of lock_node_for_value: hits and misses are
\* definitive.  A read that passes its generation check finds its value in
\* the node it locked exactly when some linked node stores it.
\* The code does not meet it: see Observations in the README.
HitsAndMissesAreDefinitive ==
  \A t \in Thread :
    pc[t] = "get_check" /\ t \in unmoved /\ node[t] # None =>
      (arg[t] \in contents[node[t]] <=> \E n \in Linked : arg[t] \in contents[n])

\* What remove_range takes for granted when no routing key reaches its start
\* bound: no stored element lies inside the range.
\* The code does not meet it: see Observations in the README.
NothingBeyondLastKey ==
  \A t \in Thread :
    pc[t] = "range_commit" /\ (\A k \in DOMAIN topo.index : k < arg[t].lo) =>
      \A n \in Linked : Inside(contents[n], arg[t]) = {}

\* Linearizability: the elements of the linked nodes form a set on which every
\* call takes effect at one instant and reports what it did there.
Atomic == INSTANCE AtomicSet WITH set <- UNION {contents[n] : n \in Linked}
Linearizable == Atomic!Spec

-----------------------------------------------------------------------------
(* Liveness.                                                               *)

\* Every call returns: point reads stop retrying under writer churn (the
\* blocking fallback), and a writer that loses a commit race succeeds later,
\* as long as no two threads both insert and remove.
EveryCallReturns == \A t \in Thread : op[t] # None ~> op[t] = None
=============================================================================
