------------------------- MODULE ConcurrentMultimap -------------------------
(***************************************************************************)
(* The concurrent multimap (src/src/concurrent/multimap.rs): a concurrent  *)
(* set of (key, value) entries, ordered by key and then by value           *)
(* (src/src/core/multipair/ord.rs), whose borrowed form is the key alone.  *)
(* Exact calls are those of ConcurrentSet on the entry.  remove_some and   *)
(* contains_key route by the borrowed key and match any entry that has it. *)
(***************************************************************************)
EXTENDS ConcurrentSet

CONSTANT PerKey   \* entries that share one key

ASSUME PerKeyAssumption == PerKey \in Nat \ {0}

VARIABLES keyed,   \* the thread's call names a key only
          taken    \* the entry remove_some took out

multi == <<keyed, taken>>

\* Borrow<K>: entries are numbered in the order of cmp.
KeyOf(e) == (e - 1) \div PerKey

\* The first route whose borrowed key reaches k is the first that reaches the
\* lowest entry of k, so that entry stands for k in the argument.
Lowest(e) == (e - 1) % PerKey = 0

\* The entries of c that compare equal to the argument.
Matching(t, c) == {e \in c : KeyOf(e) = KeyOf(arg[t])}

\* insert, remove, remove_some and contains_key
MultiCall(t) ==
  /\ Call(t) /\ op'[t] \notin {"get", "select_optimistic"}
  /\ \E k \in BOOLEAN :
       /\ k => op'[t] \in {"remove", "contains"} /\ Lowest(arg'[t])
       /\ keyed' = [keyed EXCEPT ![t] = k]
  /\ UNCHANGED taken

-----------------------------------------------------------------------------
(* remove_inner with a borrowed key                                        *)

Take(t, e) == taken' = [taken EXCEPT ![t] = e]

\* Under the node's write guard; which of several matches the search meets is
\* left open.
RemoveSomeNode(t) ==
  LET n == node[t]
      c == contents[n]
      found == Matching(t, c)
  IN
  /\ pc[t] = "remove_node" /\ CanWriteNode(n)
  /\ \/ /\ found = {}
        /\ Decide(t, FALSE) /\ Goto(t, "done") /\ Forget(t)
        /\ UNCHANGED <<contents, taken>>
     \/ /\ found # {} /\ Cardinality(c) <= 1
        /\ Goto(t, "remove_write") /\ Forget(t)
        /\ UNCHANGED <<contents, res, taken>>
     \/ \E e \in found :
          /\ Cardinality(c) > 1
          /\ Store(n, c \ {e}) /\ Decide(t, TRUE) /\ Take(t, e)
          /\ IF e = Max(c) THEN Goto(t, "rekey_write") /\ UNCHANGED <<node, key>>
             ELSE Goto(t, "done") /\ Forget(t)
  /\ UNCHANGED <<topo, root, odd, unmoved, op, arg, retries, keyed>>

\* Defect: the entry named in the call is taken out, not the one that matched.
RemoveSomeCommitExact(t) ==
  LET n == node[t]
  IN
  /\ pc[t] = "remove_commit" /\ CanWriteNode(n)
  /\ Forget(t)
  /\ Store(n, contents[n] \ {arg[t]}) /\ topo' = Remove(topo, key[t])
  /\ Decide(t, TRUE) /\ Take(t, arg[t]) /\ Goto(t, "dirty")
  /\ UNCHANGED <<root, odd, unmoved, op, arg, retries, keyed>>

RemoveSomeCommit(t) ==
  LET n == node[t]
      c == contents[n]
      found == Matching(t, c)
  IN
  /\ pc[t] = "remove_commit" /\ CanWriteNode(n)
  /\ Forget(t)
  /\ \/ /\ Cardinality(c) > 1
        /\ Goto(t, "clean")
        /\ UNCHANGED <<topo, contents, res, taken>>
     \/ /\ Cardinality(c) <= 1 /\ found = {}
        /\ Decide(t, FALSE) /\ Goto(t, "clean")
        /\ UNCHANGED <<topo, contents, taken>>
     \/ \E e \in found :
          /\ Cardinality(c) <= 1
          /\ Store(n, c \ {e}) /\ topo' = Remove(topo, key[t])
          /\ Decide(t, TRUE) /\ Take(t, e) /\ Goto(t, "dirty")
  /\ UNCHANGED <<root, odd, unmoved, op, arg, retries, keyed>>

-----------------------------------------------------------------------------
(* get_with with a borrowed key                                            *)

KeyCheck(t) ==
  /\ pc[t] = "get_check"
  /\ \/ /\ t \in unmoved
        /\ Answer(t, node[t], node[t] # None /\ Matching(t, contents[node[t]]) # {})
        /\ UNCHANGED retries
     \/ /\ t \notin unmoved
        /\ Retry(t)
        /\ UNCHANGED res
  /\ unmoved' = unmoved \ {t}
  /\ UNCHANGED <<topo, root, odd, contents, op, arg, multi>>

KeyFallback(t) ==
  /\ pc[t] = "get_gen" /\ retries[t] >= FallbackAfter /\ CanReadTopology
  /\ \/ /\ DOMAIN topo.index = {}
        /\ Answer(t, None, FALSE)
     \/ \E k \in DOMAIN topo.index :
          /\ Covers(topo.index, arg[t], k)
          /\ Answer(t, topo.index[k], Matching(t, contents[topo.index[k]]) # {})
  /\ UNCHANGED <<shared, op, arg, retries, multi>>

\* The labels at which a borrowed key is compared with entries.
Compares(t) ==
  \/ pc[t] \in {"remove_node", "remove_commit", "get_check"}
  \/ pc[t] = "get_gen" /\ retries[t] >= FallbackAfter

MultiStep(t) ==
  \/ keyed[t] /\ (RemoveSomeNode(t) \/ RemoveSomeCommit(t) \/ KeyCheck(t) \/ KeyFallback(t))
  \/ /\ ~(keyed[t] /\ Compares(t)) /\ Step(t)
     /\ IF pc[t] = "done"
        THEN keyed' = [keyed EXCEPT ![t] = FALSE] /\ taken' = [taken EXCEPT ![t] = None]
        ELSE UNCHANGED multi

MultiInit ==
  Init /\ keyed = [t \in Thread |-> FALSE] /\ taken = [t \in Thread |-> None]

MultiNext == \E t \in Thread : MultiCall(t) \/ MultiStep(t)

MultiSpec == MultiInit /\ [][MultiNext]_<<vars, multi>>

-----------------------------------------------------------------------------
(* Properties                                                              *)

Multi == INSTANCE AtomicMultimap WITH set <- UNION {contents[n] : n \in Linked}

\* While one thread inserts and another removes, every call on entries or on
\* keys takes effect at one instant, and remove_some misses only when its key
\* has no entry, although the entries of a key are spread over nodes that
\* split and go away.
MultimapLinearizable == Multi!Spec

\* lock_node_for_value and get_with: "hits and misses remain definitive", for
\* contains_key too, since the borrowed routing keeps "node maxima sharing one
\* logical key" reachable.
\* The code does not meet it: see Observations in the README.
KeyMissIsDefinitive ==
  \A t \in Thread :
    pc[t] = "get_check" /\ keyed[t] /\ t \in unmoved /\ node[t] # None =>
      (Matching(t, contents[node[t]]) = {} => \A n \in Linked : Matching(t, contents[n]) = {})
=============================================================================
