---------------------------- MODULE ConcurrentMap ----------------------------
(***************************************************************************)
(* The concurrent map (src/src/concurrent/map.rs): a concurrent set of     *)
(* pairs that are equal when their keys are (src/src/core/pair.rs).  The   *)
(* steps are those of ConcurrentSet on the keys; this module adds the      *)
(* values that travel with them, and checked_insert, which does not        *)
(* replace a value it finds with room left in the node.                    *)
(***************************************************************************)
EXTENDS ConcurrentSet

CONSTANT Value

VARIABLES
  stored,   \* for every node, the value of each of its keys
  given,    \* the value an insert brings, and whether it is a checked_insert
  got       \* the value a call hands back

values == <<stored, given, got>>

-----------------------------------------------------------------------------
\* insert, checked_insert, remove, get, contains_key and lookup_for_select
MapCall(t) ==
  /\ Call(t)
  /\ \/ op'[t] # "insert" /\ UNCHANGED given
     \/ /\ op'[t] = "insert"
        /\ \E v \in Value, c \in BOOLEAN :
             given' = [given EXCEPT ![t] = [value |-> v, checked |-> c]]
  /\ UNCHANGED <<stored, got>>

\* The node whose guard thread t holds at a step that decides its outcome.
Locked(t) ==
  IF pc[t] # "get_gen" THEN node[t]
  ELSE IF DOMAIN topo.index = {} THEN None
  ELSE topo.index[CHOOSE k \in DOMAIN topo.index : Covers(topo.index, arg[t], k)]

\* The value stored under the argument's key in the locked node.
Found(t) ==
  IF Locked(t) = None THEN None
  ELSE IF arg[t] \in contents[Locked(t)] THEN stored[Locked(t)][arg[t]] ELSE None

\* A step decides the outcome of the call: an insert is done, a key removed or
\* looked up.
Decides(t) == res[t] = None /\ res'[t] # None

\* Defect: a pair that meets its equal in a split is dropped.
WritesFresh(t) == Decides(t) /\ op[t] = "insert" /\ res'[t]

\* The step stores the pair an insert brings.  A checked_insert leaves an equal
\* pair alone, unless the node is full: the split that takes the pair along
\* replaces whatever it finds (Operation::commit).
Writes(t) ==
  /\ Decides(t) /\ op[t] = "insert"
  /\ res'[t] \/ ~given[t].checked \/ pc[t] = "split_commit"

\* Values stay with their keys, also when a split moves these to a new node.
StoredAfter(t) ==
  [n \in Node |-> [k \in contents'[n] |->
     IF Writes(t) /\ k = arg[t] THEN given[t].value
     ELSE IF k \in contents[n] THEN stored[n][k]
     ELSE stored[node[t]][k]]]

MapStep(t) ==
  /\ Step(t)
  /\ stored' = StoredAfter(t)
  /\ IF pc[t] = "done"
     THEN given' = [given EXCEPT ![t] = None] /\ got' = [got EXCEPT ![t] = None]
     ELSE got' = [got EXCEPT ![t] = IF Decides(t) THEN Found(t) ELSE @] /\ UNCHANGED given

MapInit ==
  /\ Init
  /\ \E v \in Value : stored = [n \in Node |-> [k \in contents[n] |-> v]]
  /\ given = [t \in Thread |-> None] /\ got = [t \in Thread |-> None]

MapNext == \E t \in Thread : MapCall(t) \/ MapStep(t)

MapSpec == MapInit /\ [][MapNext]_<<vars, values>>

-----------------------------------------------------------------------------
(* Properties.                                                             *)

Elements == UNION {contents[n] : n \in Linked}

\* The pairs of the linked nodes form a map on which every call takes effect at
\* one instant: insert and remove hand back the very value they displaced,
\* also when the pair rode a split, and a lookup the value of that instant.
Map == INSTANCE AtomicMap WITH
  map <- [k \in Elements |-> stored[CHOOSE n \in Linked : k \in contents[n]][k]]
MapLinearizable == Map!Spec

\* While a caller holds the Ref that get returned, the entry stays in the map
\* with the value the caller sees.
RefEntryStays ==
  \A t \in Thread :
    pc[t] = "ref" => \E n \in Linked : arg[t] \in contents[n] /\ stored[n][arg[t]] = got[t]

\* The set's insert is documented to leave an equal entry alone: "If the set
\* already contained an equal value, `false` is returned, and the entry is not
\* updated".
\* The code does not meet it: see Observations in the README.
RefusedInsertKeepsEntry ==
  [][\A t \in Thread :
       Decides(t) /\ op[t] = "insert" /\ res'[t] = FALSE =>
         \A n \in Linked : arg[t] \in contents[n] =>
           \E m \in Linked' : arg[t] \in contents'[m] /\ stored'[m][arg[t]] = stored[n][arg[t]]
    ]_<<vars, values>>
=============================================================================
