--------------------------- MODULE AtomicMultimap ---------------------------
(***************************************************************************)
(* What the concurrent multimap promises: every call takes effect at one   *)
(* instant.  Entries are (key, value) pairs in lexicographic order,        *)
(* numbered from 1; PerKey consecutive entries share a key.  A call is on  *)
(* one entry or, when keyed, on any entry of a key; it then carries the    *)
(* key's lowest entry as its argument.                                     *)
(***************************************************************************)
EXTENDS Integers

CONSTANTS MaxKey, PerKey, Thread, None

VARIABLES set,          \* the entries
          op, arg, keyed,
          res, taken    \* outcome, and the entry remove_some hands back

vars == <<set, op, arg, keyed, res, taken>>

Entry == 1 .. MaxKey
KeyOf(e) == (e - 1) \div PerKey

\* The entries a call may concern.
Scope(t) == IF keyed[t] THEN {e \in Entry : KeyOf(e) = KeyOf(arg[t])} ELSE {arg[t]}

Init ==
  /\ set \in SUBSET Entry
  /\ op = [t \in Thread |-> None] /\ arg = [t \in Thread |-> None]
  /\ keyed = [t \in Thread |-> FALSE]
  /\ res = [t \in Thread |-> None] /\ taken = [t \in Thread |-> None]

Invoke(t) ==
  /\ op[t] = None
  /\ \E o \in {"insert", "remove", "contains"}, a \in Entry, k \in BOOLEAN :
       /\ k => o # "insert" /\ (a - 1) % PerKey = 0
       /\ op' = [op EXCEPT ![t] = o] /\ arg' = [arg EXCEPT ![t] = a]
       /\ keyed' = [keyed EXCEPT ![t] = k]
  /\ UNCHANGED <<set, res, taken>>

Outcome(t, r, e) ==
  /\ op[t] # None /\ res[t] = None
  /\ res' = [res EXCEPT ![t] = r] /\ taken' = [taken EXCEPT ![t] = e]
  /\ UNCHANGED <<op, arg, keyed>>

Insert(t) ==
  /\ op[t] = "insert"
  /\ set' = set \cup {arg[t]} /\ Outcome(t, arg[t] \notin set, None)

Remove(t) ==
  /\ op[t] = "remove"
  /\ \E e \in Scope(t) \cap set :
       set' = set \ {e} /\ Outcome(t, TRUE, IF keyed[t] THEN e ELSE None)

Find(t) == op[t] = "contains" /\ Scope(t) \cap set # {} /\ UNCHANGED set /\ Outcome(t, TRUE, None)

\* A miss means that nothing in the call's scope is stored.
Miss(t) ==
  op[t] # "insert" /\ Scope(t) \cap set = {} /\ UNCHANGED set /\ Outcome(t, FALSE, None)

Return(t) ==
  /\ res[t] # None
  /\ op' = [op EXCEPT ![t] = None] /\ arg' = [arg EXCEPT ![t] = None]
  /\ keyed' = [keyed EXCEPT ![t] = FALSE]
  /\ res' = [res EXCEPT ![t] = None] /\ taken' = [taken EXCEPT ![t] = None]
  /\ UNCHANGED set

Next ==
  \E t \in Thread : Invoke(t) \/ Insert(t) \/ Remove(t) \/ Find(t) \/ Miss(t) \/ Return(t)

Spec == Init /\ [][Next]_vars
=============================================================================
