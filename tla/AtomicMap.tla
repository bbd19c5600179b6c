------------------------------ MODULE AtomicMap ------------------------------
(***************************************************************************)
(* What the concurrent map promises to its callers: every call takes       *)
(* effect on a map from keys to values at one instant between its          *)
(* invocation and its return, and hands back the value it found there.     *)
(***************************************************************************)
EXTENDS Integers

CONSTANTS MaxKey, Value, Thread, None

VARIABLES map,      \* a function from the present keys to values
          op, arg,  \* the operation each thread is executing, and its key
          given,    \* the value it brings, and whether it may not overwrite
          res,      \* whether an insert was fresh or the key was found
          got       \* the value displaced, removed or read

vars == <<map, op, arg, given, res, got>>

Key == 1 .. MaxKey

Put(k, v)  == [j \in DOMAIN map \cup {k} |-> IF j = k THEN v ELSE map[j]]
Without(k) == [j \in DOMAIN map \ {k} |-> map[j]]

Init ==
  /\ \E D \in SUBSET Key : map \in [D -> Value]
  /\ op = [t \in Thread |-> None] /\ arg = [t \in Thread |-> None]
  /\ given = [t \in Thread |-> None]
  /\ res = [t \in Thread |-> None] /\ got = [t \in Thread |-> None]

Invoke(t) ==
  /\ op[t] = None
  /\ op'[t] \in {"insert", "remove", "contains", "get", "select_optimistic"} /\ arg'[t] \in Key
  /\ given'[t] \in IF op'[t] = "insert" THEN [value : Value, checked : BOOLEAN] ELSE {None}
  /\ op' = [op EXCEPT ![t] = op'[t]] /\ arg' = [arg EXCEPT ![t] = arg'[t]]
  /\ given' = [given EXCEPT ![t] = given'[t]]
  /\ UNCHANGED <<map, res, got>>

\* An unchecked insert overwrites.  A checked one that meets its key either
\* refuses or, when the key's node happens to be full, overwrites as well.
Effect(t, found) ==
  LET k == arg[t] IN
  CASE op[t] = "insert" ->
         \/ map' = Put(k, given[t].value)
         \/ found /\ given[t].checked /\ map' = map
    [] op[t] = "remove" -> map' = Without(k)
    [] OTHER -> map' = map

TakeEffect(t) ==
  LET k == arg[t] IN
  /\ op[t] # None /\ res[t] = None
  /\ \E found \in BOOLEAN :
       /\ found = (k \in DOMAIN map) \/ (op[t] = "select_optimistic" /\ ~found)
       /\ Effect(t, found)
       /\ res' = [res EXCEPT ![t] = IF op[t] = "insert" THEN ~found ELSE found]
       /\ got' = [got EXCEPT ![t] = IF found THEN map[k] ELSE None]
  /\ UNCHANGED <<op, arg, given>>

Return(t) ==
  /\ res[t] # None
  /\ op' = [op EXCEPT ![t] = None] /\ arg' = [arg EXCEPT ![t] = None]
  /\ given' = [given EXCEPT ![t] = None]
  /\ res' = [res EXCEPT ![t] = None] /\ got' = [got EXCEPT ![t] = None]
  /\ UNCHANGED map

Next == \E t \in Thread : Invoke(t) \/ TakeEffect(t) \/ Return(t)

Spec == Init /\ [][Next]_vars
=============================================================================
