------------------------------ MODULE AtomicSet ------------------------------
(***************************************************************************)
(* What the concurrent set promises to its callers: every call takes       *)
(* effect at one instant between its invocation and its return.            *)
(*                                                                         *)
(* A thread is idle (op = None), has called (res = None), or has an        *)
(* outcome it is about to return.                                          *)
(***************************************************************************)
EXTENDS Integers

CONSTANTS MaxKey, Thread, None

VARIABLES set,      \* the elements
          op,       \* the operation each thread is executing
          arg,      \* its arguments
          res       \* its outcome, once it has taken effect

vars == <<set, op, arg, res>>

Key == 1 .. MaxKey

Operations ==
  {"insert", "remove", "contains", "get", "select_optimistic", "remove_range", "attach_node"}

\* A range argument is [lo, hi) or [lo, hi].
Within(r) == {k \in Key : r.lo <= k /\ (k < r.hi \/ (r.closed /\ k = r.hi))}

Arguments(o) ==
  CASE o = "remove_range" -> [lo : Key, hi : Key, closed : BOOLEAN]
    [] o = "attach_node" -> (SUBSET Key) \ {{}}
    [] OTHER -> Key

Init ==
  /\ set \in SUBSET Key
  /\ op  = [t \in Thread |-> None]
  /\ arg = [t \in Thread |-> None]
  /\ res = [t \in Thread |-> None]

Invoke(t) ==
  /\ op[t] = None
  /\ op'[t] \in Operations /\ arg'[t] \in Arguments(op'[t])
  /\ op'  = [op EXCEPT ![t] = op'[t]]
  /\ arg' = [arg EXCEPT ![t] = arg'[t]]
  /\ UNCHANGED <<set, res>>

\* The outcome and the new contents when operation o on a takes effect.
\* An optimistic lookup may miss a present element but never invents one.  A
\* node whose range does not fit (outcome FALSE) is not attached.
Effect(o, a, outcome, new) ==
  CASE o = "insert" -> outcome = (a \notin set) /\ new = set \cup {a}
    [] o = "remove" -> outcome = (a \in set) /\ new = set \ {a}
    [] o \in {"contains", "get"} -> outcome = (a \in set) /\ new = set
    [] o = "select_optimistic" -> (outcome => a \in set) /\ new = set
    [] o = "remove_range" -> outcome /\ new = set \ Within(a)
    [] o = "attach_node" ->
         IF outcome THEN a \cap set = {} /\ new = set \cup a ELSE new = set

TakeEffect(t) ==
  /\ op[t] # None /\ res[t] = None
  /\ \E outcome \in BOOLEAN :
       /\ Effect(op[t], arg[t], outcome, set')
       /\ res' = [res EXCEPT ![t] = outcome]
  /\ UNCHANGED <<op, arg>>

Return(t) ==
  /\ res[t] # None
  /\ op'  = [op EXCEPT ![t] = None]
  /\ arg' = [arg EXCEPT ![t] = None]
  /\ res' = [res EXCEPT ![t] = None]
  /\ UNCHANGED set

Next == \E t \in Thread : Invoke(t) \/ TakeEffect(t) \/ Return(t)

Spec == Init /\ [][Next]_vars
=============================================================================
