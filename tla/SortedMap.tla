----------------------------- MODULE SortedMap -----------------------------
(***************************************************************************)
(* What the sequential BTreeMap promises: its calls act on plain partial   *)
(* functions from keys to values, and the positional ones on key order.    *)
(***************************************************************************)
EXTENDS Integers, FiniteSets, FiniteSetsExt

CONSTANTS MaxKey, Handle, Value

VARIABLES map,     \* the function behind each handle
          found    \* the last answer: a key, a value, both, nothing, or pairs

vars == <<map, found>>

Key == 1 .. MaxKey

Ith(S, i) == CHOOSE x \in S : Cardinality({y \in S : y < x}) = i

Bind(f, k, v)  == [j \in DOMAIN f \cup {k} |-> IF j = k THEN v ELSE f[j]]
Keep(f, S)     == [j \in DOMAIN f \cap S |-> f[j]]
Becomes(h, f)  == map' = [map EXCEPT ![h] = f]
Old(h, k)      == IF k \in DOMAIN map[h] THEN <<map[h][k]>> ELSE <<>>

Init == map = [h \in Handle |-> [k \in {} |-> 0]] /\ found = <<>>

Insert(h, k, v) == found' = Old(h, k) /\ Becomes(h, Bind(map[h], k, v))
Remove(h, k)    == found' = Old(h, k) /\ Becomes(h, Keep(map[h], Key \ {k}))

\* entry(k).or_insert(v), and a write of w through the reference it returns.
OrInsert(h, k, v, w) ==
  /\ found' = <<IF k \in DOMAIN map[h] THEN map[h][k] ELSE v>>
  /\ Becomes(h, Bind(map[h], k, w))

\* A write through a reference to a present entry.
Write(h, k, w) ==
  /\ k \in DOMAIN map[h]
  /\ found' = Old(h, k) /\ Becomes(h, Bind(map[h], k, w))

PopIndex(h, i) ==
  LET k == Ith(DOMAIN map[h], i)
  IN /\ i < Cardinality(DOMAIN map[h])
     /\ found' = <<k, map[h][k]>> /\ Becomes(h, Keep(map[h], Key \ {k}))

\* What is left, with the values the predicate leaves there.
Retain(h) ==
  /\ DOMAIN found' \subseteq DOMAIN map[h] /\ found' \in [DOMAIN found' -> Value]
  /\ Becomes(h, found')

\* The caller goes on with the pairs below k, or with the others.
SplitOff(h, k) ==
  \E S \in {1 .. k - 1, k .. MaxKey} :
    /\ found' = Keep(map[h], Key \ S)
    /\ Becomes(h, Keep(map[h], S))

\* On a common key the value of the appended map wins; nothing stays there.
Append(h, f) ==
  /\ found' = <<>>
  /\ Becomes(h, [k \in DOMAIN map[h] \cup DOMAIN f |-> IF k \in DOMAIN f THEN f[k] ELSE map[h][k]])

Next ==
  \E h \in Handle :
    \/ \E k \in Key, v \in Value : Insert(h, k, v) \/ Write(h, k, v)
                                   \/ \E w \in Value : OrInsert(h, k, v, w)
    \/ \E k \in Key : Remove(h, k)
    \/ \E i \in 0 .. MaxKey : PopIndex(h, i)
    \/ Retain(h)
    \/ \E S \in SUBSET Key : \E f \in [S -> Value] : Append(h, f)
    \/ \E k \in Key : SplitOff(h, k)

Spec == Init /\ [][Next]_vars
=============================================================================
