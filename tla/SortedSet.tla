----------------------------- MODULE SortedSet -----------------------------
(***************************************************************************)
(* What the sequential BTreeSet promises: its calls act on plain sets of   *)
(* keys, and the positional ones on the order of their elements.           *)
(***************************************************************************)
EXTENDS Integers, FiniteSets, FiniteSetsExt

CONSTANTS MaxKey, Handle

VARIABLES elems,   \* the set behind each handle
          out      \* the last answer: [ok |-> BOOLEAN, item |-> an option,
                   \* kept |-> what retain's predicate held of]

vars == <<elems, out>>

Key == 1 .. MaxKey

Answers(ok, item) == out' = [ok |-> ok, item |-> item, kept |-> {}]
Becomes(h, S) == elems' = [elems EXCEPT ![h] = S]

\* The element with i elements before it.
Ith(S, i) == CHOOSE x \in S : Cardinality({y \in S : y < x}) = i

Init == elems = [h \in Handle |-> {}] /\ out = [ok |-> FALSE, item |-> <<>>, kept |-> {}]

Insert(h, v) ==
  Answers(v \notin elems[h], <<>>) /\ Becomes(h, elems[h] \cup {v})

Replace(h, v) ==
  /\ Answers(v \in elems[h], IF v \in elems[h] THEN <<v>> ELSE <<>>)
  /\ Becomes(h, elems[h] \cup {v})

Take(h, v) ==
  /\ Answers(v \in elems[h], IF v \in elems[h] THEN <<v>> ELSE <<>>)
  /\ Becomes(h, elems[h] \ {v})

PopEnd(h, End(_)) ==
  IF elems[h] = {} THEN Answers(FALSE, <<>>) /\ UNCHANGED elems
  ELSE Answers(TRUE, <<End(elems[h])>>) /\ Becomes(h, elems[h] \ {End(elems[h])})

PopIndex(h, i) ==
  /\ i < Cardinality(elems[h])
  /\ Answers(TRUE, <<Ith(elems[h], i)>>) /\ Becomes(h, elems[h] \ {Ith(elems[h], i)})

Retain(h, keep) ==
  out' = [ok |-> FALSE, item |-> <<>>, kept |-> keep] /\ Becomes(h, keep)

SplitOff(h, g, v) ==
  /\ Answers(FALSE, <<>>)
  /\ elems' = [elems EXCEPT ![h] = {x \in @ : x < v}, ![g] = {x \in elems[h] : x >= v}]

Append(h, g) ==
  /\ Answers(FALSE, <<>>)
  /\ elems' = [elems EXCEPT ![h] = @ \cup elems[g], ![g] = {}]

Next ==
  \E h \in Handle :
    \/ \E v \in Key : Insert(h, v) \/ Replace(h, v) \/ Take(h, v)
    \/ PopEnd(h, Min) \/ PopEnd(h, Max)
    \/ \E i \in 0 .. MaxKey : PopIndex(h, i)
    \/ \E keep \in SUBSET elems[h] : Retain(h, keep)
    \/ \E g \in Handle \ {h} : Append(h, g) \/ \E v \in Key : SplitOff(h, g, v)

Spec == Init /\ [][Next]_vars
=============================================================================
