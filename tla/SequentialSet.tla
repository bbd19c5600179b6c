--------------------------- MODULE SequentialSet ---------------------------
(***************************************************************************)
(* Calls on sequential BTreeSets (src/src/lib.rs).  Two handles, so that   *)
(* split_off, append and the set operations have a second set to work on.  *)
(* The queries of every set that a sequence of calls can build are checked *)
(* by the invariants below, for every argument.                            *)
(***************************************************************************)
EXTENDS SequentialTree, FiniteSets

CONSTANTS MaxKey, Handle,
          Capacity,     \* the node sizes the sets are created with
          MaxElements   \* the bound on the elements of all sets together

ASSUME CapacityAssumption == Capacity \subseteq Nat \ {0}

VARIABLES tree,   \* the set behind each handle
          out     \* the last answer: [ok |-> BOOLEAN, item |-> an option,
                  \* kept |-> what retain's predicate held of]

vars == <<tree, out>>

Key == 1 .. MaxKey

InOrder(t) == FlattenSeq(t.inner)
Elements(t) == ToSet(InOrder(t))

Answers(ok, item) == out' = [ok |-> ok, item |-> item, kept |-> {}]
Becomes(h, t) == tree' = [tree EXCEPT ![h] = t]

Init ==
  /\ \E tie \in {"before", "after"} :
       tree \in [Handle -> {WithMaximumNodeSize(c, tie) : c \in Capacity}]
  /\ out = [ok |-> FALSE, item |-> None, kept |-> {}]

Insert(h, v) ==
  /\ Becomes(h, Inserted(tree[h], v))
  /\ Answers(tree'[h].len > tree[h].len, None)

\* What delete hands back for a value.
Removal(t, v) == IF ContainsValue(t, v) THEN Get(t, v) ELSE None

Replace(h, v) ==
  LET old == Removal(tree[h], v)
  IN Becomes(h, Replaced(tree[h], v)) /\ Answers(old # None, old)

Take(h, v) ==
  LET old == Removal(tree[h], v)
  IN Becomes(h, Deleted(tree[h], v)) /\ Answers(old # None, old)

PopAt(h, at) ==
  LET old == Item(tree[h], at)
  IN Becomes(h, Popped(tree[h], at)) /\ Answers(old # None, old)

PopFirst(h) == PopAt(h, <<0, 0>>)
PopLast(h)  == PopAt(h, LastPlace(tree[h]))

\* Out of bounds pop_index panics.
PopIndex(h, i) == i < tree[h].len /\ PopAt(h, LocateIth(tree[h], i))

Retain(h, keep) ==
  /\ Becomes(h, Retained(tree[h], keep))
  /\ out' = [ok |-> FALSE, item |-> None, kept |-> keep]

SplitOff(h, g, v) ==
  LET at == LocateValue(tree[h], v)
  IN /\ tree' = [tree EXCEPT ![h] = SplitOffStays(@, at), ![g] = SplitOffHalf(tree[h], at)]
     /\ Answers(FALSE, None)

AppendAll(h, g) ==
  LET both == Appended(tree[h], tree[g])
  IN tree' = [tree EXCEPT ![h] = both[1], ![g] = both[2]] /\ Answers(FALSE, None)

Clear(h) == Becomes(h, Cleared(tree[h])) /\ Answers(FALSE, None)

\* The values an insertion is tried with: all, until the bound is reached.
Offered(h) ==
  {v \in Key : \/ ContainsValue(tree[h], v)
              \/ MapThenSumSet(LAMBDA g : tree[g].len, Handle) < MaxElements}

Next ==
  \E h \in Handle :
    \/ \E v \in Offered(h) : Insert(h, v) \/ Replace(h, v)
    \/ \E v \in Key : Take(h, v)
    \/ PopFirst(h) \/ PopLast(h) \/ Clear(h)
    \/ \E i \in 0 .. MaxKey : PopIndex(h, i)
    \/ \E keep \in SUBSET Elements(tree[h]) : Retain(h, keep)
    \/ \E g \in Handle \ {h} : AppendAll(h, g) \/ \E v \in Key : SplitOff(h, g, v)

Spec == Init /\ [][Next]_vars

-----------------------------------------------------------------------------
(* Properties                                                              *)

Sorted(S) == SetToSortSeq(S, <)

\* The calls of BTreeSet change and return what the same calls on plain sets
\* would, through every split, node removal, retain, split_off and append.
Plain == INSTANCE SortedSet WITH elems <- [h \in Handle |-> Elements(tree[h])]
IsSortedSet == Plain!Spec

\* The redundant fields agree after every call: the Fenwick index holds the
\* node lengths and len their sum, the nodes are in order, and only a lone node
\* is empty.
FieldsAgree ==
  \A h \in Handle :
    LET t == tree[h]
    IN /\ t.index = Lens(t.inner) /\ t.len = Total(t.index)
       /\ \A a, b \in DOMAIN InOrder(t) : a < b => InOrder(t)[a] < InOrder(t)[b]
       /\ \A n \in DOMAIN t.inner : t.inner[n] = <<>> => Len(t.inner) = 1

Fits(t, size) == \A n \in DOMAIN t.inner : Len(t.inner[n]) <= size

\* A set whose nodes are within its node size keeps them there through every
\* call, append of a set with larger nodes included.  The latter half that
\* split_off cuts from nodes larger than the default is the one exception.
NodesStayWithinSize ==
  [][\A h \in Handle :
       Fits(tree[h], tree[h].node_capacity) =>
         \/ Fits(tree'[h], tree'[h].node_capacity)
         \/ \E g \in Handle \ {h}, v \in Key :
              ~Fits(tree[g], DEFAULT_INNER_SIZE) /\ SplitOff(g, h, v)]_vars

\* Every node is within the node size of its set, the "maximum node size" of
\* with_maximum_node_size.
\* The code does not meet it: see Observations in the README.
NodesFitTheirSize == \A h \in Handle : Fits(tree[h], tree[h].node_capacity)

\* contains, lower_bound, rank, get_index, first and last answer from the
\* order of the elements, for every argument, whichever node they land in.
LookupsAgree ==
  \A h \in Handle :
    LET t == tree[h]
        s == InOrder(t)
    IN /\ First(t) = At(s, 0) /\ Final(t) = At(s, Len(s) - 1)
       /\ \A i \in 0 .. MaxKey + 1 : GetIndex(t, i) = At(s, i)
       /\ \A v \in 0 .. MaxKey + 1 :
            LET below == Cardinality({x \in Elements(t) : x < v})
            IN /\ ContainsValue(t, v) = (v \in Elements(t))
               /\ Rank(t, v) = below
               /\ LowerBound(t, v) = At(s, below)

Yields(t, it, s) == YieldsBy(LAMBDA i : IterNext(t, i), LAMBDA i : IterNextBack(t, i), it, s)

\* iter and into_iter over any set yield its elements once each and in order,
\* however the two ends are interleaved and wherever in a node they meet.
IterationIsExact ==
  \A h \in Handle :
    /\ Yields(tree[h], IterNew(tree[h]), InOrder(tree[h]))
    /\ YieldsBy(IntoIterNext, IntoIterNextBack, tree[h], InOrder(tree[h]))

\* range_idx over positions of a non-empty set yields the elements at those
\* positions, from both ends, for every form of the two bounds.
PositionsAreExact ==
  \A h \in Handle : \A lo, hi \in Bound(0 .. MaxKey) :
    LET t == tree[h]
        first == ResolveStart(lo)
        last  == ResolveEnd(t, hi)
    IN t.len > 0 /\ last \in 0 .. t.len - 1 /\ first <= last + 1
         => Yields(t, RangeIdx(t, first, last), SubSeq(InOrder(t), first + 1, last + 1))

RangeIsExact(t, lo, hi) ==
  Yields(t, RangeOf(t, lo, hi), SelectSeq(InOrder(t), LAMBDA x : Inside(x, lo, hi)))

\* A range between elements of a non-empty set is exact from both ends.  An
\* excluded end below everything is the one exception.
RangeOfElementsIsExact ==
  \A h \in Handle : \A lo, hi \in Bound(Key) :
    /\ Elements(tree[h]) # {} /\ Proper(lo, hi)
    /\ {b.at : b \in {b \in {lo, hi} : b.kind # "unbounded"}} \subseteq Elements(tree[h])
    /\ ~(hi.kind = "excluded" /\ hi.at = Min(Elements(tree[h])))
    => RangeIsExact(tree[h], lo, hi)

\* range yields the elements between its bounds, whatever the bounds, as its
\* documentation says.
\* The code does not meet it: see Observations in the README.
RangeYieldsWithinBounds ==
  \A h \in Handle : \A lo, hi \in Bound(Key) : Proper(lo, hi) => RangeIsExact(tree[h], lo, hi)

\* get returns the element "that is equal to the value", if any.
\* The code does not meet it: see Observations in the README.
GetReturnsTheEqual ==
  \A h \in Handle : \A v \in Key :
    Get(tree[h], v) = IF v \in Elements(tree[h]) THEN Some(v) ELSE None

\* first returns the minimum of a non-empty set, for every node size that
\* with_maximum_node_size accepts.
\* The code does not meet it: see Observations in the README.
FirstIsTheMinimum ==
  \A h \in Handle :
    First(tree[h]) = IF Elements(tree[h]) = {} THEN None ELSE Some(Min(Elements(tree[h])))

\* union, difference, symmetric_difference, intersection and the predicates
\* built on them agree with the set operations, in order.
SetOperationsAgree ==
  \A h, g \in Handle :
    LET l == InOrder(tree[h])
        r == InOrder(tree[g])
        A == ToSet(l)
        B == ToSet(r)
    IN /\ UnionOf(l, r) = Sorted(A \cup B)
       /\ DifferenceOf(l, r) = Sorted(A \ B)
       /\ SymmetricDifferenceOf(l, r) = Sorted((A \ B) \cup (B \ A))
       /\ IntersectionOf(l, r) = Sorted(A \cap B)
       /\ IsSubset(l, r) = (A \subseteq B) /\ IsDisjoint(l, r) = (A \cap B = {})
=============================================================================
