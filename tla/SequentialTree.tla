--------------------------- MODULE SequentialTree ---------------------------
(***************************************************************************)
(* The sequential BTreeSet of src/src/lib.rs as operators on its four      *)
(* fields: inner (the nodes), index (a Fenwick tree of their lengths),     *)
(* node_capacity and len.  An operation that changes the set maps a tree   *)
(* to the changed tree; positions are the code's, counted from zero; an    *)
(* Option is a sequence of at most one element.                            *)
(***************************************************************************)
EXTENDS Integers, SequencesExt

CONSTANTS DEFAULT_INNER_SIZE

None == <<>>
Some(x) == <<x>>

\* Option from slice.get
At(s, p) == IF p \in 0 .. Len(s) - 1 THEN Some(s[p + 1]) ELSE None

\* partition_point, on a slice that is partitioned: how many items satisfy the
\* predicate, which is given as the set of items it holds of.
PartitionPoint(s, before) == Len(SelectSeq(s, LAMBDA x : x \in before))

\* The predicate of the items of s that are less than v.
LessThan(s, v) == {x \in ToSet(s) : x < v}

Monus(a, b) == IF a > b THEN a - b ELSE 0

Lens(nodes) == [n \in DOMAIN nodes |-> Len(nodes[n])]
Total(counts) == FoldLeft(LAMBDA a, b : a + b, 0, counts)

-----------------------------------------------------------------------------
(* The Fenwick tree (crate ftree).  Which of two neighbouring nodes        *)
(* index_of names for a position on their boundary is not the caller's to  *)
(* know: tie covers both answers.                                          *)

FromIter(nodes) == Lens(nodes)
PrefixSum(t, n) == MapThenSumSet(LAMBDA m : t.index[m], 1 .. n)
IndexOf(t, x) ==
  Max({0} \cup {n \in 1 .. Len(t.index) :
                  PrefixSum(t, n) < x \/ (PrefixSum(t, n) = x /\ t.tie = "after")})

-----------------------------------------------------------------------------
(* Construction                                                            *)

\* with_maximum_node_size; new and default take DEFAULT_INNER_SIZE.
WithMaximumNodeSize(size, tie) ==
  [inner |-> <<None>>, index |-> <<0>>, node_capacity |-> size, len |-> 0, tie |-> tie]

\* clear
Cleared(t) == WithMaximumNodeSize(t.node_capacity, t.tie)

-----------------------------------------------------------------------------
(* Location                                                                *)

OrLast(t, n) == IF n < Len(t.inner) THEN n ELSE Monus(n, 1)

LocateNode(t, v) ==
  OrLast(t, PartitionPoint(t.inner, {node \in ToSet(t.inner) : node # <<>> /\ Last(node) < v}))

\* locate_node_cmp: cmp holds of the values before the target, and an empty
\* node counts as before it.
LocateNodeCmp(t, cmp) ==
  OrLast(t, PartitionPoint(t.inner, {node \in ToSet(t.inner) : node = <<>> \/ Last(node) \in cmp}))

LocateValue(t, v) ==
  LET n == LocateNode(t, v)
  IN <<n, PartitionPoint(t.inner[n + 1], LessThan(t.inner[n + 1], v))>>

LocateValueCmp(t, cmp) ==
  LET n == LocateNodeCmp(t, cmp) IN <<n, PartitionPoint(t.inner[n + 1], cmp)>>

\* Defect: the position one past a node is not moved to the next node.
LocateIthOnBoundary(t, idx) ==
  LET n == IndexOf(t, idx) IN <<n, idx - PrefixSum(t, n)>>

LocateIth(t, idx) ==
  LET n == IndexOf(t, idx)
      p == idx - PrefixSum(t, n)
  IN IF n < Len(t.inner) /\ p = Len(t.inner[n + 1]) THEN <<n + 1, 0>> ELSE <<n, p>>

\* The element at a (node, position) pair.
Item(t, at) == IF at[1] < Len(t.inner) THEN At(t.inner[at[1] + 1], at[2]) ELSE None

-----------------------------------------------------------------------------
(* Queries                                                                 *)

GetIndex(t, idx) == Item(t, LocateIth(t, idx))
Get(t, v) == Item(t, LocateValue(t, v))
LowerBound(t, v) == Item(t, LocateValue(t, v))
ContainsValue(t, v) == Item(t, LocateValue(t, v)) = Some(v)
First(t) == At(t.inner[1], 0)
Final(t) == LET node == t.inner[Len(t.inner)] IN At(node, Len(node) - 1)

Rank(t, v) == LET at == LocateValue(t, v) IN PrefixSum(t, at[1]) + at[2]
RankCmp(t, cmp) == LET at == LocateValueCmp(t, cmp) IN PrefixSum(t, at[1]) + at[2]

-----------------------------------------------------------------------------
(* Insertion and deletion                                                  *)

\* NodeLike::insert
NodeInsert(node, v) ==
  IF v \in ToSet(node) THEN node
  ELSE InsertAt(node, PartitionPoint(node, LessThan(node, v)) + 1, v)

\* The nodes after a full node n is halved, and the one the value goes to.
Halved(t, n) ==
  LET node == t.inner[n + 1]
      h == Len(node) \div 2
  IN InsertAt(ReplaceAt(t.inner, n + 1, SubSeq(node, 1, h)),
              n + 2, SubSeq(node, h + 1, Len(node)))

\* Defect: a duplicate that only splits its node leaves the index as it was.
InsertAtNodeStaleIndex(t, n, v) ==
  LET split == Len(t.inner[n + 1]) = t.node_capacity
      nodes == IF split THEN Halved(t, n) ELSE t.inner
      into  == IF split /\ v >= nodes[n + 2][1] THEN n + 2 ELSE n + 1
      fresh == v \notin ToSet(nodes[into])
      grown == [nodes EXCEPT ![into] = NodeInsert(@, v)]
  IN [t EXCEPT !.inner = grown, !.len = IF fresh THEN @ + 1 ELSE @,
               !.index = CASE split /\ fresh -> FromIter(grown)
                           [] fresh -> [@ EXCEPT ![into] = @ + 1]
                           [] OTHER -> @]

\* Defect: a node is halved one insertion late.
InsertAtNodeLate(t, n, v) ==
  LET split == Len(t.inner[n + 1]) = t.node_capacity + 1
      nodes == IF split THEN Halved(t, n) ELSE t.inner
      into  == IF split /\ v >= nodes[n + 2][1] THEN n + 2 ELSE n + 1
      grown == [nodes EXCEPT ![into] = NodeInsert(@, v)]
  IN [t EXCEPT !.inner = grown, !.len = Total(Lens(grown)), !.index = FromIter(grown)]

\* insert_at
InsertAtNode(t, n, v) ==
  LET split == Len(t.inner[n + 1]) = t.node_capacity
      nodes == IF split THEN Halved(t, n) ELSE t.inner
      into  == IF split /\ v >= nodes[n + 2][1] THEN n + 2 ELSE n + 1
      fresh == v \notin ToSet(nodes[into])
      grown == [nodes EXCEPT ![into] = NodeInsert(@, v)]
  IN [t EXCEPT !.inner = grown, !.len = IF fresh THEN @ + 1 ELSE @,
               !.index = CASE split -> FromIter(grown)
                           [] fresh -> [@ EXCEPT ![into] = @ + 1]
                           [] OTHER -> @]

Inserted(t, v) == InsertAtNode(t, LocateNode(t, v), v)

\* delete_at: an emptied node goes, unless it is the only one.
DeleteAt(t, at) ==
  LET n    == at[1] + 1
      node == RemoveAt(t.inner[n], at[2] + 1)
      rest == RemoveAt(t.inner, n)
  IN IF node = <<>> /\ Len(t.inner) > 1
     THEN [t EXCEPT !.inner = rest, !.index = FromIter(rest), !.len = @ - 1]
     ELSE [t EXCEPT !.inner[n] = node, !.index[n] = @ - 1, !.len = @ - 1]

\* delete, remove and take
Deleted(t, v) == IF ContainsValue(t, v) THEN DeleteAt(t, LocateValue(t, v)) ELSE t

\* replace: take, then insert
Replaced(t, v) == Inserted(Deleted(t, v), v)

\* The place pop_last looks at.
LastPlace(t) == LET n == Len(t.inner) - 1 IN <<n, Monus(Len(t.inner[n + 1]), 1)>>

\* pop_first and pop_last
Popped(t, at) == IF Item(t, at) = None THEN t ELSE DeleteAt(t, at)

\* Every place, in order.
Places(t) ==
  FlattenSeq([n \in DOMAIN t.inner |-> [p \in DOMAIN t.inner[n] |-> <<n - 1, p - 1>>]])

\* retain: collect the places to delete, then delete them back to front.
Retained(t, keep) ==
  FoldLeft(LAMBDA u, at : DeleteAt(u, at), t,
           Reverse(SelectSeq(Places(t), LAMBDA at : Item(t, at)[1] \notin keep)))

Rebuilt(t, nodes) ==
  [t EXCEPT !.inner = nodes, !.index = FromIter(nodes), !.len = Total(Lens(nodes))]

\* split_off and split_off_cmp, from the place the value belongs: what
\* stays, and the latter half, which takes the default capacity.
SplitOffStays(t, at) ==
  LET n    == at[1] + 1
      node == SubSeq(t.inner[n], 1, at[2])
  IN Rebuilt(t, IF node = <<>> /\ n > 1 THEN SubSeq(t.inner, 1, n - 1)
                ELSE Append(SubSeq(t.inner, 1, n - 1), node))

\* Defect: the latter half forgets the rest of the node it starts in.
SplitOffHalfNextNode(t, at) ==
  LET n == at[1] + 1
  IN Rebuilt(WithMaximumNodeSize(DEFAULT_INNER_SIZE, t.tie),
             <<None>> \o SubSeq(t.inner, n + 1, Len(t.inner)))

SplitOffHalf(t, at) ==
  LET n == at[1] + 1
  IN Rebuilt(WithMaximumNodeSize(DEFAULT_INNER_SIZE, t.tie),
             <<SubSeq(t.inner[n], at[2] + 1, Len(t.inner[n]))>>
               \o SubSeq(t.inner, n + 1, Len(t.inner)))

\* append: pop from the other's front, replace into this one.
RECURSIVE Appended(_, _)
Appended(t, other) ==
  IF First(other) = None THEN <<t, other>>
  ELSE Appended(Replaced(t, First(other)[1]), Popped(other, <<0, 0>>))

-----------------------------------------------------------------------------
(* Iter and Range.  A slice iterator is the sequence of what it has left.  *)

\* Iter::new
IterNew(t) ==
  [front_node |-> 0, front_idx |-> 0, back_node |-> Len(t.inner) - 1, back_idx |-> t.len,
   front |-> t.inner[1], back |-> t.inner[Len(t.inner)]]

Step(it, item) == [it |-> it, item |-> item]

\* Defect: the two ends are not compared before a step.
RECURSIVE IterNextUnmet(_, _)
IterNextUnmet(t, it) ==
  CASE it.front # <<>> ->
         Step([it EXCEPT !.front = Tail(@), !.front_idx = @ + 1], Some(Head(it.front)))
    [] it.front_node + 1 >= Len(t.inner) -> Step([it EXCEPT !.front_node = @ + 1], None)
    [] OTHER -> IterNextUnmet(t, [it EXCEPT !.front_node = @ + 1,
                                            !.front = t.inner[it.front_node + 2]])

\* Iter::next
RECURSIVE IterNext(_, _)
IterNext(t, it) ==
  CASE it.front_idx = it.back_idx -> Step(it, None)
    [] it.front_idx # it.back_idx /\ it.front # <<>> ->
         Step([it EXCEPT !.front = Tail(@), !.front_idx = @ + 1], Some(Head(it.front)))
    [] it.front_idx # it.back_idx /\ it.front = <<>> /\ it.front_node + 1 >= Len(t.inner) ->
         Step([it EXCEPT !.front_node = @ + 1], None)
    [] OTHER -> IterNext(t, [it EXCEPT !.front_node = @ + 1,
                                       !.front = t.inner[it.front_node + 2]])

\* Iter::next_back
RECURSIVE IterNextBack(_, _)
IterNextBack(t, it) ==
  CASE it.front_idx = it.back_idx -> Step(it, None)
    [] it.front_idx # it.back_idx /\ it.back # <<>> ->
         Step([it EXCEPT !.back = Front(@), !.back_idx = @ - 1], Some(Last(it.back)))
    [] it.front_idx # it.back_idx /\ it.back = <<>> /\ it.back_node = 0 -> Step(it, None)
    [] OTHER -> IterNextBack(t, [it EXCEPT !.back_node = @ - 1,
                                           !.back = t.inner[it.back_node]])

\* IntoIter: the owning iterator is the set itself, popped from either end.
IntoIterNext(t) == Step(Popped(t, <<0, 0>>), Item(t, <<0, 0>>))
IntoIterNextBack(t) == Step(Popped(t, LastPlace(t)), Item(t, LastPlace(t)))

\* resolve_range: positions of the first and the last element.
ResolveStart(b) ==
  CASE b.kind = "included" -> b.at [] b.kind = "excluded" -> b.at + 1 [] OTHER -> 0
ResolveEnd(t, b) ==
  CASE b.kind = "included" -> b.at
    [] b.kind = "excluded" -> b.at - 1
    [] OTHER -> Monus(PrefixSum(t, Len(t.inner)), 1)

\* Defect: the back slice stops before the last element.
RangeIdxBackExclusive(t, first, last) ==
  LET f == LocateIth(t, first)
      b == LocateIth(t, last)
      n == Len(t.inner)
  IN [front_node |-> f[1], front_idx |-> first, back_node |-> b[1], back_idx |-> last + 1,
      front |-> IF f[1] < n THEN SubSeq(t.inner[f[1] + 1], f[2] + 1, Len(t.inner[f[1] + 1]))
                ELSE <<>>,
      back  |-> IF b[1] < n THEN SubSeq(t.inner[b[1] + 1], 1, b[2]) ELSE <<>>]

\* range_idx over the positions first ..= last
RangeIdx(t, first, last) ==
  LET f == LocateIth(t, first)
      b == LocateIth(t, last)
      n == Len(t.inner)
  IN [front_node |-> f[1], front_idx |-> first, back_node |-> b[1], back_idx |-> last + 1,
      front |-> IF f[1] < n THEN SubSeq(t.inner[f[1] + 1], f[2] + 1, Len(t.inner[f[1] + 1]))
                ELSE <<>>,
      back  |-> IF b[1] < n THEN SubSeq(t.inner[b[1] + 1], 1, b[2] + 1) ELSE <<>>]

\* range
RangeStart(t, b) ==
  CASE b.kind = "included" -> Rank(t, b.at)
    [] b.kind = "excluded" -> Rank(t, b.at) + 1
    [] OTHER -> 0
\* Defect: an excluded end is taken as included.
RangeEndIncluded(t, b) ==
  IF b.kind = "unbounded" THEN Monus(t.len, 1) ELSE Rank(t, b.at)
RangeEnd(t, b) ==
  CASE b.kind = "included" -> Rank(t, b.at)
    [] b.kind = "excluded" -> Monus(Rank(t, b.at), 1)
    [] OTHER -> Monus(t.len, 1)
RangeOf(t, lo, hi) == RangeIdx(t, RangeStart(t, lo), RangeEnd(t, hi))

-----------------------------------------------------------------------------
(* MergeIter and the set operations, over what the two iterators yield.    *)

Peek(s) == IF s = <<>> THEN None ELSE Some(Head(s))
Rest(s) == IF s = <<>> THEN <<>> ELSE Tail(s)

MergeStart(l, r) == [left |-> Peek(l), l |-> Rest(l), right |-> Peek(r), r |-> Rest(r)]

\* Defect: a match advances only the left side.
AdvancesLeftOnly(m) ==
  <<m.left # None /\ (m.right = None \/ m.left[1] <= m.right[1]),
    m.right # None /\ (m.left = None \/ m.right[1] < m.left[1])>>

\* Which sides MergeIter::next advances: the smaller one, or both on a match.
Advances(m) ==
  <<m.left # None /\ (m.right = None \/ m.left[1] <= m.right[1]),
    m.right # None /\ (m.left = None \/ m.right[1] <= m.left[1])>>

MergeNext(m) ==
  LET go == Advances(m)
  IN [left  |-> IF go[1] THEN Peek(m.l) ELSE m.left,  l |-> IF go[1] THEN Rest(m.l) ELSE m.l,
      right |-> IF go[2] THEN Peek(m.r) ELSE m.right, r |-> IF go[2] THEN Rest(m.r) ELSE m.r]

\* The pairs MergeIter yields, up to and without (None, None).
RECURSIVE MergeAll(_)
MergeAll(m) ==
  IF m.left = None /\ m.right = None THEN <<>>
  ELSE <<[left |-> m.left, right |-> m.right]>> \o MergeAll(MergeNext(m))

Merged(l, r) == MergeAll(MergeStart(l, r))

LeftFirst(p)  == p.left # None /\ (p.right = None \/ p.left[1] < p.right[1])
RightFirst(p) == p.right # None /\ (p.left = None \/ p.right[1] < p.left[1])

\* The pairs before the first that makes an adaptor return None.
Until(ps, Stop(_)) ==
  SubSeq(ps, 1, Min({Len(ps)} \cup {k - 1 : k \in {k \in DOMAIN ps : Stop(ps[k])}}))

Mapped(ps, F(_)) == [k \in DOMAIN ps |-> F(ps[k])]

UnionOf(l, r) ==
  Mapped(Merged(l, r), LAMBDA p : IF RightFirst(p) THEN p.right[1] ELSE p.left[1])

DifferenceOf(l, r) ==
  Mapped(SelectSeq(Until(Merged(l, r), LAMBDA p : p.left = None), LeftFirst),
         LAMBDA p : p.left[1])

SymmetricDifferenceOf(l, r) ==
  Mapped(SelectSeq(Merged(l, r), LAMBDA p : LeftFirst(p) \/ RightFirst(p)),
         LAMBDA p : IF RightFirst(p) THEN p.right[1] ELSE p.left[1])

IntersectionOf(l, r) ==
  Mapped(SelectSeq(Until(Merged(l, r), LAMBDA p : p.left = None \/ p.right = None),
                   LAMBDA p : p.left = p.right),
         LAMBDA p : p.left[1])

\* is_subset, is_superset and is_disjoint ask for a first element.
IsSubset(l, r) == DifferenceOf(l, r) = <<>>
IsDisjoint(l, r) == IntersectionOf(l, r) = <<>>

-----------------------------------------------------------------------------
(* Reading a double-ended iterator                                         *)

\* What is yielded when the two ends are called in the order of plan (TRUE is
\* a call of next): the items of the front calls, then those of the back.
Played(Fwd(_), Bwd(_), it, plan) ==
  FoldLeft(LAMBDA r, forward :
             LET s == IF forward THEN Fwd(r.it) ELSE Bwd(r.it)
             IN [it |-> s.it, fronts |-> IF forward THEN r.fronts \o s.item ELSE r.fronts,
                              backs  |-> IF forward THEN r.backs ELSE s.item \o r.backs],
           [it |-> it, fronts |-> <<>>, backs |-> <<>>], plan)

\* In every order of the calls the iterator yields s exactly once, in order,
\* and then nothing.
YieldsBy(Fwd(_), Bwd(_), it, s) ==
  \A plan \in [1 .. Len(s) -> BOOLEAN] :
    LET r == Played(Fwd, Bwd, it, plan)
    IN r.fronts \o r.backs = s /\ Fwd(r.it).item = None /\ Bwd(r.it).item = None

Bound(keys) == [kind : {"included", "excluded"}, at : keys] \cup {[kind |-> "unbounded", at |-> 0]}

Inside(x, lo, hi) ==
  /\ CASE lo.kind = "included" -> x >= lo.at [] lo.kind = "excluded" -> x > lo.at [] OTHER -> TRUE
  /\ CASE hi.kind = "included" -> x <= hi.at [] hi.kind = "excluded" -> x < hi.at [] OTHER -> TRUE

\* The ranges whose documentation promises no panic.
Proper(lo, hi) ==
  lo.kind # "unbounded" /\ hi.kind # "unbounded"
    => lo.at < hi.at \/ (lo.at = hi.at /\ {lo.kind, hi.kind} # {"excluded"})
=============================================================================
