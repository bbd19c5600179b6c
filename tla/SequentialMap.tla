--------------------------- MODULE SequentialMap ---------------------------
(***************************************************************************)
(* The sequential BTreeMap of src/src/lib.rs: a BTreeSet of pairs that     *)
(* compare by key.  tree holds the keys of the pairs where the code keeps  *)
(* them and val the value stored with each.                                *)
(***************************************************************************)
EXTENDS SequentialTree, FiniteSets

CONSTANTS MaxKey, Handle, Value, Capacity,
          MaxOther    \* the bound on the pairs of a map that is appended

ASSUME MapCapacityAssumption == Capacity \subseteq Nat \ {0}

VARIABLES tree,    \* the pairs of each map, by key
          val,     \* the values: a function on the keys of each map
          found    \* the last answer: a key, a value, both, nothing, or pairs

vars == <<tree, val, found>>

Key == 1 .. MaxKey

InOrder(t) == FlattenSeq(t.inner)
Elements(t) == ToSet(InOrder(t))

Init ==
  /\ \E tie \in {"before", "after"} :
       tree \in [Handle -> {WithMaximumNodeSize(c, tie) : c \in Capacity}]
  /\ val = [h \in Handle |-> [k \in {} |-> 0]] /\ found = <<>>

\* A write to the value at a place; a place without a pair is an unwrap panic
\* and does not happen.
Write(h, t, at, w) ==
  LET k == Item(t, at)[1]
  IN [val EXCEPT ![h] = [j \in DOMAIN @ \cup {k} |-> IF j = k THEN w ELSE @[j]]]

ValueAt(h, at) == <<val[h][Item(tree[h], at)[1]]>>

\* What is left of the values when the tree shrinks to t.
KeepOnly(h, t) == [val EXCEPT ![h] = Restrict(@, Elements(t))]

-----------------------------------------------------------------------------
(* Key lookup                                                              *)

\* The comparisons the callers pass: the keys below k, and those up to k.
Below(k) == {x \in Key : x < k}
UpTo(k)  == {x \in Key : x <= k}

\* The place of a key or where it belongs.
Place(t, k) == LocateValueCmp(t, Below(k))

\* contains_cmp, contains_key
ContainsKey(t, k) == Item(t, Place(t, k)) = Some(k)

\* find_cmp: NodeEntry::Exist, with the place, or Empty, with the node.
FindCmp(t, k) ==
  LET at == Place(t, k)
  IN IF Item(t, at) = Some(k) THEN [exists |-> TRUE, at |-> at] ELSE [exists |-> FALSE, at |-> <<at[1], 0>>]

\* delete_cmp
DeletedCmp(t, k) == LET e == FindCmp(t, k) IN IF e.exists THEN DeleteAt(t, e.at) ELSE t

\* get_key_value: search_by inside the node of the key.
GetKeyValue(t, k) ==
  LET node == t.inner[LocateNodeCmp(t, Below(k)) + 1]
      p    == PartitionPoint(node, Below(k))
  IN IF At(node, p) = Some(k) THEN Some(k) ELSE None

-----------------------------------------------------------------------------
(* Calls                                                                   *)

\* insert
Insert(h, k, v) ==
  LET t == tree[h]
      e == FindCmp(t, k)
  IN \/ /\ e.exists
        /\ val' = Write(h, t, e.at, v) /\ found' = ValueAt(h, e.at)
        /\ UNCHANGED tree
     \/ /\ ~e.exists
        /\ tree' = [tree EXCEPT ![h] = InsertAtNode(t, e.at[1], k)]
        /\ val' = [val EXCEPT ![h] = [j \in DOMAIN @ \cup {k} |-> IF j = k THEN v ELSE @[j]]]
        /\ found' = <<>>

\* remove and remove_entry
Delete(h, k) ==
  LET t == tree[h]
      u == DeletedCmp(t, k)
      e == FindCmp(t, k)
  IN /\ tree' = [tree EXCEPT ![h] = u] /\ val' = KeepOnly(h, u)
     /\ found' = IF e.exists THEN ValueAt(h, e.at) ELSE <<>>

\* get_mut, and a write through the reference.
GetMut(h, k, w) ==
  LET at == Place(tree[h], k)
  IN /\ Item(tree[h], at) = Some(k)
     /\ val' = Write(h, tree[h], at, w) /\ found' = ValueAt(h, at) /\ UNCHANGED tree

\* Defect: the position within the node is taken for the position.
EntryIdxInNode(t, k) == Place(t, k)[2]

\* The position an occupied entry remembers; rank.
EntryIdx(t, k) == RankCmp(t, Below(k))

\* Defect: the position is taken one too far.
VacantInsertNext(t, k) ==
  LET u == InsertAtNode(t, Place(t, k)[1], k)
      i == EntryIdx(t, k)
  IN [tree |-> u, at |-> LocateIth(u, IF i + 1 < u.len THEN i + 1 ELSE i)]

\* VacantEntry::insert: take the rank, insert, and look up that position.
VacantInsert(t, k) ==
  LET u == InsertAtNode(t, FindCmp(t, k).at[1], k)
  IN [tree |-> u, at |-> LocateIth(u, EntryIdx(t, k))]

\* entry(k).or_insert(v), .or_insert_with(..), .or_default(), and a write of w
\* through the reference.
OrInsert(h, k, v, w) ==
  LET t == tree[h]
      e == IF ContainsKey(t, k) THEN [tree |-> t, at |-> LocateIth(t, EntryIdx(t, k))]
           ELSE VacantInsert(t, k)
      filled == [val EXCEPT ![h] = [j \in DOMAIN @ \cup {k} |-> IF j \in DOMAIN @ THEN @[j] ELSE v]]
      key == Item(e.tree, e.at)[1]
  IN /\ tree' = [tree EXCEPT ![h] = e.tree]
     /\ val' = [filled EXCEPT ![h][key] = w] /\ found' = <<filled[h][key]>>

\* A write through get_mut_index: an occupied entry's insert and and_modify,
\* first_entry, last_entry.
WriteIndex(h, i, w) ==
  LET at == LocateIth(tree[h], i)
  IN /\ val' = Write(h, tree[h], at, w) /\ found' = ValueAt(h, at) /\ UNCHANGED tree

AndModify(h, k, w) == ContainsKey(tree[h], k) /\ WriteIndex(h, EntryIdx(tree[h], k), w)
FirstEntry(h, w)   == tree[h].len > 0 /\ WriteIndex(h, 0, w)
LastEntry(h, w)    == tree[h].len > 0 /\ WriteIndex(h, tree[h].len - 1, w)

\* pop_index, pop_first, pop_last, and remove_entry of an occupied entry
PopAt(h, at) ==
  LET t == tree[h]
      u == Popped(t, at)
  IN /\ Item(t, at) # None
     /\ tree' = [tree EXCEPT ![h] = u] /\ val' = KeepOnly(h, u)
     /\ found' = Item(t, at) \o ValueAt(h, at)

PopIndex(h, i) == i < tree[h].len /\ PopAt(h, LocateIth(tree[h], i))
PopFirst(h) == PopAt(h, <<0, 0>>)
PopLast(h)  == PopAt(h, LastPlace(tree[h]))
RemoveEntry(h, k) == ContainsKey(tree[h], k) /\ PopIndex(h, EntryIdx(tree[h], k))

\* retain: the predicate may write every value it is shown, and left holds the
\* values of the pairs it keeps; what it writes to the others goes with them.
Retain(h, left) ==
  LET u == Retained(tree[h], DOMAIN left)
  IN /\ tree' = [tree EXCEPT ![h] = u]
     /\ val' = [val EXCEPT ![h] = Restrict(left, Elements(u))] /\ found' = left

\* clear
Clear(h) ==
  /\ tree' = [tree EXCEPT ![h] = Cleared(@)]
  /\ val' = [val EXCEPT ![h] = [k \in {} |-> 0]] /\ found' = <<>>

\* The caller goes on with map t, and finds the pairs of map u in the other.
GoesOnWith(h, t, u) ==
  /\ tree' = [tree EXCEPT ![h] = t] /\ val' = KeepOnly(h, t)
  /\ found' = Restrict(val[h], Elements(u))

\* split_off returns the latter half; the caller may go on with either.
SplitOff(h, k) ==
  LET at == Place(tree[h], k)
      stays == SplitOffStays(tree[h], at)
      half  == SplitOffHalf(tree[h], at)
  IN GoesOnWith(h, stays, half) \/ GoesOnWith(h, half, stays)

\* A map made of the pairs of f, and the maps to append.
MadeOf(f, t) ==
  FoldLeft(Inserted, WithMaximumNodeSize(t.node_capacity, t.tie), SetToSortSeq(DOMAIN f, >))
Others == UNION {[S -> Value] : S \in {T \in SUBSET Key : Cardinality(T) <= MaxOther}}

\* append: replace takes the pair here away and inserts the other's, of which
\* the answer is what is left.
AppendAll(h, f) ==
  LET both == Appended(tree[h], MadeOf(f, tree[h]))
  IN /\ tree' = [tree EXCEPT ![h] = both[1]]
     /\ val' = [val EXCEPT ![h] = [k \in Elements(both[1]) |->
                                     IF k \in DOMAIN f THEN f[k] ELSE val[h][k]]]
     /\ found' = Restrict(f, Elements(both[2]))

Next ==
  \E h \in Handle :
    \/ \E k \in Key, v \in Value : \/ Insert(h, k, v) \/ GetMut(h, k, v) \/ AndModify(h, k, v)
                                   \/ \E w \in Value : OrInsert(h, k, v, w)
    \/ \E k \in Key : Delete(h, k) \/ RemoveEntry(h, k)
    \/ \E w \in Value : FirstEntry(h, w) \/ LastEntry(h, w)
    \/ PopFirst(h) \/ PopLast(h) \/ Clear(h)
    \/ \E i \in 0 .. MaxKey : PopIndex(h, i)
    \/ \E keep \in SUBSET Elements(tree[h]) : \E left \in [keep -> Value] : Retain(h, left)
    \/ \E f \in Others : AppendAll(h, f)
    \/ \E k \in Key : SplitOff(h, k)

Spec == Init /\ [][Next]_vars

-----------------------------------------------------------------------------
(* IterMut.  inner is the nodes neither end has taken.  A position is a    *)
(* usize: where the code's subtraction would pass below zero it panics.    *)

Panic == <<-1>>

\* Defect: the last node is left among those neither end has taken.
IterMutNewSharingTheLast(t) ==
  LET n == Len(t.inner)
  IN [inner |-> SubSeq(t.inner, 2, n), front_node |-> 0, front_idx |-> 0,
      back_node |-> n - 1, back_idx |-> t.len - 1,
      front |-> t.inner[1], back |-> IF n = 1 THEN <<>> ELSE t.inner[n]]

IterMutNew(t) ==
  LET n == Len(t.inner)
  IN [inner |-> SubSeq(t.inner, 2, n - 1), front_node |-> 0, front_idx |-> 0,
      back_node |-> n - 1, back_idx |-> t.len - 1,
      front |-> t.inner[1], back |-> IF n = 1 THEN <<>> ELSE t.inner[n]]

TakeFront(it) == Step([it EXCEPT !.front = Tail(@), !.front_idx = @ + 1], Some(Head(it.front)))

\* IterMut::next
RECURSIVE IterMutNext(_)
IterMutNext(it) ==
  CASE it.front_idx = it.back_idx + 1 -> Step(it, None)
    [] it.front_idx # it.back_idx + 1 /\ it.front # <<>> -> TakeFront(it)
    [] OTHER ->
         IF it.front_node = Len(it.inner) THEN Step(it, None)
         ELSE IF it.back_node = 0 THEN Step(it, Panic)
         ELSE IF it.front_node = it.back_node - 1
         THEN IF it.back = <<>> THEN Step(it, None)
              ELSE Step([it EXCEPT !.back = Tail(@), !.front_idx = @ + 1], Some(Head(it.back)))
         ELSE IterMutNext([it EXCEPT !.front_node = @ + 1, !.inner = Rest(@),
                                     !.front = IF it.inner = <<>> THEN @ ELSE Head(it.inner)])

\* The back end moves to the node before its own.
AdvanceBack(it) ==
  [it EXCEPT !.back_node = @ - 1, !.inner = IF @ = <<>> THEN @ ELSE Front(@),
             !.back = IF it.inner = <<>> THEN @ ELSE Last(it.inner)]

\* IterMut::next_back
RECURSIVE IterMutNextBack(_)
IterMutNextBack(it) ==
  CASE it.front_idx = it.back_idx + 1 -> Step(it, None)
    [] it.front_idx # it.back_idx + 1 /\ it.back # <<>> ->
         IF it.back_idx = 0 THEN Step(it, Panic)
         ELSE Step([it EXCEPT !.back = Front(@), !.back_idx = @ - 1], Some(Last(it.back)))
    [] OTHER ->
         IF it.back_node = 0 /\ it.front_node # 0 THEN Step(it, None)
         ELSE IF it.front_node \in {it.back_node, it.back_node - 1}
         THEN IF it.front = <<>> THEN Step(it, None)
              ELSE Step([it EXCEPT !.front = Front(@), !.back_idx = Monus(@, 1)],
                        Some(Last(it.front)))
         ELSE IterMutNextBack(AdvanceBack(it))

-----------------------------------------------------------------------------
(* The iterators of the map: an inner step, and what of its pair is shown. *)

Paired(h, s)    == Step(s.it, IF s.item = None THEN None ELSE <<<<s.item[1], val[h][s.item[1]]>>>>)
ValueOnly(h, s) == Step(s.it, IF s.item = None THEN None ELSE <<val[h][s.item[1]]>>)

\* IterMap and RangeMap, Keys, Values
IterMapNext(h, it)     == Paired(h, IterNext(tree[h], it))
IterMapNextBack(h, it) == Paired(h, IterNextBack(tree[h], it))
KeysNext(h, it)        == IterNext(tree[h], it)
KeysNextBack(h, it)    == IterNextBack(tree[h], it)
ValuesNext(h, it)      == ValueOnly(h, IterNext(tree[h], it))

\* Defect: the values are read from the front by both ends.
ValuesNextBackFromFront(h, it) == ValueOnly(h, IterNext(tree[h], it))
ValuesNextBack(h, it)          == ValueOnly(h, IterNextBack(tree[h], it))

\* IntoIterMap, IntoKeys, IntoValues: the iterator owns the tree t.
IntoIterMapNext(h, t)     == Paired(h, IntoIterNext(t))
IntoIterMapNextBack(h, t) == Paired(h, IntoIterNextBack(t))
IntoKeysNext(t)           == IntoIterNext(t)
IntoKeysNextBack(t)       == IntoIterNextBack(t)
IntoValuesNext(h, t)      == ValueOnly(h, IntoIterNext(t))
IntoValuesNextBack(h, t)  == ValueOnly(h, IntoIterNextBack(t))

-----------------------------------------------------------------------------
(* Ranges                                                                  *)

\* Defect: an excluded start is taken as included.
MapRangeStartIncluded(t, b) ==
  IF b.kind = "unbounded" THEN 0 ELSE RankCmp(t, Below(b.at))

\* range_to_idx
MapRangeStart(t, b) ==
  CASE b.kind = "included" -> RankCmp(t, Below(b.at))
    [] b.kind = "excluded" -> RankCmp(t, UpTo(b.at))
    [] OTHER -> 0

RangeToIdx(t, lo, hi) ==
  LET below == RankCmp(t, Below(hi.at))
  IN CASE hi.kind = "included" -> <<MapRangeStart(t, lo), below>>
       [] hi.kind = "excluded" -> IF below = 0 THEN <<1, 0>> ELSE <<MapRangeStart(t, lo), below - 1>>
       [] OTHER -> IF t.len = 0 THEN <<1, 0>> ELSE <<MapRangeStart(t, lo), t.len - 1>>

\* range
MapRange(t, lo, hi) == LET ends == RangeToIdx(t, lo, hi) IN RangeIdx(t, ends[1], ends[2])

\* range_mut_idx, for positions that lie in nodes in this order; others panic.
Defined(t, first, last) ==
  LET f == LocateIth(t, first)
      b == LocateIth(t, last)
  IN f[1] <= b[1] /\ b[1] < Len(t.inner)

DropBack(s, n) == SubSeq(s, 1, Len(s) - n)

RangeMutIdx(t, first, last) ==
  LET f    == LocateIth(t, first)
      b    == LocateIth(t, last)
      drop == Len(t.inner[b[1] + 1]) - b[2]
      node == t.inner[f[1] + 1]
      next == IF b[1] + 1 < Len(t.inner) THEN t.inner[b[1] + 2] ELSE <<>>
  IN [inner |-> SubSeq(t.inner, b[1] + 3, Len(t.inner)),
      front_node |-> f[1], front_idx |-> first, back_node |-> b[1], back_idx |-> last,
      front |-> SubSeq(node, f[2] + 1, IF f[1] = b[1] THEN Len(node) - drop ELSE Len(node)),
      back  |-> IF f[1] = b[1] THEN next ELSE DropBack(next, drop)]

-----------------------------------------------------------------------------
(* Cursors.  A cursor is a position; one past the end is the gap.          *)

LowerBoundIdx(t, b) ==
  LET below == RankCmp(t, Below(b.at))
  IN CASE b.kind = "included" -> below [] b.kind = "excluded" -> below + 1 [] OTHER -> 0

\* Defect: the cursor wraps at the last element, before the gap.
MoveNextEarly(t, idx) == IF idx + 1 >= t.len THEN 0 ELSE idx + 1
MoveNext(t, idx) == IF idx = t.len THEN 0 ELSE idx + 1
MovePrev(t, idx) == IF idx = 0 THEN t.len ELSE idx - 1
PeekNext(t, idx) == IF idx = t.len THEN First(t) ELSE GetIndex(t, idx + 1)
PeekPrev(t, idx) == IF idx = 0 THEN None ELSE GetIndex(t, idx - 1)

-----------------------------------------------------------------------------
(* Properties                                                              *)

\* The calls of BTreeMap, its entries included, change and return what the
\* same calls on plain functions would: a reference that an entry hands out
\* after an insertion that split a node is still the one of its key.
Plain == INSTANCE SortedMap WITH map <- [h \in Handle |-> [k \in Elements(tree[h]) |-> val[h][k]]]
IsSortedMap == Plain!Spec

\* contains_key, get_key_value and rank agree on every key, present or not.
KeyLookupsAgree ==
  \A h \in Handle : \A k \in 0 .. MaxKey + 1 :
    LET t == tree[h]
    IN /\ ContainsKey(t, k) = (k \in Elements(t))
       /\ GetKeyValue(t, k) = IF k \in Elements(t) THEN Some(k) ELSE None
       /\ EntryIdx(t, k) = Cardinality({x \in Elements(t) : x < k})

\* From every position, peek_next and peek_prev show what move_next and
\* move_prev arrive at, and the two moves undo each other across the gap.
CursorsWalk ==
  \A h \in Handle : \A idx \in 0 .. tree[h].len :
    LET t == tree[h]
    IN /\ PeekNext(t, idx) = GetIndex(t, MoveNext(t, idx))
       /\ PeekPrev(t, idx) = GetIndex(t, MovePrev(t, idx))
       /\ MovePrev(t, MoveNext(t, idx)) = idx /\ MoveNext(t, MovePrev(t, idx)) = idx

YieldsMut(it, s) == YieldsBy(IterMutNext, IterMutNextBack, it, s)
Within(t, lo, hi) == SelectSeq(InOrder(t), LAMBDA x : Inside(x, lo, hi))
MapRangeIsExact(t, lo, hi) ==
  YieldsBy(LAMBDA i : IterNext(t, i), LAMBDA i : IterNextBack(t, i),
           MapRange(t, lo, hi), Within(t, lo, hi))

\* A map range whose included end is a key of the map, or whose end is of
\* another form, is exact from both ends, for absent bounds too.
MapRangeUpToKeyIsExact ==
  \A h \in Handle : \A lo, hi \in Bound(Key) :
    Proper(lo, hi) /\ (hi.kind = "included" => hi.at \in Elements(tree[h]))
      => MapRangeIsExact(tree[h], lo, hi)

\* range yields the entries between its bounds, whatever the bounds, as its
\* documentation says.
\* The code does not meet it: see Observations in the README.
MapRangeYieldsWithinBounds ==
  \A h \in Handle : \A lo, hi \in Bound(Key) :
    Proper(lo, hi) => MapRangeIsExact(tree[h], lo, hi)

\* However the ends are interleaved, iter yields every entry with its own value,
\* keys and values yield its two columns, and the owning iterators do so too
\* while they take the tree apart.
EntriesStayWhole ==
  \A h \in Handle :
    LET t    == tree[h]
        ks   == InOrder(t)
        vs   == [k \in DOMAIN ks |-> val[h][ks[k]]]
        rows == [k \in DOMAIN ks |-> <<ks[k], vs[k]>>]
        it   == IterNew(t)
    IN /\ YieldsBy(LAMBDA i : IterMapNext(h, i), LAMBDA i : IterMapNextBack(h, i), it, rows)
       /\ YieldsBy(LAMBDA i : KeysNext(h, i), LAMBDA i : KeysNextBack(h, i), it, ks)
       /\ YieldsBy(LAMBDA i : ValuesNext(h, i), LAMBDA i : ValuesNextBack(h, i), it, vs)
       /\ YieldsBy(LAMBDA u : IntoIterMapNext(h, u), LAMBDA u : IntoIterMapNextBack(h, u), t, rows)
       /\ YieldsBy(IntoKeysNext, IntoKeysNextBack, t, ks)
       /\ YieldsBy(LAMBDA u : IntoValuesNext(h, u), LAMBDA u : IntoValuesNextBack(h, u), t, vs)

\* Read from the back alone, or over one node, iter_mut reaches every entry.
IterMutFromTheBack ==
  \A h \in Handle :
    LET s == InOrder(tree[h])
        r == Played(IterMutNext, IterMutNextBack, IterMutNew(tree[h]), [k \in DOMAIN s |-> FALSE])
    IN r.backs = s /\ (Len(tree[h].inner) = 1 => YieldsMut(IterMutNew(tree[h]), s))

\* iter_mut is an iterator over the entries of the map, sorted by key.
\* The code does not meet it: see Observations in the README.
IterMutYieldsAll ==
  \A h \in Handle : YieldsMut(IterMutNew(tree[h]), InOrder(tree[h]))

\* range_mut between keys of a map yields the entries between its bounds.
\* The code does not meet it: see Observations in the README.
RangeMutYieldsWithinBounds ==
  \A h \in Handle : \A lo, hi \in Bound(Elements(tree[h])) :
    LET ends == RangeToIdx(tree[h], lo, hi)
    IN tree[h].len > 0 /\ Proper(lo, hi) =>
         /\ Defined(tree[h], ends[1], ends[2])
         /\ YieldsMut(RangeMutIdx(tree[h], ends[1], ends[2]), Within(tree[h], lo, hi))

\* lower_bound returns a cursor at the first element above the bound.
\* The code does not meet it: see Observations in the README.
LowerBoundIsFirstAbove ==
  \A h \in Handle : \A b \in Bound(Key) :
    GetIndex(tree[h], LowerBoundIdx(tree[h], b))
      = At(Within(tree[h], b, [kind |-> "unbounded", at |-> 0]), 0)
=============================================================================
