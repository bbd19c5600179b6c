-------------------------- MODULE PublishedChunks --------------------------
(***************************************************************************)
(* The layout of the published route index (PublishedNodeIndex in          *)
(* src/src/concurrent/set.rs): a vector of shared, sorted chunks of        *)
(* routes.  The write guard edits a copy of the vector.  A chunk of the    *)
(* copy is either still shared with the published index, that is readers,  *)
(* or the guard's own: Arc::make_mut copies a shared chunk first.          *)
(***************************************************************************)
EXTENDS Integers, SequencesExt

CONSTANTS MaxKey, Node, None,
          NodesOf,         \* the nodes each key may route to
          RoutesPerChunk,  \* PUBLISHED_ROUTES_PER_CHUNK
          MaxEdits         \* bound on the edits of one publication

ASSUME NodesAssumption == NodesOf \in [1 .. MaxKey -> SUBSET Node]
ASSUME RoutesAssumption == RoutesPerChunk \in Nat \ {0, 1}

Key == 1 .. MaxKey

\* PUBLISHED_REBUILD_ROUTES_PER_CHUNK, PUBLISHED_ROUTE_MERGE_THRESHOLD
RebuildRoutesPerChunk == (RoutesPerChunk * 2) \div 3
MergeThreshold == (RoutesPerChunk * 3) \div 4

\* What the canonical index may hold.
Canonical ==
  UNION {{f \in [D -> Node] : \A k \in D : f[k] \in NodesOf[k]} : D \in SUBSET Key}

VARIABLES
  current,   \* PublishedIndex.current: chunks of <<key, node>> entries
  work,      \* TopologyWriteGuard.published: chunk references, or None
  len,       \* len of the published index and of the guard's copy
  given,     \* routes the guard's last edit was called with (None: removed)
  displaced, \* what the guard's last edit returned, or "rebuilt"
  edits      \* edits of the guard's copy so far

vars == <<current, work, len, given, displaced, edits>>

\* References to the j-th published chunk, and to a chunk of the guard's own.
Shared(j) == [shared |-> j, own |-> <<>>]
Own(entries) == [shared |-> 0, own |-> entries]
Deref(r) == IF r.shared = 0 THEN r.own ELSE current[r.shared]

\* The chunks of the guard's copy.
Chunks == [i \in DOMAIN work |-> Deref(work[i])]

Keys(entries) == {e[1] : e \in ToSet(entries)}

-----------------------------------------------------------------------------
(* Lookups in a vector of chunks.  Positions count from 1.                 *)

\* chunk_for: partition_point over the chunks' last keys.
ChunkFor(chunks, k) == 1 + Cardinality({i \in DOMAIN chunks : Last(chunks[i])[1] < k})

FirstKeyValue(chunks) == IF chunks = <<>> THEN None ELSE chunks[1][1]
LastKeyValue(chunks) == IF chunks = <<>> THEN None ELSE Last(Last(chunks))

\* Defect: only the chunk that reaches the bound is searched.
FirstForBoundInChunk(chunks, k, excluded) ==
  LET i == ChunkFor(chunks, k)
      rest == SelectSeq(chunks[i], LAMBDA e : e[1] > k \/ (e[1] = k /\ ~excluded))
  IN  IF i > Len(chunks) \/ rest = <<>> THEN None ELSE rest[1]

\* first_for_bound: the first entry at (or beyond, when excluded) key k.
FirstForBound(chunks, k, excluded) ==
  LET Before(i) == Cardinality({j \in DOMAIN chunks[i] :
                                  chunks[i][j][1] < k \/ (excluded /\ chunks[i][j][1] = k)})
      found == {i \in ChunkFor(chunks, k) .. Len(chunks) : Before(i) < Len(chunks[i])}
  IN  IF found = {} THEN None ELSE chunks[Min(found)][Before(Min(found)) + 1]

-----------------------------------------------------------------------------
(* Edits of the guard's copy.                                              *)

\* Arc::make_mut on the i-th chunk, which then holds entries.
Write(refs, i, entries) ==
  work' = ReplaceAt(refs, i, Own(entries)) /\ UNCHANGED current

\* An edit with the given routes returns the node it displaced, leaves n routes.
Counted(routes, d, n) ==
  /\ edits < MaxEdits /\ edits' = edits + 1
  /\ given' = routes /\ displaced' = d /\ len' = [len EXCEPT !.work = n]

\* ensure_publication_snapshot
Snapshot ==
  /\ work = None
  /\ work' = [i \in DOMAIN current |-> Shared(i)]
  /\ len' = [len EXCEPT !.work = len.current]
  /\ UNCHANGED <<current, given, displaced, edits>>

\* Defect: a full chunk takes one more entry before it is split.
OverfullLate(entries) == Len(entries) > RoutesPerChunk + 1

Overfull(entries) == Len(entries) > RoutesPerChunk

\* Defect: a key that is present keeps its node.
WithNodeKept(entries, at, n) == entries

\* mem::replace of the node of an entry.
WithNode(entries, at, n) == [entries EXCEPT ![at][2] = n]

\* insert
InsertRoute(k, n) ==
  LET route   == [key \in {k} |-> n]
      ci      == Min({ChunkFor(Chunks, k), Len(work)})
      old     == Deref(work[ci])
      at      == 1 + Cardinality({j \in DOMAIN old : old[j][1] < k})
      entries == InsertAt(old, at, <<k, n>>)
      half    == Len(entries) \div 2
      right   == Own(SubSeq(entries, half + 1, Len(entries)))
  IN
  /\ work # None
  /\ \/ /\ work = <<>>
        /\ work' = <<Own(<<<<k, n>>>>)>> /\ Counted(route, None, 1)
        /\ UNCHANGED current
     \/ /\ work # <<>> /\ k \in Keys(old)
        /\ Write(work, ci, WithNode(old, at, n)) /\ Counted(route, old[at][2], len.work)
     \/ /\ work # <<>> /\ k \notin Keys(old) /\ ~Overfull(entries)
        /\ Write(work, ci, entries) /\ Counted(route, None, len.work + 1)
     \/ /\ work # <<>> /\ k \notin Keys(old) /\ Overfull(entries)
        /\ Write(InsertAt(work, ci + 1, right), ci, SubSeq(entries, 1, half))
        /\ Counted(route, None, len.work + 1)

MayMerge(left, right) == Len(left) + Len(right) <= MergeThreshold

\* remove, of a present key: drop an empty chunk, or merge with a neighbour.
RemovePresent(k, ci) ==
  LET chunks == Chunks
      left   == SelectSeq(chunks[ci], LAMBDA e : e[1] # k)
      lower  == left # <<>> /\ ci > 1 /\ MayMerge(chunks[ci - 1], left)
      upper  == left # <<>> /\ ~lower /\ ci < Len(work) /\ MayMerge(left, chunks[ci + 1])
  IN
  \/ left = <<>> /\ work' = RemoveAt(work, ci) /\ UNCHANGED current
  \/ lower /\ Write(RemoveAt(work, ci), ci - 1, chunks[ci - 1] \o left)
  \/ upper /\ Write(RemoveAt(work, ci + 1), ci, left \o chunks[ci + 1])
  \/ left # <<>> /\ ~lower /\ ~upper /\ Write(work, ci, left)

RemoveRoute(k) ==
  LET route == [key \in {k} |-> None]
      ci == ChunkFor(Chunks, k)
      present == ci <= Len(work) /\ k \in Keys(Deref(work[ci]))
      found == {e \in ToSet(Deref(work[ci])) : e[1] = k}
  IN
  /\ work # None
  /\ \/ ~present /\ Counted(route, None, len.work) /\ UNCHANGED <<current, work>>
     \/ /\ present /\ RemovePresent(k, ci)
        /\ Counted(route, (CHOOSE e \in found : TRUE)[2], len.work - 1)

\* from_canonical: chunks of the rebuild size, and the rest.
FromCanonical(f) ==
  LET R    == RebuildRoutesPerChunk
      keys == SelectSeq([i \in Key |-> i], LAMBDA i : i \in DOMAIN f)
      all  == [i \in 1 .. Len(keys) |-> <<keys[i], f[keys[i]]>>]
  IN  [i \in 1 .. (Len(all) + R - 1) \div R |-> SubSeq(all, R * (i - 1) + 1, Min({R * i, Len(all)}))]

\* rebuild_publication, from whatever the canonical index holds.
RebuildRoutes(f) ==
  LET parts == FromCanonical(f)
  IN
  /\ work # None
  /\ work' = [i \in DOMAIN parts |-> Own(parts[i])]
  /\ Counted(f, "rebuilt", Cardinality(DOMAIN f))
  /\ UNCHANGED current

\* replace
Publish ==
  /\ work # None
  /\ current' = Chunks /\ work' = None
  /\ len' = [len EXCEPT !.current = len.work]
  /\ given' = <<>> /\ displaced' = None /\ edits' = 0

Init ==
  /\ current = <<>> /\ work = None /\ len = [current |-> 0, work |-> 0]
  /\ given = <<>> /\ displaced = None /\ edits = 0

Next ==
  \/ Snapshot \/ Publish
  \/ \E k \in Key : RemoveRoute(k) \/ \E n \in NodesOf[k] : InsertRoute(k, n)
  \/ \E f \in Canonical : RebuildRoutes(f)

Spec == Init /\ [][Next]_vars

-----------------------------------------------------------------------------
(* Properties.                                                             *)

Entries(chunks) == FlattenSeq(chunks)

WellFormed(chunks, n) ==
  LET all == Entries(chunks) IN
  /\ \A i \in DOMAIN chunks : Len(chunks[i]) \in 1 .. RoutesPerChunk
  /\ n = Len(all)
  /\ \A i \in 2 .. Len(all) : all[i - 1][1] < all[i][1]

\* However inserts, splits, removals and merges alternate, the published index
\* and the guard's copy are strictly sorted sequences of routes in non-empty
\* chunks of at most RoutesPerChunk, and count their routes: chunk_for unwraps
\* the last entry of every chunk, and the guard's Drop compares len.
ChunksAreWellFormed ==
  /\ WellFormed(current, len.current)
  /\ work # None => WellFormed(Chunks, len.work)

\* The map a vector of chunks stands for.
AsMap(chunks) ==
  LET all == UNION {ToSet(chunks[i]) : i \in DOMAIN chunks}
  IN  [k \in {e[1] : e \in all} |-> (CHOOSE e \in all : e[1] = k)[2]]

\* In the published index first_for_bound finds the least route at (or above)
\* any key, across chunk boundaries, and last_key_value the greatest one.
LookupsFindTheRoute ==
  LET f == AsMap(current) IN
  /\ \A k \in Key, excluded \in BOOLEAN :
       LET above == {j \in DOMAIN f : j > k \/ (j = k /\ ~excluded)}
       IN  FirstForBound(current, k, excluded)
             = IF above = {} THEN None ELSE <<Min(above), f[Min(above)]>>
  /\ DOMAIN f # {} => /\ LastKeyValue(current) = <<Max(DOMAIN f), f[Max(DOMAIN f)]>>
                      /\ FirstKeyValue(current) = <<Min(DOMAIN f), f[Min(DOMAIN f)]>>

\* The chunked index is a map: an edit changes the guard's copy by the route it
\* was given and returns the displaced node, a rebuild leaves the canonical
\* routes, and the map readers route in does not change under an edit, although
\* the two share chunks.
Routes == INSTANCE RouteMap WITH
  routes <- IF work = None THEN None ELSE AsMap(Chunks), root <- AsMap(current)
IsRouteMap == Routes!Spec
=============================================================================
