-------------------------------- MODULE Scan --------------------------------
(***************************************************************************)
(* Iter and Range of the concurrent set (src/src/concurrent/set.rs): a     *)
(* double-ended scan that holds no lock between items, over the writers of *)
(* ConcurrentSet.                                                          *)
(*                                                                         *)
(* The two directions of the scan are two threads that make no calls.      *)
(* node[d] is the Arc that direction d keeps: the node it exhausted, or is *)
(* partway through.  A batch is the set of its elements.  Bounds are views *)
(* of elements, in the type the caller borrows them as: bounds.group       *)
(* consecutive elements are the same view, as the entries of one multimap  *)
(* key are; in groups of one the two orders match.                         *)
(***************************************************************************)
EXTENDS ConcurrentSet

CONSTANTS Front, Back,             \* the directions
          InitialBatch, MaxBatch,  \* INITIAL_BATCH, MAX_BATCH
          ScanBounds,              \* the ranges asked for
          MaxCalls                 \* bound on the writers' calls

Direction == {Front, Back}
Writers == Thread \ Direction

\* The steps of a constructor under its structural read guard.
Constructing == {"new_front", "new_pre_front", "new_back", "new_next_back", "new_ends"}

ASSUME DirectionAssumption ==
  /\ Direction \subseteq Thread /\ Front # Back
  /\ Direction \cap Callers = {}
  /\ Direction \cap (Constructing \cup {"none", "idle", "done"}) = {}

ASSUME BatchAssumption == {InitialBatch, MaxBatch} \subseteq Nat \ {0} /\ None \notin Nat

VARIABLES
  phase,     \* the step a constructor or a call of next is at
  bounds,    \* the range asked for
  cursor,    \* current_front_value, current_back_value
  batch,     \* current_front_batch, current_back_batch; {} is None
  taken,     \* front_partial, back_partial: a count, or None when exhausted
  limit,     \* front_batch_limit, back_batch_limit
  met,
  kept,      \* elements acknowledged and present since the scan began
  yielded,
  calls      \* calls the writers have made

scan == <<phase, bounds, cursor, batch, taken, limit, met, kept, yielded, calls>>

-----------------------------------------------------------------------------
(* Order.                                                                  *)

Other(d) == IF d = Front THEN Back ELSE Front

\* x lies beyond y for direction d.
Ahead(d, x, y) == IF d = Front THEN x > y ELSE x < y

\* At most one element: the smallest, the greatest.
Least(S) == {x \in S : \A y \in S : x <= y}
Greatest(S) == {x \in S : \A y \in S : y <= x}

\* The first m elements of S that direction d meets.
Nearest(d, S, m) == {x \in S : Cardinality({y \in S : Ahead(d, x, y)}) < m}

\* Borrow<Q>
View(x) == (x + bounds.group - 1) \div bounds.group

\* compute_positions_to_skip: the elements of S before the start bound, and
\* after the end bound.
BeforeStart(S, b) ==
  {x \in S : \/ b.kind = "included" /\ View(x) < b.at
             \/ b.kind = "excluded" /\ View(x) <= b.at}
AfterEnd(S, b) ==
  {x \in S : \/ b.kind = "included" /\ View(x) > b.at
             \/ b.kind = "excluded" /\ View(x) >= b.at}

-----------------------------------------------------------------------------
(* Iter::new and Range::new.                                               *)

Unbounded == [kind |-> "unbounded", at |-> None]
Bound == {Unbounded} \cup [kind : {"included", "excluded"}, at : Nat]

ASSUME BoundsAssumption == ScanBounds \subseteq [group : Nat \ {0}, start : Bound, end : Bound]

Everything == [group |-> 1, start |-> Unbounded, end |-> Unbounded]

Keys == DOMAIN topo.index

Both(v) == [d \in Direction |-> v]

IterNew ==
  /\ phase = "none"
  /\ phase' = "idle" /\ bounds' = Everything /\ met' = FALSE /\ kept' = Acknowledged
  /\ UNCHANGED <<vars, cursor, batch, taken, limit, yielded, calls>>

\* The bounds cross, or exclude each other.
Inverted(b) ==
  /\ b.start.kind # "unbounded" /\ b.end.kind # "unbounded"
  /\ IF b.start.kind = "included" /\ b.end.kind = "included"
     THEN b.start.at > b.end.at ELSE b.start.at >= b.end.at

\* Take the structural read guard, which the constructor keeps to its end.
RangeNew ==
  /\ phase = "none" /\ CanReadTopology
  /\ \E b \in ScanBounds : bounds' = b /\ met' = Inverted(b)
  /\ phase' = "new_front" /\ Goto(Front, "walk") /\ kept' = Acknowledged
  /\ UNCHANGED <<shared, op, arg, node, key, retries, res, cursor, batch, taken, limit, yielded, calls>>

\* first_for_borrowed_bound
StartEntry == Least(Keys \ BeforeStart(Keys, bounds.start))

\* node_for_borrowed_end
EndEntry ==
  LET past   == {k \in Keys : View(k) > bounds.end.at}
      equal  == {k \in Keys : View(k) = bounds.end.at}
      chosen == CASE bounds.end.kind = "unbounded" -> {}
                  [] bounds.end.kind # "unbounded" /\ bounds.group = 1 -> Least(past \cup equal)
                  [] OTHER -> IF past # {} THEN Least(past) ELSE Greatest(equal)
  IN  IF chosen = {} THEN Greatest(Keys) ELSE chosen

\* One node of the constructor: set direction d's cursor to the one value in
\* found, or go on to the next phase without it.
Sentinel(d, found, otherwise, next) ==
  \/ \E x \in found : cursor' = [cursor EXCEPT ![d] = x] /\ phase' = next
  \/ found = {} /\ phase' = otherwise /\ UNCHANGED cursor

NewFront ==
  /\ phase = "new_front"
  /\ LET skipped == UNION {BeforeStart(contents[topo.index[k]], bounds.start) : k \in StartEntry}
     IN  Sentinel(Front, Greatest(skipped), "new_pre_front", "new_back")
  /\ UNCHANGED <<vars, bounds, batch, taken, limit, met, kept, yielded, calls>>

\* The node before the front node, locked on its own.
NewPreFront ==
  /\ phase = "new_pre_front"
  /\ LET previous == Greatest({j \in Keys : \E k \in StartEntry : j < k})
     IN  Sentinel(Front, UNION {Greatest(contents[topo.index[j]]) : j \in previous}, "new_back", "new_back")
  /\ UNCHANGED <<vars, bounds, batch, taken, limit, met, kept, yielded, calls>>

NewBack ==
  /\ phase = "new_back"
  /\ LET skipped == UNION {AfterEnd(contents[topo.index[k]], bounds.end) : k \in EndEntry}
     IN  Sentinel(Back, Least(skipped), "new_next_back", "new_ends")
  /\ UNCHANGED <<vars, bounds, batch, taken, limit, met, kept, yielded, calls>>

NewNextBack ==
  /\ phase = "new_next_back"
  /\ LET following == Least({j \in Keys : \E k \in EndEntry : j > k})
     IN  Sentinel(Back, UNION {Least(contents[topo.index[j]]) : j \in following}, "new_ends", "new_ends")
  /\ UNCHANGED <<vars, bounds, batch, taken, limit, met, kept, yielded, calls>>

\* Without sentinels the range is everything or nothing; the guard is dropped.
NewEnds ==
  /\ phase = "new_ends"
  /\ phase' = "idle" /\ Goto(Front, "idle")
  /\ LET bare == cursor[Front] = None /\ cursor[Back] = None
         max  == UNION {Greatest(contents[topo.index[k]]) : k \in Greatest(Keys)}
         min  == UNION {Least(contents[topo.index[k]]) : k \in Least(Keys)}
     IN  met' = (met \/ (bare /\ (BeforeStart(max, bounds.start) # {} \/ AfterEnd(min, bounds.end) # {})))
  /\ UNCHANGED <<shared, op, arg, node, key, retries, res, bounds, cursor, batch, taken, limit, kept, yielded, calls>>

-----------------------------------------------------------------------------
(* install_front_batch and install_back_batch.                             *)

\* Defect: the node a direction finished is not remembered.
ExhaustedNever(d, k) == FALSE

\* Direction d has finished the node under key k.
Exhausted(d, k) == node[d] = topo.index[k] /\ taken[d] = None

FrontEntry ==
  LET candidate == Least({k \in Keys : cursor[Front] = None \/ k > cursor[Front]})
      past      == Least({j \in Keys : \E k \in candidate : j > k})
  IN  IF \E k \in candidate : Exhausted(Front, k) THEN past ELSE candidate

BackEntry ==
  LET reaching  == Least({k \in Keys : cursor[Back] # None /\ k >= cursor[Back]})
      candidate == IF reaching = {} THEN Greatest(Keys) ELSE reaching
      past      == Greatest({j \in Keys : \E k \in candidate : j < k})
  IN  IF \E k \in candidate : Exhausted(Back, k) THEN past ELSE candidate

Entry(d) == IF d = Front THEN FrontEntry ELSE BackEntry

\* Defect: the count taken from a node outweighs the rank of the cursor.
RemainingByPosition(d, n) ==
  LET ranked == {x \in contents[n] : cursor[d] = None \/ Ahead(d, x, cursor[d])}
      count  == IF node[d] = n /\ taken[d] # None THEN taken[d] ELSE 0
  IN  ranked \ Nearest(d, contents[n], count)

\* rank, of an excluded bound v: the last position that direction d skips,
\* counted from its own end, or None.
LastSkipped(d, S, v) ==
  LET skipped == Cardinality({x \in S : ~Ahead(d, x, v)})
  IN  IF skipped = 0 THEN None ELSE skipped - 1

RankSkip(d, S, v) ==
  LET rank == LastSkipped(d, S, v) IN IF rank = None THEN 0 ELSE rank + 1

\* Elements of node n still to come: ranked by the cursor where there is one,
\* by the count already taken from this node otherwise.
Remaining(d, n) ==
  LET partial == IF node[d] = n /\ taken[d] # None THEN taken[d] ELSE 0
      skip    == IF cursor[d] # None THEN RankSkip(d, contents[n], cursor[d]) ELSE partial
  IN  contents[n] \ Nearest(d, contents[n], skip)

-----------------------------------------------------------------------------
(* next and next_back.                                                     *)

\* Defect: the item the other direction is at does not stop a direction.
CrossesPast(d, x) == cursor[Other(d)] # None /\ Ahead(d, x, cursor[Other(d)])

\* The other direction has yielded x, or passed it.
Crosses(d, x) == cursor[Other(d)] # None /\ ~Ahead(Other(d), x, cursor[Other(d)])

\* Yield the next fresh item of b, stop where the directions meet, or ask for
\* another batch.
Consume(d, b) ==
  LET fresh == {x \in b : cursor[d] = None \/ Ahead(d, x, cursor[d])}
  IN
  \/ /\ fresh = {}
     /\ batch' = [batch EXCEPT ![d] = {}] /\ phase' = d
     /\ UNCHANGED <<cursor, met, yielded>>
  \/ \E x \in Nearest(d, fresh, 1) :
       /\ batch' = [batch EXCEPT ![d] = fresh \ {x}]
       /\ \/ /\ Crosses(d, x)
             /\ met' = TRUE /\ phase' = "done"
             /\ UNCHANGED <<cursor, yielded>>
          \/ /\ ~Crosses(d, x)
             /\ cursor' = [cursor EXCEPT ![d] = x] /\ yielded' = yielded \cup {x} /\ phase' = "idle"
             /\ UNCHANGED met

\* Choose the node and clone from it with the structural guard held.
Install(d) ==
  /\ phase = d /\ CanReadTopology
  /\ \/ /\ Entry(d) = {}
        /\ phase' = "done"
        /\ UNCHANGED <<vars, cursor, batch, taken, limit, met, yielded>>
     \/ \E k \in Entry(d) :
          LET n    == topo.index[k]
              rest == Remaining(d, n)
              take == Nearest(d, rest, limit[d])
          IN
          /\ node' = [node EXCEPT ![d] = n]
          /\ taken' = [taken EXCEPT ![d] = IF take = rest THEN None
                                           ELSE Cardinality(contents[n] \ rest) + Cardinality(take)]
          /\ limit' = [limit EXCEPT ![d] = Min({2 * @, MaxBatch})]
          /\ Consume(d, take)
          /\ UNCHANGED <<shared, pc, op, arg, key, retries, res>>
  /\ UNCHANGED <<bounds, kept, calls>>

NextItem(d) ==
  /\ phase = "idle"
  /\ \/ /\ met
        /\ phase' = "done"
        /\ UNCHANGED <<cursor, batch, met, yielded>>
     \/ /\ ~met
        /\ Consume(d, batch[d])
  /\ UNCHANGED <<vars, bounds, taken, limit, kept, calls>>

\* The caller drops the scan.
DropScan ==
  /\ phase = "done"
  /\ phase' = "none" /\ bounds' = Everything /\ met' = FALSE
  /\ cursor' = Both(None) /\ batch' = Both({}) /\ taken' = Both(None) /\ limit' = Both(InitialBatch)
  /\ node' = [t \in Thread |-> IF t \in Direction THEN None ELSE node[t]]
  /\ kept' = {} /\ yielded' = {}
  /\ UNCHANGED <<shared, pc, op, arg, key, retries, res, calls>>

-----------------------------------------------------------------------------
ScanInit ==
  /\ Init
  /\ phase = "none" /\ bounds = Everything /\ met = FALSE
  /\ cursor = Both(None) /\ batch = Both({}) /\ taken = Both(None) /\ limit = Both(InitialBatch)
  /\ kept = {} /\ yielded = {} /\ calls = 0

WriterCall(t) ==
  /\ calls < MaxCalls /\ Call(t) /\ calls' = calls + 1
  /\ UNCHANGED <<phase, bounds, cursor, batch, taken, limit, met, kept, yielded>>

WriterStep(t) ==
  /\ Step(t)
  /\ kept' = kept \cap Acknowledged'
  /\ UNCHANGED <<phase, bounds, cursor, batch, taken, limit, met, yielded, calls>>

Construct == IterNew \/ RangeNew \/ NewFront \/ NewPreFront \/ NewBack \/ NewNextBack \/ NewEnds
Advance(d) == NextItem(d) \/ Install(d)

ScanNext ==
  \/ \E t \in Writers : WriterCall(t) \/ WriterStep(t)
  \/ Construct
  \/ \E d \in Direction : Advance(d)
  \/ DropScan

ScanSpec == ScanInit /\ [][ScanNext]_<<vars, scan>>

\* A call of next that is offered the structural lock again and again takes it.
FairScanSpec == ScanSpec /\ \A d \in Direction : SF_<<vars, scan>>(Install(d))

-----------------------------------------------------------------------------
(* Properties.                                                             *)

\* Element x belongs to the range asked for.
InBounds(x) ==
  /\ bounds.start.kind = "included" => bounds.start.at <= View(x)
  /\ bounds.start.kind = "excluded" => bounds.start.at < View(x)
  /\ bounds.end.kind = "included" => View(x) <= bounds.end.at
  /\ bounds.end.kind = "excluded" => View(x) < bounds.end.at

\* The promise documented above Iter: an element acknowledged before the scan
\* began and present throughout is not skipped by either cursor, whatever
\* splits, re-keys and unlinks go on between two batches.
NothingSkipped ==
  \A x \in kept :
    /\ InBounds(x)
    /\ \/ phase = "done"
       \/ \E d \in Direction : cursor[d] # None /\ ~Ahead(d, x, cursor[d])
    => x \in yielded

\* No element is yielded twice: not by a direction that is handed the same
\* node again after a split or re-key, and not by both directions.
YieldedOnce ==
  [][\A d \in Direction :
       phase \in {"idle", d} /\ cursor'[d] # cursor[d] /\ phase' = "idle" => cursor'[d] \notin yielded]_<<vars, scan>>

\* What range documents: it yields elements from its start bound to its end
\* bound.
\* The code does not meet it: see Observations in the README.
YieldsWithinBounds == \A x \in yielded : InBounds(x)

\* A call of next or next_back returns unless a writer keeps the structural
\* lock for good: it is not handed the same exhausted node, or batches of old
\* items, for ever.
EveryNextReturns == []<>CanReadTopology => \A d \in Direction : phase = d ~> phase # d
=============================================================================
