----------------------------- MODULE ChangeFeed -----------------------------
(***************************************************************************)
(* Change data capture: the events that insert_cdc and remove_cdc return   *)
(* (src/src/concurrent/set.rs, operation.rs, src/src/cdc/change.rs) and a  *)
(* replica that applies them.                                              *)
(*                                                                         *)
(* Every step of ConcurrentSet that changes a node draws event ids while   *)
(* it holds the locks of that change, so the feed is a sequence in id      *)
(* order; an event reaches the replica once the call that drew it has      *)
(* returned and all earlier ids have been applied.  A replica node is the  *)
(* sequence of its elements: events name positions.                        *)
(***************************************************************************)
EXTENDS ConcurrentSet, Sequences

CONSTANTS MaxBacklog,   \* bound on the events waiting for the replica
          SparesFull    \* callers insert no value that a full node holds

ASSUME FeedCapacityAssumption == Capacity > 1

VARIABLES
  feed,      \* events drawn and not yet applied, with the call that has them
  replica    \* from a node's maximum to its elements in order

LOCAL Seqs == INSTANCE SequencesExt

-----------------------------------------------------------------------------
(* Events.                                                                 *)

CreateNodeEvent(max)     == [kind |-> "create", max |-> max]
RemoveNodeEvent(max)     == [kind |-> "remove", max |-> max]
InsertAtEvent(max, v, i) == [kind |-> "insert_at", max |-> max, value |-> v, index |-> i]
RemoveAtEvent(max, v, i) == [kind |-> "remove_at", max |-> max, value |-> v, index |-> i]
SplitNodeEvent(max, i)   == [kind |-> "split", max |-> max, index |-> i]

\* Position of v in the sorted elements c.
Position(c, v) == Cardinality({x \in c : x < v})

\* put_inner replaces a stored value.
ReplacementEvents(c, v) ==
  LET rest == c \ {v}
      i    == Position(c, v)
      max  == Max(c)
  IN  CASE rest = {} -> <<RemoveNodeEvent(max), CreateNodeEvent(v)>>
        [] rest # {} /\ v = max -> <<RemoveAtEvent(max, v, i), InsertAtEvent(Max(rest), v, i)>>
        [] OTHER -> <<RemoveAtEvent(max, v, i), InsertAtEvent(max, v, i)>>

\* Operation::commit splits a node and inserts or replaces the riding value.
SplitEvents(c, v) ==
  LET lower == LowerHalf(c)
      half  == IF RidesLow(lower, v) THEN lower ELSE c \ lower
      max   == Max(half)
      i     == Position(half, v)
      gone  == IF v \in half THEN <<RemoveAtEvent(max, v, i)>> ELSE <<>>
  IN  <<SplitNodeEvent(Max(c), Cardinality(lower))>> \o gone \o <<InsertAtEvent(max, v, i)>>

\* Defect: the route's key stands in for the node's maximum.
NodeMaxByRoute(t) == key[t]

\* old_max: the maximum of the locked node before the change.
NodeMax(t) == Max(contents[node[t]])

\* The events a step of an insert draws, and of a removal.
DrawnByPut(t) ==
  LET v == arg[t]
      c == contents[node[t]]
      changed == contents' # contents
  IN  CASE pc[t] = "put_root" /\ changed -> <<CreateNodeEvent(v)>>
        [] pc[t] = "put_node" /\ changed -> <<InsertAtEvent(NodeMax(t), v, Position(c, v))>>
        [] pc[t] = "put_node" /\ res'[t] = FALSE -> ReplacementEvents(c, v)
        [] pc[t] = "split_commit" /\ changed -> SplitEvents(c, v)
        [] OTHER -> <<>>

DrawnByRemove(t) ==
  LET v == arg[t]
  IN  CASE pc[t] = "remove_node" /\ contents' # contents ->
             <<RemoveAtEvent(NodeMax(t), v, Position(contents[node[t]], v))>>
        [] pc[t] = "remove_commit" /\ contents' # contents -> <<RemoveNodeEvent(v)>>
        [] OTHER -> <<>>

Drawn(t) == DrawnByPut(t) \o DrawnByRemove(t)

-----------------------------------------------------------------------------
(* The replica.                                                            *)

\* Replace the replica's node under key max by the given nodes.
Rewrite(r, max, nodes) ==
  LET kept == Without(r, max)
      new  == {s \in nodes : s # <<>>}
  IN  [k \in DOMAIN kept \cup {Seqs!Last(s) : s \in new} |->
         IF \E s \in new : Seqs!Last(s) = k THEN CHOOSE s \in new : Seqs!Last(s) = k ELSE kept[k]]

\* A node the replica does not hold is skipped.
Apply(r, e) ==
  LET node0 == r[e.max]
  IN  CASE e.kind = "create" -> With(r, e.max, <<e.max>>)
        [] e.max \notin DOMAIN r -> r
        [] e.kind = "remove" -> Without(r, e.max)
        [] e.kind = "insert_at" -> Rewrite(r, e.max, {Seqs!InsertAt(node0, e.index + 1, e.value)})
        [] e.kind = "remove_at" -> Rewrite(r, e.max, {Seqs!RemoveAt(node0, e.index + 1)})
        [] e.kind = "split" -> Rewrite(r, e.max, {SubSeq(node0, 1, e.index), SubSeq(node0, e.index + 1, Len(node0))})

-----------------------------------------------------------------------------
(* The specification.                                                      *)

InOrder(c) == [i \in 1 .. Cardinality(c) |-> CHOOSE x \in c : Position(c, x) = i - 1]

\* The nodes of the set by their maxima.
Image ==
  [k \in {Max(contents[n]) : n \in Linked} |->
     InOrder(CHOOSE c \in {contents[n] : n \in Linked} : Max(c) = k)]

FeedInit == Init /\ feed = <<>> /\ replica = Image

FeedCall(t) ==
  /\ Len(feed) < MaxBacklog
  /\ Call(t)
  /\ SparesFull /\ op'[t] = "insert" =>
       \A n \in Linked : arg'[t] \in contents[n] => Cardinality(contents[n]) < Capacity
  /\ UNCHANGED <<feed, replica>>

\* A call that returns hands its events over.
Delivered(t) ==
  IF pc'[t] = "idle" THEN [i \in DOMAIN feed |-> [feed[i] EXCEPT !.from = IF @ = t THEN None ELSE @]]
  ELSE feed

FeedStep(t) ==
  /\ Step(t)
  /\ feed' = Delivered(t) \o LET new == Drawn(t) IN [i \in DOMAIN new |-> [event |-> new[i], from |-> t]]
  /\ UNCHANGED replica

\* Id::is_next_for: events are applied in id order without gaps.
ApplyNext ==
  /\ feed # <<>> /\ Head(feed).from = None
  /\ replica' = Apply(replica, Head(feed).event)
  /\ feed' = Tail(feed)
  /\ UNCHANGED vars

FeedNext == (\E t \in Thread : FeedCall(t) \/ FeedStep(t)) \/ ApplyNext

FeedSpec == FeedInit /\ [][FeedNext]_<<vars, feed, replica>>

-----------------------------------------------------------------------------
(* Properties.                                                             *)

\* The feed is complete and its order is right: at any moment the replica,
\* once it has applied every event drawn so far in id order, holds the same
\* nodes as the set.  So every event names a node the replica has, by the
\* maximum it has there, and a position that is right at that point, whatever
\* splits, removals and pending re-keys went on between.
FeedRebuildsNodes ==
  Seqs!FoldLeft(LAMBDA r, e : Apply(r, e.event), replica, feed) = Image
=============================================================================
