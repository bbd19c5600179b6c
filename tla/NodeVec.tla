------------------------------ MODULE NodeVec ------------------------------
(***************************************************************************)
(* The sorted vector behind every node (NodeLike for Vec<T> and the search *)
(* helpers of src/src/core/node.rs), at the grain of one probe of the      *)
(* binary search.  Whoever calls holds the node's lock, so calls do not    *)
(* interleave.  The other modules see a node as the set of its elements;   *)
(* this one shows that the vector computes on that set.                    *)
(*                                                                         *)
(* Positions are the code's: vec[k + 1] is the element at position k.      *)
(***************************************************************************)
EXTENDS Integers, Sequences

CONSTANT Border   \* the length at which the callers split the node

VARIABLES
  vec,      \* the elements, in order
  pc,       \* "idle", "search" or the arm of the search result to run
  op, arg,  \* the operation that searches, and what it searches for
  i, j, m,  \* the bounds and the probe of the search
  out       \* the last answer: [is |-> BOOLEAN, at |-> position]

vars == <<vec, pc, op, arg, i, j, m, out>>

Answer == [is : BOOLEAN, at : Nat]

Init ==
  /\ vec = <<>> /\ pc = "idle" /\ op = "contains" /\ arg \in Int
  /\ i = 0 /\ j = 0 /\ m = 0 /\ out = [is |-> FALSE, at |-> 0]

-----------------------------------------------------------------------------
(* search                                                                  *)

Half(n) == n \div 2

\* An insert into a full node is preceded by a split (need_to_split).
Call ==
  /\ pc = "idle" /\ pc' = "search"
  /\ op' \in {"insert", "delete", "contains"} /\ arg' \in Int
  /\ op' = "insert" => Len(vec) < Border
  /\ i' = 0 /\ j' = Len(vec) /\ m' = Half(Len(vec))
  /\ UNCHANGED <<vec, out>>

\* The element get_unchecked(m) reads.
Candidate == vec[m + 1]

Equal ==
  /\ pc = "search" /\ i # j /\ Candidate = arg /\ pc' = "ok"
  /\ UNCHANGED <<vec, op, arg, i, j, m, out>>

Less ==
  /\ pc = "search" /\ i # j /\ Candidate < arg
  /\ i' = m + 1 /\ m' = Half(m + 1 + j)
  /\ UNCHANGED <<vec, pc, op, arg, j, out>>

Greater ==
  /\ pc = "search" /\ i # j /\ Candidate > arg
  /\ j' = m /\ m' = Half(i + m)
  /\ UNCHANGED <<vec, pc, op, arg, i, out>>

Miss ==
  /\ pc = "search" /\ i = j /\ pc' = "err"
  /\ UNCHANGED <<vec, op, arg, i, j, m, out>>

-----------------------------------------------------------------------------
(* The operations that use the result.                                     *)

InsertAt(s, p, v) ==
  [k \in 1 .. Len(s) + 1 |->
     IF k <= p THEN s[k] ELSE IF k = p + 1 THEN v ELSE s[k - 1]]

RemoveAt(s, p) ==
  [k \in 1 .. Len(s) - 1 |-> IF k <= p THEN s[k] ELSE s[k + 1]]

Answers(b, p) ==
  /\ out' = [is |-> b, at |-> p] /\ pc' = "idle"
  /\ UNCHANGED <<op, arg, i, j, m>>

\* insert
Insert ==
  /\ op = "insert"
  /\ \/ pc = "ok" /\ Answers(FALSE, m) /\ UNCHANGED vec
     \/ pc = "err" /\ Answers(TRUE, i) /\ vec' = InsertAt(vec, i, arg)

\* delete
Delete ==
  /\ op = "delete"
  /\ \/ pc = "ok" /\ Answers(TRUE, m) /\ vec' = RemoveAt(vec, m)
     \/ pc = "err" /\ Answers(FALSE, i) /\ UNCHANGED vec

\* contains and try_select
Contains ==
  /\ op = "contains"
  /\ \/ pc = "ok" /\ Answers(TRUE, m)
     \/ pc = "err" /\ Answers(FALSE, i)
  /\ UNCHANGED vec

\* need_to_split and halve; either half may be the node that is kept on.
Halve ==
  /\ pc = "idle" /\ Len(vec) >= Border
  /\ \/ vec' = SubSeq(vec, 1, Half(Len(vec)))
     \/ vec' = SubSeq(vec, Half(Len(vec)) + 1, Len(vec))
  /\ UNCHANGED <<pc, op, arg, i, j, m, out>>

Search == Equal \/ Less \/ Greater \/ Miss
Finish == Insert \/ Delete \/ Contains

Next == Call \/ Search \/ Finish \/ Halve

Spec == Init /\ [][Next]_vars

-----------------------------------------------------------------------------
(* Properties                                                              *)

TypeOK ==
  /\ vec \in Seq(Int)
  /\ pc \in {"idle", "search", "ok", "err"}
  /\ op \in {"insert", "delete", "contains"} /\ arg \in Int
  /\ i \in Nat /\ j \in Nat /\ m \in Nat /\ out \in Answer

\* The claim that licenses get_unchecked in search: while the range is not
\* empty the probe lies in it, and the range lies in the vector.
ProbesInBounds ==
  pc = "search" /\ i # j => i <= m /\ m < j /\ j <= Len(vec)

\* A step of the search loop that does not end it leaves a strictly smaller
\* range, never a negative one: the loop of search ends.
EveryProbeNarrows ==
  [][Search /\ pc' = "search" => 0 <= j' - i' /\ j' - i' < j - i]_vars

\* The vector is strictly increasing, whatever was inserted, deleted or split
\* off before: the precondition of the next search.
Ascending(s) == \A a, b \in 1 .. Len(s) : a < b => s[a] < s[b]
StaysAscending == Ascending(vec)

Elements(s) == {s[k] : k \in 1 .. Len(s)}

\* insert, delete and contains act on the set of elements: each reports
\* whether the value was there, the position is where the value is or goes,
\* and no other element comes, goes or is duplicated.
Reported(present) == out'.is = IF op = "insert" THEN ~present ELSE present
Placed == \A k \in 1 .. Len(vec) : vec[k] < arg <=> k <= out'.at
Kept ==
  Elements(vec') = CASE op = "insert" -> Elements(vec) \cup {arg}
                     [] op = "delete" -> Elements(vec) \ {arg}
                     [] OTHER         -> Elements(vec)
CallsActOnTheSet ==
  [][Finish => Reported(arg \in Elements(vec)) /\ Placed /\ Kept]_vars

=============================================================================
