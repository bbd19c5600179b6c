---------------------------- MODULE Reclamation ----------------------------
(***************************************************************************)
(* Lifetime of published snapshots (PublishedIndex and the Drop of         *)
(* TopologyWriteGuard in src/src/concurrent/set.rs).                       *)
(*                                                                         *)
(* Readers pin the reclamation domain, load the root and dereference it.   *)
(* A publishing writer swaps the root, retires the old one and, outside    *)
(* the structural lock, may drain the backlog.  The domain (ps_reclaim) is *)
(* external: a retired snapshot may be freed once every pin that was held  *)
(* when it was retired has been dropped.  A freed address can be allocated *)
(* again.                                                                  *)
(***************************************************************************)
EXTENDS Integers, FiniteSets

CONSTANTS Thread,
          Snapshot,    \* addresses of route indexes
          Threshold    \* PUBLICATION_BACKLOG_DRAIN_THRESHOLD

VARIABLES
  current,   \* PublishedIndex.current
  live,      \* allocated snapshots
  retired,   \* snapshots handed to the domain and not yet freed
  grace,     \* pins a retired snapshot still waits for
  pinned,    \* threads that hold a pin
  pc,        \* what a thread does
  ptr        \* the snapshot a thread has a raw pointer to, or had last

vars == <<current, live, retired, grace, pinned, pc, ptr>>

Goto(t, l) == pc' = [pc EXCEPT ![t] = l]
Point(t, s) == ptr' = [ptr EXCEPT ![t] = s]

\* The structural write lock is held from the guard's creation to its drop.
Locked == \E w \in Thread : pc[w] \in {"editing", "pinned", "swapped", "retired"}

-----------------------------------------------------------------------------
(* The domain.                                                             *)

Pin(t) == pinned' = pinned \cup {t}

Unpin(t) ==
  /\ pinned' = pinned \ {t}
  /\ grace' = [s \in Snapshot |-> grace[s] \ {t}]

\* domain.retire
Retire(s) ==
  /\ retired' = retired \cup {s}
  /\ grace' = [grace EXCEPT ![s] = pinned]

\* domain.advance: free whatever has had its grace period.
Elapsed == {s \in retired : grace[s] = {}}

-----------------------------------------------------------------------------
(* Readers: get_with and lock_node_for_value.                              *)

ReaderPin(r) ==
  /\ pc[r] = "idle" /\ Pin(r) /\ Goto(r, "load")
  /\ UNCHANGED <<current, live, retired, grace, ptr>>

ReaderLoad(r) ==
  /\ pc[r] = "load" /\ Point(r, current) /\ Goto(r, "route")
  /\ UNCHANGED <<current, live, retired, grace, pinned>>

\* The node's Arc is cloned (or its guard taken), then the pin is dropped.
ReaderUnpin(r) ==
  /\ pc[r] = "route" /\ Unpin(r) /\ Goto(r, "idle")
  /\ UNCHANGED <<current, live, retired, ptr>>

-----------------------------------------------------------------------------
(* Writers: the guard's edit and its Drop.                                 *)

\* write, then snapshot (or last_is): the root is read without a pin.
WriterLock(w) ==
  /\ pc[w] = "idle" /\ ~Locked
  /\ Point(w, current) /\ Goto(w, "editing")
  /\ UNCHANGED <<current, live, retired, grace, pinned>>

\* A guard that is not dirty publishes nothing.
WriterUnlockClean(w) ==
  /\ pc[w] = "editing" /\ Goto(w, "idle")
  /\ UNCHANGED <<current, live, retired, grace, pinned, ptr>>

WriterPin(w) ==
  /\ pc[w] = "editing" /\ Pin(w) /\ Goto(w, "pinned")
  /\ UNCHANGED <<current, live, retired, grace, ptr>>

\* replace: allocate the new root and swap it in.
WriterReplace(w) ==
  /\ pc[w] = "pinned"
  /\ \E s \in Snapshot \ live :
       /\ live' = live \cup {s}
       /\ current' = s
  /\ Point(w, current) /\ Goto(w, "swapped")
  /\ UNCHANGED <<retired, grace, pinned>>

WriterRetire(w) ==
  /\ pc[w] = "swapped" /\ Retire(ptr[w]) /\ Goto(w, "retired")
  /\ UNCHANGED <<current, live, pinned, ptr>>

\* Drop the pin and the structural lock.
WriterUnlock(w) ==
  /\ pc[w] = "retired" /\ Unpin(w) /\ Goto(w, "advance")
  /\ UNCHANGED <<current, live, retired, ptr>>

\* advance, below or at the backlog threshold.
WriterAdvance(w) ==
  /\ pc[w] = "advance" /\ Goto(w, "idle")
  /\ \/ /\ Cardinality(retired) < Threshold
        /\ UNCHANGED <<live, retired>>
     \/ /\ Cardinality(retired) >= Threshold
        /\ live' = live \ Elapsed /\ retired' = retired \ Elapsed
  /\ UNCHANGED <<current, grace, pinned, ptr>>

-----------------------------------------------------------------------------
Init ==
  /\ current \in Snapshot /\ live = {current} /\ retired = {}
  /\ grace = [s \in Snapshot |-> {}]
  /\ pinned = {}
  /\ pc = [t \in Thread |-> "idle"] /\ ptr \in [Thread -> Snapshot]

ReaderStep(r) == ReaderPin(r) \/ ReaderLoad(r) \/ ReaderUnpin(r)
WriterStep(w) ==
  \/ WriterLock(w) \/ WriterUnlockClean(w) \/ WriterPin(w) \/ WriterReplace(w)
  \/ WriterRetire(w) \/ WriterUnlock(w) \/ WriterAdvance(w)

Next == \E t \in Thread : ReaderStep(t) \/ WriterStep(t)

Spec == Init /\ [][Next]_vars

-----------------------------------------------------------------------------
(* Properties.                                                             *)

\* No raw pointer is dereferenced after its snapshot was freed: neither by a
\* reader between its load and its unpin, nor by a writer that reads the root
\* under the structural lock without any pin (last_is, snapshot), whatever
\* other writers drain meanwhile outside the lock.
NoUseAfterFree ==
  /\ \A r \in Thread : pc[r] = "route" => ptr[r] \in live
  /\ \A w \in Thread : pc[w] \in {"editing", "pinned"} => ptr[w] = current /\ current \in live

\* Every allocated snapshot has exactly one owner: it is the published root,
\* or was unlinked by the one writer about to retire it, or waits in the
\* domain.  So none is freed twice and none leaks.
OneOwnerEach ==
  LET unlinked == {ptr[w] : w \in {v \in Thread : pc[v] = "swapped"}}
  IN  /\ live = {current} \cup unlinked \cup retired
      /\ current \notin retired \cup unlinked
      /\ unlinked \cap retired = {}

\* Every variable holds a value of its type.
TypeOK ==
  /\ current \in Snapshot /\ live \in SUBSET Snapshot /\ retired \in SUBSET Snapshot
  /\ grace \in [Snapshot -> SUBSET Thread] /\ pinned \in SUBSET Thread
  /\ pc \in [Thread -> {"idle", "load", "route", "editing", "pinned", "swapped", "retired", "advance"}]
  /\ ptr \in [Thread -> Snapshot]

-----------------------------------------------------------------------------
(* The strengthening that makes the two inductive.                         *)

\* A thread is pinned exactly where the code holds a pin.
PinInv ==
  pinned = {t \in Thread : pc[t] \in {"load", "route", "pinned", "swapped", "retired"}}

\* One writer at a time is inside the structural lock.
LockInv ==
  \A v, w \in Thread :
    pc[v] \in {"editing", "pinned", "swapped", "retired"} /\
    pc[w] \in {"editing", "pinned", "swapped", "retired"} => v = w

\* A snapshot a reader routes in is the root, or was unlinked by a writer
\* about to retire it, or its grace period includes the reader.
GraceInv ==
  \A r \in Thread : pc[r] = "route" =>
    \/ ptr[r] = current
    \/ \E w \in Thread : pc[w] = "swapped" /\ ptr[w] = ptr[r]
    \/ ptr[r] \in retired /\ r \in grace[ptr[r]]

IInv == TypeOK /\ PinInv /\ LockInv /\ OneOwnerEach /\ GraceInv /\ NoUseAfterFree
=============================================================================
