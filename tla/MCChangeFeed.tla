---------------------------- MODULE MCChangeFeed ----------------------------
(***************************************************************************)
(* Small instances of ChangeFeed.                                          *)
(***************************************************************************)
EXTENDS ChangeFeed, TLC

\* A set that starts empty.
Empty == {[n \in Node |-> {}]}

NodeSymmetry == Permutations(Node)
=============================================================================
