----------------------------- MODULE Partition ------------------------------
(***************************************************************************)
(* What union-find promises: a partition of the items into sets, which a   *)
(* call of unite merges.  UnionFind is shown to implement it.              *)
(***************************************************************************)
CONSTANTS Items

VARIABLES sets

Init == sets = {{x} : x \in Items}

Unite(i, j) ==
  LET joined == {s \in sets : i \in s \/ j \in s}
  IN  sets' = (sets \ joined) \cup {UNION joined}

Next == \E i, j \in Items : Unite(i, j)

Spec == Init /\ [][Next]_sets
=============================================================================
