---------------------------- MODULE MCHashCache -----------------------------
(* HashCache on small instances; the runs are interchangeable.             *)
EXTENDS HashCache, TLC

RunSymmetry == Permutations(Runs)
=============================================================================
