----------------------------- MODULE MCBkTree -------------------------------
EXTENDS BkTree, TLC

TreeSymmetry == Permutations(Bits) \cup Permutations(FileIds)
=============================================================================
