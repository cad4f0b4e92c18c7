----------------------------- MODULE MCNodeStore -----------------------------
EXTENDS NodeStore, TLC
CONSTANTS n1, n2, n3
ThreeNodes == {n1, n2, n3}
Symmetry == Permutations(ThreeNodes)
=============================================================================
