---------------------------- MODULE MCBronzeStore ----------------------------
EXTENDS BronzeStore, TLC

CONSTANTS w1, w2, n1
Symmetry == Permutations(Writers) \cup Permutations(Readers)
=============================================================================
