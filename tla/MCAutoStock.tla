---------------------------- MODULE MCAutoStock ----------------------------
EXTENDS AutoStock, TLC

Symmetry == Permutations(Addresses)
=============================================================================
