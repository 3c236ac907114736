---------------------------- MODULE MCChangesets ----------------------------
EXTENDS Changesets, TLC

Symmetry == Permutations(Callers)
=============================================================================
