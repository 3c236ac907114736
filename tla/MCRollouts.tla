----------------------------- MODULE MCRollouts -----------------------------
(* An instance of Rollouts for TLC.                                        *)
EXTENDS Rollouts, TLC

Symmetry == Permutations(Controllers)
=============================================================================
