----------------------------- MODULE MCDelivery -----------------------------
(* An instance of Delivery for TLC.                                        *)
EXTENDS Delivery, TLC

Symmetry == Permutations(Workers) \cup Permutations(Contents)
=============================================================================
