--------------------------- MODULE MCProjections ---------------------------
EXTENDS Projections, FiniteSetsExt, TLC

CONSTANTS
  ka, kb,
  MaxChanges,  \* bound: changes of all records together
  MaxBusy      \* bound: appliers and rebuilds at work at the same time

(* Two groups and values that tell them and their sums apart.              *)
MCContribs == {[key |-> ka, value |-> 1], [key |-> kb, value |-> 2]}
Bounded ==
  /\ MapThenSumSet(LAMBDA r : record[r].version, Records) <= MaxChanges
  /\ Cardinality({a \in Appliers : apc[a] # "idle"})
       + Cardinality({b \in Rebuilders : rpc[b] # "idle"}) <= MaxBusy
Symmetry == Permutations(Appliers) \cup Permutations(Rebuilders)
=============================================================================
