---------------------------- MODULE MCSchedules ----------------------------
EXTENDS Schedules, TLC

(* Two instants one unit apart and one later; ticks are interchangeable.   *)
MCOccurrences == {1, 2, 4}
MCPolicies == {"skip", "allow"}
Symmetry == Permutations(Ticks)
=============================================================================
