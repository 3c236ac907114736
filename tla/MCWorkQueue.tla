---------------------------- MODULE MCWorkQueue ----------------------------
EXTENDS WorkQueue, TLC

CONSTANTS
  t1, t2, c1,
  MaxEvidence   \* bound: entries on all tasks together

(* An urgent task that needs a capability, and a plain one.                *)
MCNeeds == [t \in Tasks |-> IF t = t1 THEN {c1} ELSE {}]
MCPriority == [t \in Tasks |-> IF t = t1 THEN 1 ELSE 0]

(* One task may run its whole course while the other gets far enough to    *)
(* compete for claims and to expire along with it.                         *)
Bounded == Len(task[t1].history) + Len(task[t2].history) <= MaxEvidence

Symmetry == Permutations(Runners)
=============================================================================
