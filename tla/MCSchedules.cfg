SPECIFICATION Spec
CONSTANTS
  Ticks = {t1, t2}
  Occurrences <- MCOccurrences
  Policies <- MCPolicies
  Window = 3
  Minute = 2
  MaxTime = 4
  MaxTicks = 4
  None = None
SYMMETRY Symmetry
CHECK_DEADLOCK FALSE
INVARIANTS OneRunAtATime RunsOnce NoneForgotten IndexWakesInTime
