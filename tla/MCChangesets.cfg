SPECIFICATION Spec
CONSTANTS
  NRows = 2
  Guarded = {1}
  Modes = {"atomic", "resumable"}
  Callers = {c1, c2}
  MaxVersion = 7
  MaxCommits = 4
  None = None
SYMMETRY Symmetry
CHECK_DEADLOCK FALSE
INVARIANTS RowOnce ReportIsTrue AtomicOutcome
PROPERTIES OutcomeStands
