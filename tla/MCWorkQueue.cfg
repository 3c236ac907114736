SPECIFICATION Spec
CONSTANTS
  t1 = t1
  t2 = t2
  c1 = c1
  Tasks = {t1, t2}
  Runners = {r1, r2}
  Capabilities = {c1}
  Needs <- MCNeeds
  Priority <- MCPriority
  LeaseMs = 2
  MaxAttempts = 2
  MaxTasks = 2
  MaxEvidence = 5
  MaxRunners = 2
  MaxLag = 1
  None = None
SYMMETRY Symmetry
CONSTRAINT Bounded
INVARIANTS BeliefIsTrue EvidenceExplains
PROPERTIES TerminalIsFinal
