SPECIFICATION RolloutSpec
CONSTANTS
  Controllers = {a, b, c}
  NSteps = 3
  NUnits = 2
  Grants = {g1}
  MaxTokens = 3
  Null = Null
CHECK_DEADLOCK FALSE
SYMMETRY Symmetry
INVARIANTS StepsInOrder HolderKnows
PROPERTIES WorkKept
