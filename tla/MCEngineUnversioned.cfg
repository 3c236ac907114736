CONSTANTS
  Clients = {c1, c2}
  Ids = {r1, r2}
  Keys = {k1}
  IdemKeys = {}
  Statuses = {"draft", "active", "void"}
  Initial = "draft"
  Transitions <- MCTransitions
  ClaimedIn = {"draft", "active", "void"}
  Operations = {"create", "update"}
  Decorators <- MCUnversioned
  MaxCommits = 4
  None = None
  Self = Self
SPECIFICATION Spec
SYMMETRY Symmetry
INVARIANT UniqueKeys
