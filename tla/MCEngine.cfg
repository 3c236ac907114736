CONSTANTS
  Clients = {c1, c2}
  Ids = {r1, r2}
  Keys = {k1}
  IdemKeys = {i1}
  Statuses = {"draft", "active", "void"}
  Initial = "draft"
  Transitions <- MCTransitions
  ClaimedIn = {"draft", "active"}
  Operations = {"create", "update", "delete", "restore", "transition", "fence"}
  Decorators <- MCVersioned
  MaxCommits = 2
  None = None
  Self = Self
SPECIFICATION Spec
SYMMETRY Symmetry
CONSTRAINT Focus
INVARIANTS
  ClaimsExact
  DanglingOnlyByRestore
  VersionCountsEvents
  OneCommitPerReceipt
  RepliesAgree
PROPERTY RequestsAreAtomic
