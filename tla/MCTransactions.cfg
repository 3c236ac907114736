SPECIFICATION Spec
CONSTANTS
  NRecords = 3
  Resources = {"A", "B"}
  ResourceOf <- MCResourceOf
  Keys = {k1, k2}
  Txs = {t1, t2}
  MaxMutations = 2
  MaxWrites = 2
  None = None
SYMMETRY Symmetry
CONSTRAINT Bounded
CHECK_DEADLOCK FALSE
INVARIANTS ClaimsExact GuardedSnapshots
PROPERTIES Serializable
