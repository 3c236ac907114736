CONSTANTS
  Sweeps = {"cron", "request"}
  Owners = {"d1"}
  OwnerOf <- MCOneOwner
  Rows = {r1}
  Subs = {s1, s2}
  LeaseMs = 1
  MaxAttempts = 2
  MaxLag = 3
  MaxCrashes = 1
  None = None
SPECIFICATION FairSpec
INVARIANTS
  DeliveredEverywhere
PROPERTIES ProgressKept EveryRowSettles
