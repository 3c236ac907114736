SPECIFICATION Spec
CONSTANTS
  ka = ka
  kb = kb
  NRecords = 2
  MaxChanges = 2
  MaxBusy = 3
  Groups = {ka, kb}
  Contribs <- MCContribs
  Appliers = {a1, a2}
  Rebuilders = {b1, b2}
  MaxVersion = 2
  MaxGen = 2
  None = None
CONSTRAINT Bounded
CHECK_DEADLOCK FALSE
SYMMETRY Symmetry
INVARIANTS GroupsAddUp NoChangeLost GenerationsApart
PROPERTIES RevisionsForward
