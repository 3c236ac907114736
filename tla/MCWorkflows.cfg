SPECIFICATION Spec
CONSTANTS
  Instances = {i1, i2}
  Keys = {k1}
  KeyOf <- MCKeyOf
  Drivers = {d1, d2}
  Messages = {m1}
  Program <- MCProgram
  MaxFaults = 1
  None = None
CHECK_DEADLOCK FALSE
SYMMETRY Symmetry
CONSTRAINT StartsFirst
INVARIANTS ActivityOnce SignalConsumedOnce NoStrandedSignal ActiveList OneStartPerKey
PROPERTIES InstancesRunAlone
