SPECIFICATION Spec
CONSTANTS
  Instances = {i1}
  Keys = {k1}
  KeyOf <- MCKeyOf
  Drivers = {d1, d2}
  Messages = {m1}
  Program <- MCShortProgram
  MaxFaults = 1
  None = None
CHECK_DEADLOCK FALSE
PROPERTIES Finishes
