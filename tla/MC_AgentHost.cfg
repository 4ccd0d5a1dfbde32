SPECIFICATION Spec
CONSTANTS
  Fields = {"timeout", "paths"}
  Values = {0, 1}
  BadValues = {0}
  Absent = Absent
  Bodies <- MCBodies
  BadOverride <- MCBad
  RollbackTicks = 1
  MaxQueue = 1
  MaxWrites = 3
  MaxFaults = 2
INVARIANTS
  StatusTruth
PROPERTIES
  StopHonoured
  ConfigConverges
CHECK_DEADLOCK FALSE
