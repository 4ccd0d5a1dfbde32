SPECIFICATION Spec
CONSTANTS
  Fields = {"timeout", "paths"}
  Values = {0, 1}
  BadValues = {0}
  Absent = Absent
  Bodies <- MCBodies
  BadOverride <- MCBad
  RollbackTicks = 4
  MaxQueue = 1
  MaxWrites = 2
  MaxFaults = 1
INVARIANT OverrideOnTrial
CHECK_DEADLOCK FALSE
