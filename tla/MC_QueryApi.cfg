SPECIFICATION Spec
CONSTANTS
  Backends = {"sqlite", "postgres"}
  Null = Null
  Devices = {1, 2}
  Times = {1, 2}
  Batches <- MCBatches
  Budgets <- MCBudgets
  Walks <- MCWalks
  DefaultLimit = 1
  MaxLimit = 3
INVARIANTS
  WalkExact
  NoFileBehind
  SearchIsSubstring
  StoredVerbatim
CHECK_DEADLOCK FALSE
