SPECIFICATION Spec
CONSTANTS
  Programs <- MCPrograms
  MaxInstances = 2
  MaxFree = 1
  MaxLayers = 2
INVARIANTS
  NothingShared
  ShadowExact
  RefsExact
CHECK_DEADLOCK FALSE
