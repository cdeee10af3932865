SPECIFICATION Spec
CONSTANTS
  Programs <- MCPrograms
  Values <- MCValues
  MaxWidth = 6
INVARIANTS MeaningKept LinearTermExact
CHECK_DEADLOCK FALSE
