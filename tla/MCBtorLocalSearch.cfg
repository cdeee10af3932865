SPECIFICATION Spec
CONSTANTS
  Programs <- MCPrograms
  WordBits = 4
  ShiftBits = 4
  UintBits = 3
  MaxWidth = 5
  Unit = 4
  StepsFactor = 1
  MaxRestarts = 1
  MaxWeight = 2
  ProbMax = 2
  NPathSel = 1
  SegBits = 4
  UintValues = 16
INVARIANTS ConeExact PathValuesExact AigMoveFlips AnswersSound
PROPERTIES SelectMoveEnds
CHECK_DEADLOCK FALSE
