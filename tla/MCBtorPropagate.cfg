SPECIFICATION Spec
CONSTANTS
  Graphs <- MCGraphs
  Val = {0, 1}
  NULL = NULL
INVARIANTS LemmasSound AcceptsOnlyConsistent
PROPERTY CheckEnds
CHECK_DEADLOCK FALSE
