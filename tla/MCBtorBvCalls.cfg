SPECIFICATION Spec
CONSTANTS
  LimbBits = 2
  MaxWidth = 6
  MaxConcat = 8
INVARIANTS OperationsExact RoundTrip
CHECK_DEADLOCK FALSE
