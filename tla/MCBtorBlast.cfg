SPECIFICATION Spec
CONSTANTS
  Programs <- MCPrograms
  FindLimit = 2
INVARIANTS AigsExact VectorsExact AnswersExact
CHECK_DEADLOCK FALSE
