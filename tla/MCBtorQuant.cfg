SPECIFICATION Spec
CONSTANT
  Problems <- MCProblems
INVARIANTS PassesKeepTruth AnswerRight NewCounterExample ResultsAgree
PROPERTY Answers
CHECK_DEADLOCK FALSE
