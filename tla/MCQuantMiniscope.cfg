SPECIFICATION Spec
CONSTANT Problems <- MiniscopeProblems
INVARIANT AnswerRight
CHECK_DEADLOCK FALSE
