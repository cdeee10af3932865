SPECIFICATION Spec
CONSTANTS
  Cand <- MCCand
  Consistent <- MCConsistent
  Lemma <- MCLemma
  Cuts <- MCCuts
  Report <- MCReport
  Formula <- MCFormula
  Limit <- MCLimit
  MaxRefinements = 3
  NULL = NULL
INVARIANTS AnswerSound CacheInEffect
PROPERTY CheckReturns
