SPECIFICATION Spec
CONSTANTS
  Exp <- MCExp
  Input = {"-a", "ab"}
  Real <- MCReal
  True = "t"
  Neg <- MCNeg
  Leaf <- MCLeaf
  World <- MCWorld
  Den <- MCDen
  NULL = NULL
  MaxLevel = 2
  MaxAssert = 2
INVARIANTS
  ContextInv
  AssumptionsFaithful
  FailedIsCore
  ModelSatisfies
PROPERTY ImplementsContext
