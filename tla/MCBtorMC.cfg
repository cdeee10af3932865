SPECIFICATION Spec
CONSTANTS
  State <- MCState
  Input = {1}
  Inits <- MCInits
  Nexts <- MCNexts
  Bads <- MCBads
  Constraints <- MCConstraints
  MinBounds = {0, 1}
  MaxBounds = {1, 3}
  MaxBad = 2
  ReadTimes = {1}
  Calls <- ByOption
  FirstOptions = {"stopFirst", "kind", "simplePath"}
  LateOptions = {"stopFirst", "kind"}
INVARIANTS ReachedExact ProofsSound WitnessStands
PROPERTY CallReturns
