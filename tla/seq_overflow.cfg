SPECIFICATION Spec
CONSTANTS
  None = None
  Items <- MCItems
  Inputs <- MCInputs
  Wire <- MCWire
  MaxUsize = 4
  Builds = {TRUE}
CHECK_DEADLOCK FALSE
INVARIANTS
  StillReturns
