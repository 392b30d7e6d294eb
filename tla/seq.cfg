SPECIFICATION Spec
CONSTANTS
  None = None
  Items <- MCItems
  Inputs <- MCInputs
  Wire <- MCWire
  MaxUsize = 4
  Builds = {TRUE, FALSE}
CHECK_DEADLOCK FALSE
INVARIANTS
  TypeOK
  RoundTrip
  EmptyMeansIdentical
  OldCoordinates
  DiffNeverPanics
  ClampedIntoPlace
