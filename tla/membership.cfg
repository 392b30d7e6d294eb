SPECIFICATION Spec
CONSTANTS
  None = None
  Kinds = {"bag", "entry", "map"}
  Keys = {1, 2}
  Scalars <- MCScalars
  Ne <- MCNe
  Inners <- MCInners
  Diff <- MCDiff
  Apply <- MCApply
  Same <- MCSame
CHECK_DEADLOCK FALSE
INVARIANTS
  RoundTrip
  EmptyMeansAgreement
  AgreementUntouched
  ImplementsCollections
