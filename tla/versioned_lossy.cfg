SPECIFICATION Spec
CONSTANTS
  None = None
  Senders = {s1}
  Type <- Tracked
  Value <- MCValue
  Initial <- AnyOne
  Starts <- Agreed
  Diff <- MCDiff
  ApplyDelta <- MCApplyDelta
  Fp <- MCFp
  InOrder = FALSE
  MaxVersion = 3
  MaxSnapshots = 1
INVARIANTS
  TypeOK
  NoFalseAlarm
PROPERTIES
  ImplementsReplica
