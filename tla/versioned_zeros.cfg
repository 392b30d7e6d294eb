SPECIFICATION Spec
CONSTANTS
  None = None
  Senders = {s1}
  Type <- Gauge
  Value <- MCValue
  Initial <- FirstZero
  Starts <- AgreedZero
  Diff <- MCDiff
  ApplyDelta <- MCApplyDelta
  Fp <- MCFp
  InOrder = FALSE
  MaxVersion = 2
  MaxSnapshots = 1
INVARIANTS
  NoFalseAlarm
