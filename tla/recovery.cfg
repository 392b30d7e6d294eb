SPECIFICATION RecoverySpec
CONSTANTS
  None = None
  Senders = {s1}
  Type <- Dial
  Value <- MCValue
  Initial <- BothOff
  Starts <- MCValue
  Diff <- MCDiff
  ApplyDelta <- MCApplyDelta
  Fp <- MCFp
  InOrder = TRUE
  MaxVersion = 3
  MaxSnapshots = 1
INVARIANTS
  InStep
PROPERTIES
  
  OnlyResendRecovers
  Converges
