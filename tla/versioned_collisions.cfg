SPECIFICATION Spec
CONSTANTS
  None = None
  Senders = {s1, s2}
  Type <- Pin
  Value <- MCValue
  Initial <- AnyOne
  Starts <- MCValue
  Diff <- MCDiff
  ApplyDelta <- MCApplyDelta
  Fp <- NarrowFp
  InOrder = FALSE
  MaxVersion = 2
  MaxSnapshots = 1
SYMMETRY SenderSymmetry
INVARIANTS
  FingerprintAgrees
