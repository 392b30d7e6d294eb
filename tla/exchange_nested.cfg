SPECIFICATION Spec
CONSTANTS
  None = None
  Types <- NestedTypes
  ValuesOf <- MCValuesOf
  ByteBits = 2
  StateBytes = 2
  OffsetBasis = 5
  Prime = 11
  Xor <- BitXor
CHECK_DEADLOCK FALSE
INVARIANTS
  ExpectedShapeNeverFails
