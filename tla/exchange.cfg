SPECIFICATION Spec
CONSTANTS
  None = None
  Types <- MCTypesExchanged
  ValuesOf <- MCValuesOf
  ByteBits = 2
  StateBytes = 2
  OffsetBasis = 5
  Prime = 11
  Xor <- BitXor
CHECK_DEADLOCK FALSE
INVARIANTS
  RoundTrip
  NoneMeansEqual
  MismatchIsReal
  TouchesOnlyDifferences
  FingerprintTellsApart
  OrderUnseen
PROPERTIES
  TwiceHarmless
