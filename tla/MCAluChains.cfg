SPECIFICATION Spec
CONSTANTS
  Byte = 2
  Radix = 2
  Length = 2
  Samples <- MCSamples
  Decimals <- MCDecimals
  Bytes = 8
  Contents <- MCContents
  Inserted = 5
INVARIANTS
  ChainExact
  ChainSigned
  CountedShifts
  ConditionsOrder
  DivisionExact
  ProductExact
  FieldsExact
CHECK_DEADLOCK FALSE
