CONSTANTS
  IntegerTypes <- MCIntegerTypes
  FloatFormats <- MCFloatFormats
  UnicodeScalars = {0, 1, 2}
  EnumTags = {0, 1}
  WordBits = 3
  DecimalLimit = 6
  MaxConstantNodes = 5
  MaxConstantDepth = 5
  MaxStaticConstants = 3
  MaxPackageConstantNodes = 12
  IsProgram <- Probe
SPECIFICATION Spec
INVARIANTS
  ConstantsExact
  FoldAgrees
  ConstantsVerify
CHECK_DEADLOCK FALSE
