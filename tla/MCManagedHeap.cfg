\* Three objects, nested calls, arrays and arguments up to length two.
SPECIFICATION Spec
CONSTANTS
  Address = {a1, a2, a3}
  Null = null
  None = none
  ObjectShapes <- MCObjectShapes
  StringSize = 1
  ArraySize = 2
  PointerSize = 1
  ErrorSize = 3
  Floor = 5
  MaxBytes = 6
  MaxCount = 4
  MaxCollections = 1
  SlotCount = 1
  MaxDepth = 2
  MaxLength = 2
INVARIANTS
  HeapInv
  NoDangling
  OperandsLive
  Accounting
  ThresholdBound
  ArgumentsBuilt
  PreciseCollection
PROPERTIES
  ImplementsContract
  RequestSettles
