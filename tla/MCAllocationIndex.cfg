SPECIFICATION IndexSpec
CONSTANTS
  Object = {o1, o2, o3, o4, o5}
  Null = null
  InitialCapacity = 2
  MaxCapacity = 8
  HashValues <- MCHashValues
SYMMETRY ObjectSymmetry
INVARIANTS
  ProbesEnd
PROPERTIES
  ImplementsRegistry
