SPECIFICATION Spec
CONSTANTS
  Root <- MCRoot
  Object = {0, 1, 2, 3, 4, 5, 6, 7, 8, 9, 10}
  Null = null
  Dangling = dangling
  None = none
  Bodies <- MCBodies
INVARIANTS
  ReadsExact
  SlotsPrecise
  AnalysisExact
