SPECIFICATION Spec
CONSTANTS
  None = none
  Bodies <- MCBodies
INVARIANTS
  PhiNamesPredecessors
  ReachesSuccessors
