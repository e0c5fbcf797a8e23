SPECIFICATION Spec
CHECK_DEADLOCK FALSE
CONSTANTS
  IsProgram <- Construction
  MaxStructFields = 3
  MaxStructDepth = 2
  MaxStructSize = 24
  MaxLayoutReferences = 4
  MaxMapEntries = 9
  MaxFrames = 6
INVARIANT PartialStateUnreachable
