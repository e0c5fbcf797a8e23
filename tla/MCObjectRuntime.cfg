SPECIFICATION Spec
CHECK_DEADLOCK FALSE
CONSTANTS
  IsProgram <- AllPrograms
  MaxStructFields = 3
  MaxStructDepth = 2
  MaxStructSize = 24
  MaxLayoutReferences = 4
  MaxMapEntries = 9
  MaxFrames = 6
INVARIANTS
  DispatchExact
  EffectsSound
  LayoutSound
  TypeTestsAgree
  LoweringVerifies
  ConstructionOrder
