SPECIFICATION Spec
CHECK_DEADLOCK FALSE
CONSTANTS
  IsProgram <- MCPrograms
  MaxStructFields = 3
  MaxStructDepth = 2
  MaxStructSize = 24
  MaxLayoutReferences = 4
  MaxMapEntries = 9
  ParametersOf <- MCParametersOf
  Names <- MCNames
  MaxEnumCases = 3
  MaxConstants = 3
  CompilerAbiVersion = 1
  RuntimeAbiVersion = 1
  FormatVersion = 1
  Damageable <- MCDamageable
  Damages <- Edits
  EnvelopeDamages <- MCEnvelopeDamages
  RuntimeSymbols <- MCRuntimeSymbols
INVARIANTS
  ExportsRoundTrip
  ImportFaithful
  AcceptedRegisters
  LinkAgrees
