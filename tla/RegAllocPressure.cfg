SPECIFICATION Spec
CONSTANTS
  NumTemps = 14
  NumVars = 2
  NumArgs = 2
  NumRegs = 3
  NumSpills = 5
  NumSlots = 2
  Blocks <- PressureBlocks
INVARIANTS
  SpillArea
  ValuesKept
PROPERTY
  Allocates
