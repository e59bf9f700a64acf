SPECIFICATION Spec
CONSTANTS
  NumTemps = 10
  NumVars = 2
  NumArgs = 2
  NumRegs = 11
  NumSpills = 16
  NumSlots = 2
  Blocks <- AmpleBlocks
INVARIANTS
  TypeOK
  RegisterFile
  ValuesKept
PROPERTY
  HomesFollow
