SPECIFICATION Spec
CONSTANTS
  NumTemps = 16
  NumVars = 1
  NumArgs = 1
  Programs <- MCPrograms
INVARIANTS
  SameMeaning
  CodeWellFormed
