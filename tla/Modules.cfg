SPECIFICATION Spec
CONSTANTS
  Programs <- MCPrograms
  Root = "main"
INVARIANTS
  TablesHold
  NamesMean
  Decision
PROPERTY
  Decides
