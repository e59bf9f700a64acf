SPECIFICATION Spec
CONSTANTS
  Programs <- Renamed
  Root = "main"
INVARIANT
  NamesMean
