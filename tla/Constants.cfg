SPECIFICATION Spec
CONSTANTS
  Programs <- MCPrograms
  Root = "main"
  ByteBits = 3
  Nil = Nil
INVARIANTS
  TablesMean
  Verdict
PROPERTY
  Settled
