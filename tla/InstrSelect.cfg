SPECIFICATION Spec
CONSTANTS
  ByteBits = 2
  Instrs <- MCInstrs
  Samples <- MCSamples
  Junk = 27062
INVARIANTS
  Computes
  KeepsLiveValues
  LinesWellFormed
