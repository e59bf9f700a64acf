SPECIFICATION Spec
CONSTANTS
  Nil = Nil
  Structs <- MCStructs
  Procs <- MCProcs
  Locals <- MCLocals
  Globals <- MCGlobals
  Externals <- MCExternals
  Rets <- MCRets
  Programs <- MCPrograms
INVARIANTS
  Verdict
  Compiles
  EffectsKept
