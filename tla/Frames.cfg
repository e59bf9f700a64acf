SPECIFICATION Spec
CONSTANTS
  Procs <- MCProcs
  Shape <- MCShape
  Main = "main"
  Data = {1}
  StackSlots = 14
INVARIANTS
  TypeOK
  FrameInPlace
PROPERTY
  Implements
