SPECIFICATION Spec
CONSTANTS
  Suites <- MCSuites
INVARIANTS
  VerdictRight
  LeavesNothing
  Counted
PROPERTIES
  KillsOnlyLate
  Implements
