SPECIFICATION Spec
CONSTANTS
  Procedures <- MCProcedures
  Stmts <- MCStmts
  Stopping <- MCStopping
  Trapping <- MCTrapping
INVARIANTS
  Agree
  VerdictRight
  PanicsAtDeadEnds
  BlocksWellMade
