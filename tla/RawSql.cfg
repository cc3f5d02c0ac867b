CONSTANTS
  Half = 4
  Error = Error
  None = None
  a = a
  Client = {c1}
  MaxRows = 2
  Field = {1, 2}
  Value <- MCValue
  Name <- MCName
  Stmt <- MCStmt
  Params <- MCParams
  Start <- MCStart
  MaxStmts = 2
  MaxReads = 1
SPECIFICATION Spec
INVARIANTS
  TypeOK
  BlockMeansItsStatements
  ReportIsTrue
  CursorShowsOneState
  NumbersReadBack
CHECK_DEADLOCK FALSE
