SPECIFICATION Spec
CONSTANTS
  r1 = r1
  r2 = r2
  r3 = r3
  Client = {c1, c2}
  Record <- Records
  Tables <- MCTables
  None = None
  MaxLen = 2
  MaxCopies = 2
  MaxCalls = 3
SYMMETRY Symmetry
CHECK_DEADLOCK FALSE
INVARIANTS
  TypeOK
  
  FreshLinksAreSingle
  QuietReplaceIsExact
