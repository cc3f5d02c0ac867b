SPECIFICATION FairSpec
CONSTANTS
  Session = {s1, s2}
  Txn = {t1}
  Shared = Shared
  Row = {a, b}
  Seeded = {a}
  Owner = {a}
  Target = {a, b}
  Edge = {e1, e2}
  NoEnds = NoEnds
  Same = Same
  NoJob = NoJob
  MaxOp = 2
CHECK_DEADLOCK FALSE
INVARIANTS
  TypeOK RoutedWritesAreTransactional ReportsAreTrue SavedRowHasItsEdges
PROPERTIES
  ImplementsTxStore EveryTxEnds
