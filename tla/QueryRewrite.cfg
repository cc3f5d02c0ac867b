SPECIFICATION QuerySpec
CONSTANTS
  m1 = 1
  m2 = 2
  f1 = 3
  n1 = n1
  n2 = n2
  Mine = {1, 2}
  Other = {3}
  Name = {n1, n2}
  Queries <- MCQueries
  Stores <- MCStores
  NoRow = NoRow
  NoAnswer = NoAnswer
CHECK_DEADLOCK FALSE
INVARIANTS
  QueryTypeOK
  FindMeansItsWhere
  OtherConditionsKept
