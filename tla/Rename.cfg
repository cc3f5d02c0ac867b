SPECIFICATION Spec
CONSTANTS
  Caller = {p1, p2}
  Row = {r1, r2}
  Value = {v1, v2}
  NoValue = NoValue
  MaxCall = 3
  MaxWrite = 2
  MaxFail = 2
SYMMETRY Symmetry
CHECK_DEADLOCK FALSE
INVARIANTS
  TypeOK
  OneCopyKeepsValues
  DefinitionGuardsCopy
  DefinitionMoves
