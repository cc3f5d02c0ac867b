SPECIFICATION Spec
CONSTANTS
  Client = {c1, c2}
  Id = {r1, r2}
  Text = {a}
  NoId = NoId
  Zero = Zero
  Missing = Missing
  Absent = Absent
  None = None
  MaxCall = 2
SYMMETRY Symmetry
CHECK_DEADLOCK FALSE
INVARIANTS
  UpsertStores
