SPECIFICATION Spec
CONSTANTS
  Goroutine = {g1, g2, g3}
  Stem = {wishlist}
  MaxS = 3
  None = None
  Idle = Idle
SYMMETRY Symmetry
INVARIANTS
  TypeOK
  RegisteredIsFound
  AnswersAreRegistered
  ResolvesByName
