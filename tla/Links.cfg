CONSTANTS
  None = None
  Row = {r1}
  Target = {t1, t2}
  Var = {own, element}
  Slice = {element}
  Plain = {own}
  Book = {b1}
  Cell = {1, 2, 3, 4}
SPECIFICATION Spec
INVARIANTS
  TypeOK
  
