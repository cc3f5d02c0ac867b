CONSTANTS
  Nil = Nil
  Link = {l1, l2, l3}
  MaxWipes = 1
SPECIFICATION FairSpec
INVARIANTS
  ConnectTypeOK
  OpenIsUsable
PROPERTIES
  ComesBack
CHECK_DEADLOCK FALSE
