SPECIFICATION FairSpec
CONSTANTS
  p1 = p1
  p2 = p2
  users = users
  follows = follows
  name = name
  age = age
  bio = bio
  str = str
  int = int
  email = email
  Process = {p1, p2}
  Table = {users, follows}
  Dst <- MCDst
  Kind <- MCKind
  Field = {name, age, bio}
  Type = {str, int}
  NoField = NoField
  Model <- MCModel
  Index = {email}
  Indexed <- MCIndexed
  NoTable = NoTable
  EarlyWrites = {users}
  MaxFail = 2
CHECK_DEADLOCK FALSE
INVARIANTS
  TypeOK
  ServesEdges
  SharedFieldsDefined
  AloneIsExact
PROPERTIES
  EveryoneMigrates
