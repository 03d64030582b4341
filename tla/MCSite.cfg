CONSTANTS
  Insider = bi
  Outsider = bo
  Browser = {bi, bo}
  Secret = secret
  Guess = guess
  Knows <- MCKnows
  Root = a
  UserName = {a, b, c}
  RootPassword = secret
  Password = {secret, guess}
  Cpp = cpp
  LanguageName = {cpp, other}
  Script = {s}
  Blank = blank
  Edit = {e1, e2}
  MaxUsers = 3
  Suffix = {1, 2, 3}
  Declarations <- MCDeclarations
  Contestant = {u}
  Task = {t1, t2}
  Post = {p1, p2, p3}
  Groups = 2
  Gains = {1}
  LastSecond = 1
SPECIFICATION FairSpec
INVARIANTS
  OutsidersNeedInsiders
  ImportedAsDeclared
  BoardAgreesWithList
PROPERTIES
  ImportEnds
CHECK_DEADLOCK FALSE
