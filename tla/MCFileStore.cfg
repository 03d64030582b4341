CONSTANTS
  empty = empty
  long = long
  Content <- MCContent
  Blocks <- MCBlocks
  Saver = {s1, s2, s3}
  Reader = {r1}
  TmpName = {n1, n2}
  None = None
SPECIFICATION Spec
SYMMETRY MCSymmetry
INVARIANTS
  TypeOK
  ReadsAreWhole
  TmpFilesOwned
PROPERTIES
  ImplementsContentStore
