CONSTANTS
  Content = {a, b}
  NoFile = NoFile
  Docker = Docker
  Host = {h1, h2}
  j1 = j1
  Judge = {j1}
  JudgeOf <- MCJudgeOf
  MaxInputs = 2
  MaxOutputs = 2
SPECIFICATION Spec
SYMMETRY MCSymmetry
INVARIANTS
  TypeOK
  RunHasItsFiles
  NothingDangles
  TransfersFindTheirFile
