SPECIFICATION NodeSpec
CONSTANTS
  i1 = i1
  i2 = i2
  Nodes = {n1}
  Calls = {c1, c2, c3}
  Ids = {i1, i2}
  Articles <- TwoModels
  Nil = Nil
  IndexKind = "brute"
  Serial = FALSE
  MaxCrashes = 1
  MaxStoreErrors = 0
SYMMETRY CallSymmetry
INVARIANTS
  CanRestart
