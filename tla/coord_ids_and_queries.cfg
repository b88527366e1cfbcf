SPECIFICATION Spec
CONSTANTS
  q1 = q1
  q2 = q2
  NumShards = 2
  Nodes = {0, 1}
  Calls = {c1, c2, c3}
  Queries = {q1, q2}
  Ids = {1, 2, 3}
  Articles <- Docs
  SignBit = 105
  Score <- Scores
  QueryDim <- QueryDims
  K = 1
  Nil = Nil
  IndexKind = "hnsw"
  Serial = FALSE
  MaxCrashes = 1
  MaxStoreErrors = 1
SYMMETRY CallSymmetry
INVARIANTS
  TypeOK
  FreshIds
  GetFindsInserted
  QueryReturnsTopK
CHECK_DEADLOCK FALSE
