SPECIFICATION ReadsSpec
CONSTANTS
  i1 = i1
  Primary = p
  Replica = r
  Nodes = {p, r}
  Calls = {c1, c2}
  Reads = {q1}
  Ids = {i1}
  Articles <- OneArticle
  Nil = Nil
  IndexKind = "hnsw"
  Serial = FALSE
  MaxCrashes = 1
  MaxStoreErrors = 1
  MaxLost = 1
SYMMETRY CallSymmetry
INVARIANTS
  ReadsTypeOK
  ReadsSeeAcknowledged
  ReadsForgetDeleted
