SPECIFICATION Spec
CONSTANTS
  i1 = i1
  i2 = i2
  Primary = p
  Replica = r
  Nodes = {p, r}
  Calls = {c1, c2, c3}
  Ids = {i1, i2}
  Articles <- TwoModels
  Nil = Nil
  IndexKind = "hnsw"
  Serial = TRUE
  MaxCrashes = 0
  MaxStoreErrors = 0
  MaxLost = 0
INVARIANTS
  ExactCopy
  IndexMirrorsTable
PROPERTIES
  AtomicStore
