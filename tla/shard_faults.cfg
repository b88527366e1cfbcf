SPECIFICATION FairSpec
CONSTANTS
  i1 = i1
  i2 = i2
  Primary = p
  Replica = r
  Nodes = {p, r}
  Calls = {c1, c2}
  Ids = {i1}
  Articles <- OneId
  Nil = Nil
  IndexKind = "hnsw"
  Serial = FALSE
  MaxCrashes = 2
  MaxStoreErrors = 1
  MaxLost = 1
INVARIANTS
  TypeOK
  AckedInsertIsDurable
  LastWordCounts
  DeletesConverge
  HandlersGoOn
PROPERTIES
  EveryCallReturns
  CallsAdvance
