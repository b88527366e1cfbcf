SPECIFICATION SessionSpec
CONSTANTS
  NumShards = 2
  SignBit = 105
  Nodes = {0, 1}
  Calls = {1, 2, 3}
  Queries = {1}
  Ids = {1, 2, 3}
  Articles <- Docs
  Score <- Scores
  QueryDim <- QueryDims
  K = 1
  Nil = Nil
  IndexKind = "hnsw"
  Serial = TRUE
  MaxCrashes = 1
  MaxStoreErrors = 1
  ModelDim <- Dims
  Environments <- Envs
  DotEnvFiles <- Files
INVARIANTS
  SessionTypeOK
  WordsHold
  ShardsCanReopen
  PromptIsQuiet
PROPERTIES
  EveryCommandEnds
CHECK_DEADLOCK FALSE
