SPECIFICATION Spec
CONSTANTS
  Ids = {1, 2, 3}
  Vectors = {1, 2, 3, 4, 5, 6}
  Queries = {6}
  Ks = {1}
  Dim <- Dims
  Sim <- HubSim
  Entries <- Inserts
  M = 2
  EfConstruction = 200
  EfSearch = 50
  EfValues = {}
  MaxLevel = 0
  MaxTall = 0
  MaxNodes = 6
  MaxTombstones = 0
INVARIANTS
  WellFormed
CHECK_DEADLOCK FALSE
