SPECIFICATION Spec
CONSTANTS
  Ids = {1, 2, 3}
  Vectors = {1, 2, 3, 4, 5, 6, 10}
  Queries = {6}
  Ks = {2}
  Dim <- Dims
  Sim <- HubSim
  Entries <- Inserts
  M = 2
  EfConstruction = 3
  EfSearch = 5
  EfValues = {0, 1}
  MaxLevel = 1
  MaxTall = 2
  MaxNodes = 6
  MaxTombstones = 1
INVARIANTS
  TypeOK
  LinksSound
  SearchIsExact
  SearchFills
PROPERTIES
  IsVectorIndex
CHECK_DEADLOCK FALSE
