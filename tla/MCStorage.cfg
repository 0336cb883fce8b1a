SPECIFICATION Spec
CONSTANTS
  Null = Null
  NullRef = NullRef
  Lanes = 2
  WordBits = 3
  BlocksInMetaBlock = 2
  ByteBits = 1
  ForBlockSize = 2
  ArtPartBits = 2
  ArtParts = 2
  ArtCapacities <- TheArtCapacities
  Value = {a, b}
  Garbage = Garbage
  MaxSize = 2
  ColumnCount = 2
  max_chunk_size = 2
  MaxRows = 3
  Compressors = {c1}
  Migrators = {m1}
  Readers = {r1}
  IndexedColumns = {{1}}
  IS_DEBUG = TRUE
  Nothing = Nothing
  hardware_concurrency = 4
  hardware_nodes <- TheNodes
  HistoryCapacity = 2
  lookback = 2
  migration_count = 2
  Imbalanced <- TwiceAsHot
  Chunks = {1, 2}
  MaxCounter = 2
  MaxRounds = 2
  i1 = i1
  i2 = i2
  i3 = i3
  Inserter = {i1, i2, i3}
  NoInserter = NoInserter
  InputRows <- TheInputRows
  InputChunkSize = 2
  MaxChunkSize = 2
  InitialRows = 1
\* Every subject may come to an end.
CHECK_DEADLOCK FALSE

  
  
  
PROPERTIES
  StoredIsRead
  
  PlacementMovesHeat
