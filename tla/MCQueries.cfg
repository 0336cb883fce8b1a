SPECIFICATION Spec
CONSTANTS
  Null = Null
  Lowest <- TheLowest
  Highest = 5
  MAX_RANGES_COUNT = 2
  UlongBits = 6
  LowestFirst <- LowestOfSet
  INDEX_SCAN_ROW_COUNT_THRESHOLD = 2
  INDEX_SCAN_SELECTIVITY_THRESHOLD <- SelectivityThreshold
  max_num_iterations = 5
  jit_hash_of <- JitHashOf
  Unspecified = 77
  ViewQueries <- TheViewQueries
  Subjects = {"sql", "expression", "statistics", "join_graph", "cache"}
  Databases <- TheDatabases
  Queries <- AllQueries
  MaxRows = 2
  MaxCells = 3
  MaxPredicates = 2
  MaxVertices = 5
  MaxEdges = 7
  Keys = {k1, k2, k3}
  K = 2
  Sizes = {1, 2}
  Costs = {1, 2}
  Scale = 2
  Capacities = {1, 2}
  MaxAccesses = 6
CHECK_DEADLOCK FALSE
INVARIANT
  CcpIsComplete
PROPERTIES
  EstimatesHold
  PlansAnswerQuery
  RulesKeepPlans
  ExpressionsFollowSQL
  CachesAreCaches
