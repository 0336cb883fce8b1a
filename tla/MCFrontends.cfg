SPECIFICATION Spec
CONSTANTS
  _max_response_size = 14
  Startups <- TheStartups
  Requests <- TheRequests
  Results <- TheResults
  NoTable <- TheNoTable
  NullText <- TheNullText
  MaxRequests = 2
  MaxFaults = 1
  Clients = {"console"}
  console = "console"
  Nothing = Nothing
  CacheCapacity = 2
  MaxLines = 3
  MaxSignals = 1
  Names = {"x", "d"}
  Sessions = {s1, s2}
  MaxTables = 2
  MaxPlans = 2
  NoStatement = NoStatement
  Libraries <- TheLibraries
  Paths <- ThePaths
  DummyTable = "d"
  MaxHandles = 2
  SleepTimes = {0, 1}
  Queries = {q1, q2}
  Modes = {"IndividualQueries", "PermutedQuerySet"}
  Schedulers = {TRUE, FALSE}
  clients = 2
  max_num_query_runs = 2
  MaxTasks = 4
\* A user may stop, a client may be gone, and a benchmark is done.
CHECK_DEADLOCK FALSE
INVARIANTS
  AnswersKeepProtocol
  
  
PROPERTIES
  LoopObeysOwner
  
