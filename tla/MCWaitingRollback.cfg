SPECIFICATION SpecAll
CONSTANTS
  Subjects = {"transaction"}
  r1 = r1
  r2 = r2
  w1 = w1
  w2 = w2
  Client = Client
  Op = {r1, r2, w1, w2}
  ReadWrite = {w1, w2}
  Plans <- IndependentPlans
  Commit = {"explicit"}
  q1 = q1
  q2 = q2
  q3 = q3
  j1 = j1
  j2 = j2
  Task = {q1, q2, q3, j1, j2}
  Spawn <- Spawned
  Priority <- TaskPriority
  MAX_WORKERS_PER_CORE = 2
  MAX_WORKERS_PER_CORE_JOBTASKS = 1
  NoTask = notask
CHECK_DEADLOCK FALSE
INVARIANT
  NoOperatorDuringRollback
