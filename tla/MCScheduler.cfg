SPECIFICATION FairSpec
CONSTANTS
  t1 = t1
  t2 = t2
  t3 = t3
  t4 = t4
  w1 = w1
  w2 = w2
  n1 = n1
  n2 = n2
  Task = {t1, t2, t3, t4}
  Worker = {w1, w2}
  Node = {n1, n2}
  Main = main
  NoTask = notask
  Workloads <- PlanAndJobs
INVARIANTS
  ExecutedOnce
  InputsPresent
  
PROPERTIES
  FinishReturns
