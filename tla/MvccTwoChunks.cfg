SPECIFICATION Spec
CONSTANTS
  Txn = {t1, t2}
  INVALID_TRANSACTION_ID = INVALID_TRANSACTION_ID
  INITIAL_COMMIT_ID = 1
  MAX_COMMIT_ID = 9
  InitialRows = 2
  MaxRows = 3
  ChunkSize = 2
  MaxOperators = 2
SYMMETRY TxnSymmetry
\* Every transaction may have ended.
CHECK_DEADLOCK FALSE
INVARIANTS
  RollbackUnlocks
