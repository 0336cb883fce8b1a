\* Three transactions that all commit: two can race for the end of the list
\* while the third walks it.
CONSTANTS
  Txn = {t1, t2, t3}
  Root = Root
  NoContext = NoContext
  INITIAL_TRANSACTION_ID = 1
  INITIAL_COMMIT_ID = 1
SPECIFICATION FairSpec
INVARIANTS
  InvariantNotViolated
  CallbackFiresOnce
PROPERTIES
  ImplementsCommitOrder
  ReturnedIsVisible
  EveryCommitReturns
