CONSTANTS
  Job = {j1, j2, j3}
  Prefetch = 2
  MaxFaults = 2
SPECIFICATION FairSpec
INVARIANTS RedeliveredOnlyAfterFault OutstandingHasCallback
PROPERTIES SettledForGood JobsSettle
CHECK_DEADLOCK FALSE
