SPECIFICATION Spec
CONSTANTS
  a1 = a1
  a2 = a2
  r1 = r1
  Infrastructure <- MCInfrastructure
  Layer <- MCLayer
  Params <- MCParams
  Wired <- MCWired
  MayBreak <- MCMayBreak
  MayLack <- MCMayLack
  Task = {a1, a2, r1}
  Script <- MCScript
  Capacity = 2
  Prefetch = 1
  Consumer = {"ai"}
  Replicas = {TRUE, FALSE}
  Request = {r1}
  QueueOf <- MCQueueOf
INVARIANTS BoundInAnyOrder NothingMissing ConnectionsAccounted WaitsNotCircular OpenWhileServing AnswersStamped
PROPERTIES ShutdownEnds
CHECK_DEADLOCK FALSE
