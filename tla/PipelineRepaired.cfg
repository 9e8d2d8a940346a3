CONSTANTS
  hello = hello  human = human  other = other  voice = voice
  alice = alice  bob = bob
  Request = {r1, r2}
  Message <- Messages
  Customer <- Customers
  Agent = {}
  Sender <- SenderOf
  Kind <- KindOf
  AsksHuman <- HumanWanted
  Payload <- Singles
  MaxBatch = 1
  UseReplica = TRUE
  MayFail <- AllServices
  BrokenCalls = {}
  Prefetch = 1
  MaxFaults = 1
  None = None
SYMMETRY RequestSymmetry
SPECIFICATION Spec
INVARIANTS JobsMatchTables CustomersKeptApart AnswersBoundedByFaults
PROPERTIES DialogueSpec
CHECK_DEADLOCK FALSE
