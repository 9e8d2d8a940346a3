CONSTANTS
  hello = hello  human = human  other = other  voice = voice
  alice = alice  bob = bob
  Request = {r1, r2}
  Message <- Messages
  Customer <- Customers
  Agent = {agent1}
  Sender <- SenderOf
  Kind <- KindOf
  AsksHuman <- HumanWanted
  Payload <- Mixed
  MaxBatch = 2
  UseReplica = FALSE
  MayFail = {"database", "broker"}
  BrokenCalls <- AllBroken
  Prefetch = 2
  MaxFaults = 0
  None = None
SYMMETRY RequestSymmetry
SPECIFICATION Spec
INVARIANTS TypeOK RequestsProcessedInOrder
PROPERTIES DoubledOnlyByRaces
CHECK_DEADLOCK FALSE
