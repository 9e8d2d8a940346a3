CONSTANTS
  hello = hello  human = human  other = other  voice = voice
  alice = alice  bob = bob
  Request = {r1, r2}
  Message <- Messages
  Customer <- Customers
  Agent = {agent1}
  Sender <- SenderOf
  Kind <- KindOf
  AsksHuman <- HumanWanted
  Payload <- Singles
  MaxBatch = 1
  UseReplica = FALSE
  MayFail <- AllServices
  BrokenCalls <- AllBroken
  Prefetch = 2
  MaxFaults = 1
  None = None
SPECIFICATION Spec
INVARIANTS OneActiveConversation
CHECK_DEADLOCK FALSE
