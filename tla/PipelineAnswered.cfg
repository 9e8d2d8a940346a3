CONSTANTS
  hello = hello  human = human  other = other  voice = voice
  alice = alice  bob = bob
  Request = {r1, r2}
  Message <- Messages
  Customer <- Customers
  Agent = {}
  Sender <- SenderOf
  Kind <- KindOf
  AsksHuman <- HumanWanted
  Payload <- Pair
  MaxBatch = 1
  UseReplica = FALSE
  MayFail = {}
  BrokenCalls = {}
  Prefetch = 2
  MaxFaults = 1
  None = None
SPECIFICATION FairSpec
PROPERTIES AnsweredOrHandedOver
CHECK_DEADLOCK FALSE
