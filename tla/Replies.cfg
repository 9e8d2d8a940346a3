SPECIFICATION Spec
CONSTANTS
  d1 = d1
  d2 = d2
  d3 = d3
  h1 = h1
  Delivery <- MCDelivery
  Human <- MCHuman
  Change <- MCChange
  HumanStage = {"hot"}
  Hits = {1, 2}
  Threshold = 75
  Window = 2
INVARIANTS LeadIsLedger MemoryIsRecent MemoryInOrder
PROPERTIES RepliesEnd
CHECK_DEADLOCK FALSE
