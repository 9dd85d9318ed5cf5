SPECIFICATION FairSpec
CONSTANTS
  Node = {2, 4}
  Task = {1, 4}
  Nobody = 0
  Hash <- MCHash
  Weight <- MCWeight
  Points <- MCPoints
  SlotCount = 5
  MaxOps = 3
PROPERTIES OwnedOnceForGood
CHECK_DEADLOCK FALSE
