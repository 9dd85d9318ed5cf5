SPECIFICATION Spec
CONSTANTS
  Node = {2, 4, 6}
  Task = {4, 7}
  Nobody = 0
  Hash <- MCHash
  Weight <- MCWeight
  Points <- MCPoints
  SlotCount = 5
  MaxOps = 2
INVARIANTS TypeOK OwnedOnce SameListDisjoint SlotsEven
PROPERTIES SurvivorsKeepTasks
CHECK_DEADLOCK FALSE
