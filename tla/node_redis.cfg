SPECIFICATION FairSpec
CONSTANTS
  Task = {"a"}
  Meta <- MCOneShot
  None = None
  Backend = "redis"
  ValidFormat = {"f1", "f2"}
  View <- MCAlone
  NoNodes = "none"
  Owns <- MCOwns
  Goroutine = {g1}
  RebalancedChanelSize = 1
  Enabled = {"AddTaskMeta", "ReuseDeletedTask", "MarkTaskDeleted", "CleanupTask", "remote MarkTaskDeleted", "remote RemoveTaskDeleted", "nodes change", "cron fires", "restart"}
  Faults = {"GetDeletedTaskNames", "PutTask"}
  MaxOps = 3
INVARIANTS CronConsistent
PROPERTIES RebalanceSettles DeletedConverges TasksDiscovered CronConverges
CHECK_DEADLOCK FALSE
