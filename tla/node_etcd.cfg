SPECIFICATION Spec
CONSTANTS
  Task = {"a"}
  Meta <- MCMixed
  None = None
  Backend = "etcd"
  ValidFormat = {"f1", "f2"}
  View <- MCAlone
  NoNodes = "none"
  Owns <- MCOwns
  Goroutine = {g1, g2}
  RebalancedChanelSize = 1
  Enabled = {"addJob", "AddTaskMeta", "ForceAddTask", "ForceAddTaskMeta", "ReuseDeletedTask", "MarkTaskDeleted", "CleanupTask", "ForceCleanupAllTasks", "remote PutTask", "remote ForceCleanupTask", "nodes change", "cron fires", "restart"}
  Faults = {"PutTask", "MarkTaskDeleted", "RemoveTaskDeleted", "ForceCleanupAllTasks", "GetAllTasks", "GetDeletedTaskNames"}
  MaxOps = 2
SYMMETRY MCSymmetry
INVARIANTS TypeOK OneEntryPerTask NoOrphanEntry FormatCurrent
CHECK_DEADLOCK FALSE
