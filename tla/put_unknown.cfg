SPECIFICATION Spec
CONSTANTS
  Task = {"a"}
  Meta <- MCPlain
  None = None
  Backend = "etcd"
  ValidFormat = {"f1", "f2"}
  View <- MCAlone
  NoNodes = "none"
  Owns <- MCOwns
  Goroutine = {g1}
  RebalancedChanelSize = 1
  Enabled = {"remote PutTask"}
  Faults = {}
  MaxOps = 2
INVARIANT NoPanic
CHECK_DEADLOCK FALSE
