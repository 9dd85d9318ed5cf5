SPECIFICATION FairSpec
CONSTANTS
  Task = {"a", "b"}
  Value = {1, 2}
  None = None
  Writer = {"w1", "w2"}
  Backends = {"etcd", "redis", "consul", "zookeeper"}
  ChanSize <- MCChanSize
  MaxOps = 3
INVARIANTS TypeOK
PROPERTIES ToldConverges RemovalsTold WatchReturns
CHECK_DEADLOCK FALSE
