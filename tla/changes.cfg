SPECIFICATION FairSpec
CONSTANTS
  Item = {"a", "b"}
  Backends = {"etcd", "redis", "consul", "zookeeper"}
  Topics = {"nodes", "deleted"}
  ChanSize = 1
  MaxOps = 3
INVARIANTS TypeOK NoWakeUpLost
PROPERTIES SeenConverges WatcherEnds
CHECK_DEADLOCK FALSE
