SPECIFICATION FairSpec
CONSTANTS
  Node = {"n1", "n2"}
  Steady = {"n2"}
  Backends = {"etcd", "redis", "consul", "zookeeper"}
  MaxStarts <- MCStarts
  MaxTroubles <- MCTroubles
INVARIANTS TypeOK
PROPERTIES ImplementsMembership StatusKept GoneStaysGone DeadForgotten ServingListed StopEnds
CHECK_DEADLOCK FALSE
