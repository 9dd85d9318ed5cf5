SPECIFICATION FairSpec
CONSTANTS
  Node = {"n1", "n3"}
  Backends = {"etcd", "redis", "consul", "zookeeper"}
  Instant = {4, 6}
  Second = 2
  KeyLife = 5
  Threshold = 7
  Offset <- MCOffset
  MaxOffset = 2
  Zone <- MCZone
  MayStop <- MCStop
  MaxLate = 1
  MaxCall = 1
  MaxNow = 14
INVARIANTS TypeOK AtMostOnce RefusedOnlyOnce
PROPERTIES ImplementsExecOnce KeysGo
CHECK_DEADLOCK FALSE
