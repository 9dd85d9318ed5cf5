SPECIFICATION Spec
CONSTANTS
  Node = {"n1", "n3"}
  Backends = {"etcd", "consul", "zookeeper"}
  Instant = {4}
  Second = 2
  KeyLife = 5
  Threshold = 7
  Offset <- MCOffset
  MaxOffset = 2
  Zone <- MCZone
  MayStop <- MCStopAll
  MaxLate = 1
  MaxCall = 1
  MaxNow = 14
INVARIANT AtMostOnce
CHECK_DEADLOCK FALSE
