SPECIFICATION FairSpec
CONSTANTS
  Node = {"n1", "n2"}
  Steady = {"n2"}
  Backends = {"etcd"}
  MaxStarts <- MCStarts
  MaxTroubles <- MCNone
PROPERTY CrashedForgotten
CHECK_DEADLOCK FALSE
