SPECIFICATION FairSpec
CONSTANTS
  Event = {e1, e2, e3}
  BufferSize = 1
  BatchChSize = 1
  batchSize = 2
  eventDelay = 1
  MaxNow = 1
INVARIANTS TypeOK Conserved DeletedWhenDue
PROPERTIES EveryKeyHandled AllReturn
CHECK_DEADLOCK FALSE
