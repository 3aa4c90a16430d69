\* Two events, one fault of any kind, a queue of one.
CONSTANTS
  Commands <- AllCommands
  SnapshotCommands <- Snapshots
  EarlyCommands <- Early
  FinalCommands <- Final
  MaxSeq = 2
  QueueCap = 1
  FaultKinds <- AllFaults
  MaxFaults = 1
SPECIFICATION Spec
INVARIANTS TypeOK AckedReceived AckFollowsHandler
PROPERTY KeepsPromise
CHECK_DEADLOCK FALSE
