\* Two events, a broken stream or a restart of the control plane, room for
\* every acknowledgement, fair goroutines.
CONSTANTS
  Commands <- OneAction
  SnapshotCommands <- None
  EarlyCommands <- None
  FinalCommands <- None
  MaxSeq = 2
  QueueCap = 6
  FaultKinds <- StreamFaults
  MaxFaults = 1
SPECIFICATION FairSpec
PROPERTIES EventuallyHandled EventuallyAcked
CHECK_DEADLOCK FALSE
