\* Requests one at a time, from an empty organisation, two broken streams
\* or restarts, fair goroutines.
CONSTANTS
  p1 = p1 p2 = p2 t1 = t1 t2 = t2 h1 = h1 h2 = h2
  Policies <- TwoPolicies
  Requests <- Lifecycle
  Tasks <- TwoTasks
  Handlers <- TwoHandlers
  MaxMutations = 4
  FaultKinds <- Restarts
  MaxFaults = 2
  Patient = TRUE
SPECIFICATION FairSpec
INVARIANT Converged
PROPERTIES NoResurrection IsReplica EventuallyEnforced
CHECK_DEADLOCK FALSE
