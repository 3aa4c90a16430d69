\* Two updates in a row, no fault.
CONSTANTS
  p1 = p1 p2 = p2 t1 = t1 t2 = t2 h1 = h1 h2 = h2
  Policies <- OnePolicy
  Requests <- Updates
  Tasks <- TwoTasks
  Handlers <- TwoHandlers
  MaxMutations = 3
  FaultKinds <- NoFaults
  MaxFaults = 0
  Patient = FALSE
SPECIFICATION ProvisionedSpec
INVARIANT Converged
CHECK_DEADLOCK FALSE
