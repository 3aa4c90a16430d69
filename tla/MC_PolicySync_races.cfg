\* Two requests at a time, one fault of any kind.
CONSTANTS
  p1 = p1 p2 = p2 t1 = t1 t2 = t2 h1 = h1 h2 = h2
  Policies <- OnePolicy
  Requests <- AllKinds
  Tasks <- TwoTasks
  Handlers <- TwoHandlers
  MaxMutations = 3
  FaultKinds <- AllFaults
  MaxFaults = 1
  Patient = FALSE
SPECIFICATION Spec
INVARIANT AckedReached
PROPERTY StoredVersionsGrow
SYMMETRY Slots
CHECK_DEADLOCK FALSE
