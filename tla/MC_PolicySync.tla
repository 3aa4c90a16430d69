---------------------------- MODULE MC_PolicySync ----------------------------
(***************************************************************************)
(* Small instances of PolicySync.                                          *)
(***************************************************************************)
EXTENDS PolicySync, TLC

CONSTANTS p1, p2, t1, t2, h1, h2

OnePolicy   == {p1}
TwoPolicies == {p1, p2}
TwoTasks    == {t1, t2}
OneHandler  == {h1}
TwoHandlers == {h1, h2}
Slots       == Permutations(TwoTasks) \cup Permutations(TwoHandlers)

Lifecycle == {"Create", "Update", "Delete"}
AllKinds  == Lifecycle \cup {"Disable", "Enable"}
Updates   == {"Update"}
NoFaults  == {}
Restarts  == {"break", "gatewayRestart", "cpRestart"}
AllFaults == Restarts \cup {"database", "redis", "backpressure"}

(* A gateway that has applied and acknowledged the first policy.           *)
Provisioned ==
  /\ mutations = {[policy |-> p1, seq |-> 1, version |-> 1, op |-> "UPSERT"]}
  /\ rows = [p \in Policies |-> IF p = p1 THEN [version |-> 1, enabled |-> TRUE] ELSE NoRow]
  /\ acked = 1
  /\ tasks = [t \in Tasks |-> IdleTask]
  /\ alive = TRUE /\ hello = None /\ down = <<>> /\ up = <<>>
  /\ store = [p \in Policies |-> IF p = p1 THEN [seq |-> 1, version |-> 1] ELSE NoRule]
  /\ tombs = [p \in Policies |-> None]
  /\ checkpoint = 1
  /\ handlers = [h \in Handlers |-> IdleHandler]
  /\ engine = [p \in Policies |-> store[p].seq]
  /\ faults = 0 /\ reached = 1
ProvisionedSpec == Provisioned /\ [][Next]_vars
=============================================================================
