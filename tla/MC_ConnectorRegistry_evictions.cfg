CONSTANTS
  c1 = c1 c2 = c2 m1 = m1 m2 = m2 m3 = m3 t1 = t1 t2 = t2 t3 = t3 h1 = h1 h2 = h2
  None = None
  Connectors <- OneConnector
  Subdomains <- Applications
  Serials <- TwoSerials
  Mgmt <- OneMgmt
  Tunnels <- TwoTunnels
  Owner <- OwnerTable
  Serial <- SerialTable
  Apps <- AppsTable
  Handlers <- OneHandler
  MaxCommands = 2
  MaxCloseAll = 1
  MaxSessions = 1
  MaxRestarts = 0
SPECIFICATION FairSpec
INVARIANT SessionsServed
PROPERTIES KeepsServing ClosedLeaves CutOff
CHECK_DEADLOCK FALSE
