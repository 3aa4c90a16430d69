CONSTANTS
  c1 = c1 c2 = c2 m1 = m1 m2 = m2 m3 = m3 t1 = t1 t2 = t2 t3 = t3 h1 = h1 h2 = h2
  None = None
  Connectors <- TwoConnectors
  Subdomains <- Applications
  Serials <- TwoSerials
  Mgmt <- ThreeMgmt
  Tunnels <- TwoTunnels
  Owner <- OwnerTable
  Serial <- SerialTable
  Apps <- AppsTable
  Handlers <- NoHandlers
  MaxCommands = 1
  MaxCloseAll = 0
  MaxSessions = 2
  MaxRestarts = 1
SPECIFICATION Spec
SYMMETRY Alike
INVARIANTS OpenIsRegistered RoutesExact
CHECK_DEADLOCK FALSE
