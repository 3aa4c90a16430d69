CONSTANTS
  s1 = s1 s2 = s2 b1 = b1 b2 = b2 r1 = r1 l1 = l1 h1 = h1
  None = None
  Sessions <- OneLogin
  Callbacks <- TwoCallbacks
  Requests <- OneRequest
  Logouts <- OneLogout
  Handlers <- OneHandler
  TTL = 2
  TokenTTL = 1
  GatewayTTL = 3
  MaxTime = 3
  MaxFaults = 1
  MaxRestarts = 1
SPECIFICATION FairSpec
INVARIANT AckedIsKnown
PROPERTIES AckedNotAdmitted GivesAccess RevocationTakesEffect
CHECK_DEADLOCK FALSE
