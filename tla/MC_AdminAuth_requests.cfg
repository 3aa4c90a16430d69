CONSTANTS
  t1 = t1 t2 = t2 a1 = a1 c1 = c1 c2 = c2
  NoAdmin = NoAdmin
  Tabs <- OneTab
  Admins <- OneAdmin
  Calls <- TwoCalls
  Kinds <- AllKinds
  MaxSessions = 2
  MaxPwd = 1
  MaxFaults = 1
SPECIFICATION FairSpec
INVARIANTS TypeOK CookieReplaced
PROPERTIES SharesFlight RequestsSettle
CHECK_DEADLOCK FALSE
