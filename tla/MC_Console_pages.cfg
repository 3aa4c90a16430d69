CONSTANTS
  u1 = u1
  u2 = u2
  a1 = a1
  a2 = a2
  w1 = w1
  w2 = w2
  Units <- TwoUnits
  NoUnit = NoUnit
  Pages <- AllPages
  Chosen <- OneChosen
  Initially <- OneUp
  MaxChanges = 2
  MaxCalls = 2
  Rows <- TwoRows
  NoRow = NoRow
  Owners <- OneOwner
  MaxEdits = 3
  Kinds <- AllKinds
  Parts <- AllParts
  Contents <- SomeContents
  MaxVersions = 3
  MaxFaults = 1
  MaxPolicyEdits <- PolicyEdits
  Windows <- TwoWindows
  MaxLogins = 5
SPECIFICATION FairSpec
INVARIANTS TypeOK SheetMatchesTarget CleanMeansSaved IssuerOfProvider FormIsFaithful NobodyLockedOut
PROPERTIES NothingByDefault ClosedByOwnAnswer ListCatchesUp EnrolmentSeen EditsSurviveRefetch OnlyRacesDisable
CHECK_DEADLOCK FALSE
