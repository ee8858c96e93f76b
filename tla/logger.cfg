CONSTANTS
  Limit = 2
  Status = {"closed", "open"}
  Unknown = Unknown
  NoState = NoState
  MaxRuns = 2
  MaxEvents = 3
  MaxChanges = 1
  MaxFaults = 1
  MaxCrashes = 1
SPECIFICATION FairSpec
INVARIANTS
  TypeOK
  NoHole
  CopiesBounded
  StoredIsLogged
PROPERTIES
  CatchesUp
CHECK_DEADLOCK FALSE
