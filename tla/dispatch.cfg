CONSTANTS
  Offer <- MCOffer
  Configured = {"g1"}
  NoCommand = NoCommand
  MaxTaken <- MCTaken
  MaxFaults = 1
  MaxCrashes = 1
SPECIFICATION Spec
INVARIANTS
  TablesAgree
  SuccessIsComplete
  ZonesTogether
  OwnChangeIsSent
CHECK_DEADLOCK FALSE
