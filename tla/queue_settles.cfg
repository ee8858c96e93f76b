CONSTANTS
  Node <- CrossNodes
  QueueOf <- MCQueueOf
  Addr <- CrossAddr
  Id = {"a", "b"}
  IdOf <- MCIdOf
  Kind <- OneUndated
  Rank <- MCRank
  Bridge = {"edge"}
  Name <- OneName
  Nobody = Nobody
  NoNode = NoNode
  DryRun = FALSE
  MaxSubmits = 1
  MaxFaults = 1
  MaxCrashes = 1
SPECIFICATION FairSpec
PROPERTIES
  Settles
