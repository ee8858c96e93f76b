CONSTANTS
  Node <- ThreeNodes
  QueueOf <- MCQueueOf
  Addr <- OwnAddr
  Id = {"a", "b"}
  IdOf <- MCIdOf
  Kind <- OneInvalid
  Rank <- MCRank
  Bridge = {"edge"}
  Name <- OneName
  Nobody = Nobody
  NoNode = NoNode
  DryRun = TRUE
  MaxSubmits = 1
  MaxFaults = 1
  MaxCrashes = 1
SPECIFICATION Spec
INVARIANTS
  DryRunPostsNothing
