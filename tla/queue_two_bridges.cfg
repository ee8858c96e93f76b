CONSTANTS
  Node <- OneNode
  QueueOf <- MCQueueOf
  Addr <- OwnAddr
  Id = {"a", "b"}
  IdOf <- MCIdOf
  Kind <- AllValid
  Rank <- MCRank
  Bridge = {"east", "west"}
  Name <- OwnName
  Nobody = Nobody
  NoNode = NoNode
  DryRun = FALSE
  MaxSubmits = 2
  MaxFaults = 1
  MaxCrashes = 1
SPECIFICATION Spec
INVARIANTS
  PostsWithinSubmissions
PROPERTIES
  KeepsContract
