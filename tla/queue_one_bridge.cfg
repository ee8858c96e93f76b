CONSTANTS
  Node <- TwoNodes
  QueueOf <- MCQueueOf
  Addr <- OwnAddr
  Id = {"a", "b"}
  IdOf <- MCIdOf
  Kind <- AllValid
  Rank <- MCRank
  Bridge = {"edge"}
  Name <- OneName
  Nobody = Nobody
  NoNode = NoNode
  DryRun = FALSE
  MaxSubmits = 2
  MaxFaults = 1
  MaxCrashes = 1
SPECIFICATION Spec
INVARIANTS
  TypeOK
  OncePerRun
  NeverLost
  AcknowledgedMeansPosted
  ExpiredMeansUntouched
PROPERTIES
  NoPostAfterResult
  ResultsOnlyDowngrade
