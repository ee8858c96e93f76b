CONSTANTS
  Packet = {"p1", "p2", "refresh", "refused", "malformed"}
  EnvelopeSeq = {1, 2}
  SeqOf <- TwinSeqs
  NoSeq = NoSeq
  Id = {"a", "refresh", "refused", "malformed"}
  IdOf <- TwinIds
  Kind <- TwinKinds
  Request = {"r1"}
  FirebaseId = {"a"}
  NoPacket = NoPacket
  NoThread = NoThread
  NoId = NoId
  MaxSends = 1
  MaxFaults = 1
  MaxCrashes = 1
SPECIFICATION Spec
INVARIANTS
  ConfirmedMeansHandled
  OncePerPath
  AcceptedMeansPosted
  HandlesAlone
PROPERTIES
  KeepsIngressContract
CHECK_DEADLOCK FALSE
