CONSTANTS
  Packet = {"command", "undated"}
  EnvelopeSeq = {1}
  SeqOf <- MixedSeqs
  NoSeq = NoSeq
  Id = {"command", "undated"}
  IdOf <- OwnIds
  Kind <- OwnKinds
  Request = {"r1"}
  FirebaseId = {}
  NoPacket = NoPacket
  NoThread = NoThread
  NoId = NoId
  MaxSends = 2
  MaxFaults = 1
  MaxCrashes = 0
SPECIFICATION FairSpec
PROPERTIES
  EveryMessageHandled
  EveryRequestAnswered
CHECK_DEADLOCK FALSE
