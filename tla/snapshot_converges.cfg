CONSTANTS
  Slot = {"s1"}
  NoThread = NoThread
  MaxNumber = 0
  Second = 1
  MaxClock = 1
  Changes <- G1Once
  Telling = {"g1", "g2"}
  MaxMessages = 1
  MaxFaults = 1
SPECIFICATION FairSpec
PROPERTIES
  Converges
