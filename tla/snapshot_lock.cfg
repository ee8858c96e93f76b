CONSTANTS
  Slot = {"s1"}
  NoThread = NoThread
  MaxNumber = 2
  Second = 1
  MaxClock = 2
  Changes <- G2T3Once
  Telling = {"g2"}
  MaxMessages = 2
  MaxFaults = 0
SPECIFICATION Spec
INVARIANTS
  AlertsFitCopy
  ChangeIsShown
  ReactiveRate
PROPERTIES
  SealedInOrder
  TakenInTurn
