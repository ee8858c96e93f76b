CONSTANTS
  Status <- MCStatus
  Unknown = Unknown
  NoState = NoState
  MaxRounds = 3
  MaxFaults = 2
SPECIFICATION Spec
INVARIANTS
  StartIsTransition
  CountIsHonest
  SingleReported
  DualReported
  OptionsOnlySelect
CHECK_DEADLOCK FALSE
