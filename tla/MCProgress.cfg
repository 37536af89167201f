SPECIFICATION ProgressSpec
CONSTANTS
  Settings <- MCSettings
  Kinds <- MCKinds
  Bias = 3
  Gap = 2
  MinSideReplays = 2
  MinSideSessions = 2
  MaxPlays = 4
  MaxChanges = 2
  MaxLate = 1
  MaxLeftOut = 1
  NoEpoch <- MCNoEpoch
INVARIANTS
  AnOffsetThatWorkedIsNotContradicted
  PanelAndCommandAgreeOnThePresent
CHECK_DEADLOCK FALSE
