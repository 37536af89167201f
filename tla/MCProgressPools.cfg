SPECIFICATION ProgressSpec
CONSTANTS
  Settings <- MCPoolSettings
  Kinds <- MCPoolKinds
  Bias = 3
  Gap = 2
  MinSideReplays = 2
  MinSideSessions = 1
  MaxPlays = 4
  MaxChanges = 2
  MaxLate = 0
  MaxLeftOut = 0
  NoEpoch <- MCNoEpoch
INVARIANTS
  AChangeIsScoredOnWhatItChanged
CHECK_DEADLOCK FALSE
