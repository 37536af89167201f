SPECIFICATION SimSpec
CONSTANTS
  Beatmaps <- MCBeatmaps
  KeyStates <- MCKeyStates
  Cursors <- MCCursors
  Steps <- MCSteps
  MaxFrames = 3
  Marker = 9
  Window300 = 1
  Window100 = 2
  Window50 = 3
  Radius = 1
  FollowRadius = 2
  BREAK_MS = 2
  AFTER_SPINNER_MS = 1
  None = None
\* The recording ends.
CHECK_DEADLOCK FALSE
INVARIANTS
  BitsAreDownFromPressToRelease
  MatchingKeepsOrder
  PressesGoToTheEarliestOpenObject
  PartsAreJudgedOnTheNextUpdate
  TrackingIsAcquiredThenKept
  TimedHitsAreRhythm
  OwnCountsReproduce
  LongestComboIsARun
  ShownBreaksAreMissedPoints
