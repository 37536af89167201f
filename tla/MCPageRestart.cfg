SPECIFICATION MCSpec
CONSTANTS
  a = a
  b = b
  none = none
  Names <- MCNames
  Nothing <- none
  Limit = 2
  MaxRuns = 2
  MaxDelay = 2
  MaxDrops = 2
  MaxLoads = 2
\* When every run is over and no page was opened, nothing moves.
CHECK_DEADLOCK FALSE
PROPERTIES
  ComesBackAfterARestart
