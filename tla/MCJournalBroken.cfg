SPECIFICATION JournalSpec
CONSTANTS
  r1 = r1
  r2 = r2
  r3 = r3
  d1 = d1
  d2 = d2
  c1 = c1
  c2 = c2
  none = none
  Replays <- MCThreeReplays
  Digests <- MCDigests
  Collectors <- MCOneCollector
  None <- none
  MaxCrashes = 1
  MaxLines = 6
INVARIANT
  DamageCostsOneRecord
