SPECIFICATION JournalSpec
CONSTANTS
  r1 = r1
  r2 = r2
  r3 = r3
  d1 = d1
  d2 = d2
  c1 = c1
  c2 = c2
  none = none
  Replays <- MCReplays
  Digests <- MCDigests
  Collectors <- MCCollectors
  None <- none
  MaxCrashes = 2
  MaxLines = 5
SYMMETRY JournalSymmetry
INVARIANTS
  SettingsPrecedeEntries
  ReplaysAreRecordedOnce
  SnapshotsAreChanges
  ADamagedLineCostsOneReplay
