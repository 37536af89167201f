SPECIFICATION MCSpec
CONSTANTS
  old = old
  new = new
  tab = tab
  loop = loop
  nobody = nobody
  Replays <- MCReplays
  Plays <- MCReplays
  Tasks <- MCReplays
  Sockets <- MCSockets
  Loop <- loop
  NoTask <- nobody
  SettleAttempts = 2
  MaxFaults = 1
INVARIANTS
  NoPlayIsPushedTwice
  EverySeenPlayIsAccountedFor
PROPERTIES
  FinishedPlayIsTaken
  PlayReachesThePage
  CorpusIsPushed
