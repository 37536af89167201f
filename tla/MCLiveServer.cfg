SPECIFICATION MCSpec
CONSTANTS
  old = old
  p1 = p1
  p2 = p2
  s1 = s1
  s2 = s2
  loop = loop
  nobody = nobody
  Replays <- MCReplays
  Plays <- MCReplays
  Tasks <- MCReplays
  Sockets <- MCSockets
  Loop <- loop
  NoTask <- nobody
  SettleAttempts = 1
  MaxFaults = 1
SYMMETRY SocketSymmetry
INVARIANTS
  ListenersHearEveryPlay
  CorpusCatchesUp
  NoAddedPlayIsLost
  BuildsOnlyWhatIsNew
PROPERTIES
  ImplementsPromise
