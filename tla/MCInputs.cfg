SPECIFICATION InputsSpec
CONSTANTS
  Scenarios <- MCScenarios
  Dpis <- MCDpis
  PlausibleDpis <- MCPlausible
  Heights <- MCHeights
  Labels <- MCLabels
  Presets <- MCPresets
  Distances <- MCDistances
  Makers <- MCMakers
  MaxCommands = 3
  None = None
  MapCount = 3
  Nudges <- MCNudges
  FirstOffsets <- MCFirstOffsets
  Layouts <- MCLayouts
  MinimumAgreement = 60
  CountLimit = 30
  MaxEvents = 2
INVARIANTS
  EverythingIsGivenBack
  FollowedAdviceSettles
  AFailedProbeCostsItsRulesOnly
  ARuleFailsOnlyOnABadValue
  AStaleReportSaysSo
  AnOpenStoreIsWhole
  WhatWasTypedIsKept
  OffsetsAreThoseTheGameWrote
  AFaithfulIndexIsBelieved
CHECK_DEADLOCK FALSE
