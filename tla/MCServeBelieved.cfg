SPECIFICATION ServeSpec
CONSTANTS
  p1 = p1
  p2 = p2
  o1 = o1
  o2 = o2
  o3 = o3
  Runs <- MCRuns
  Plays <- MCPlays
  BuildOf <- MCBuildOf
  Ports <- MCPorts
  Reserved <- MCReserved
  Limit = 1
  Backfill = 1
  Leftovers <- MCLeftovers
  MaxWrites = 2
  Nobody = "nobody"
SYMMETRY MCSymmetry
PROPERTY ARowIsBelievedOfItsFileAndBuild
CHECK_DEADLOCK FALSE
