CONSTANTS
  N = 2
  FC <- MCFC
  LPage = {1}
  PPage <- MCPPage
  High <- MCHigh
  NoTag = NoTag
  Frames = 32
  Depth = 3
  W = 2
  Tables <- MCTables
  Roots <- MCRoots
  Regions <- MCRegions
  Writes <- MCWrites
SPECIFICATION MMUSpec
INVARIANTS ProtectedReadFollowsTables
