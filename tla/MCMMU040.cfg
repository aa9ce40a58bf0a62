CONSTANTS
  N = 2
  FC <- MCFC
  LPage = {1}
  PPage <- MCPPage
  High <- MCHigh
  NoTag = NoTag
  W = 2
  Tables <- MCTables
  Roots <- MCRoots
  Windows <- MCWindows
  Writes <- MCWrites
SPECIFICATION MMUSpec
INVARIANTS MMUTypeOK AccessFollowsTables UseRecorded ProbeFollowsTables
