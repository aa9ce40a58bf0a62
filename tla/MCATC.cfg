CONSTANTS
  N = 2
  FC <- MCFC
  LPage = {p, q}
  PPage = {x, y}
  High <- MCHigh
  NoTag = NoTag
SPECIFICATION Spec
INVARIANTS TypeOK UniqueTags VictimExists MostRecentRecorded
PROPERTIES NeverEvictMostRecent KeepsPromise
