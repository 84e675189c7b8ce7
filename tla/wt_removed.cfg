\* An expanded directory is removed by another program.
SPECIFICATION TreeSpec
CONSTANTS
  Path <- MCPath
  Root = "r"
  Dir <- MCDir
  Within <- MCWithin
  Rank <- MCRank
  PathCap = 2
  BatchSize = 1
  ScanLimit = 1
  TreeBounds <- MCOneChange
  Sizes = {FALSE}
  Blurs = {FALSE}
INVARIANT RemovedRowsClear
CHECK_DEADLOCK FALSE
