SPECIFICATION SaveSpec
CONSTANTS
  Tabs = {"small", "large"}
  Paths = {1, 2, 3}
  Opened <- MCOpened
  Weight <- MCWeight
  Budget = 2
  MaxActive = 2
  MaxOps = 2
  Worlds <- MCOneSave

PROPERTY NothingResurrected
CHECK_DEADLOCK FALSE
