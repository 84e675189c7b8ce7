\* Worker tasks, renames and their sidecars, local history, settings, a durable
\* move, a timer, or the tree of a workspace folder.
SPECIFICATION BackgroundSpec
CONSTANTS
  \* the pool
  Task = {t1, t2, t3, t4}
  NoTask = NoTask
  MaxWorkers = 2
  RunLimit = 2
  \* the ledger
  Paths = {"a/x", "a/y", "b/x", "b/y", "b/z"}
  Docs = {"d1", "d2"}
  Home <- MCHome
  Moves <- MCMoves
  NoteKinds <- MCNoteKinds
  HistoryKinds <- MCHistoryKinds
  MergedKinds = {"Bookmarks", "LocalHistory"}
  Refusals = {{}, {"d2"}}
  MaxAttempts = 2
  MaxRenames = 2
  MaxFaults = 1
  MaxLaunches = 2
  \* local history
  Files = {"f", "g"}
  HistoryHome <- MCHistoryHome
  ScanOrder <- MCScanOrder
  Cap = 2
  GlobalCap = 3
  HistoryBounds <- MCBounds
  \* settings
  Keys = {"k", "l"}
  Values = {"a", "p"}
  Default = "p"
  Unset = Unset
  None = None
  MaxChanges = 4
  MaxOutside = 1
  MaxStarts = 2
  \* the move
  MaxLosses = 2
  \* the timer
  MaxCalls = 5
  MaxDepth = 4
  \* the tree
  Path <- MCPath
  Root = "r"
  Dir <- MCDir
  Within <- MCWithin
  Rank <- MCRank
  PathCap = 2
  BatchSize = 1
  ScanLimit = 1
  TreeBounds <- MCTreeBounds
  Sizes = {TRUE, FALSE}
  Blurs = {TRUE, FALSE}
INVARIANTS
  BackgroundTypeOK
  NoneStranded OneSource
  SidecarsNeverLost OthersStillMove NothingForgotten KindsTogether
  BodiesKept HistoryFollows
  FlushOnItsWay MoveKeepsFile NewestArmWins
  TreeKeptCurrent
PROPERTY RenamesEnd
CHECK_DEADLOCK FALSE
