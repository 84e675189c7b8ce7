\* Two editors and three names; one window, two files and two runs; one buffer.
SPECIFICATION DocumentsSpec
CONSTANTS
    Tabs = {"small", "large"}
    Paths = {1, 2, 3}
    Opened <- MCOpened
    Weight <- MCWeight
    Budget = 2
    MaxActive = 2
    MaxOps = 2
    Worlds <- MCWorlds
    Window = {w1}
    File = {f1, f2}
    MaxRuns = 2
    MaxUndos = 1
    MaxSaves = 1
    MaxCrashes = 1
    MaxFaults = 1
    Nobody = Nobody
    NoFile = NoFile
    NoEntry = NoEntry
    NoManifest = NoManifest
    Incremental = Incremental
    BufferWorlds <- MCBufferWorlds
INVARIANTS
    DocumentsTypeOK
    CleanMeansSaved
    WithinBudget
    UndoDurable
    CleanIsWhole
    TypedKept
PROPERTIES
    NothingVanishes
    UndoTakesBackOneRun
    EverythingEnds
CHECK_DEADLOCK FALSE
