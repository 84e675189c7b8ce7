\* One window, one file, one run and one crash while a cleanup unlinks the journal.
SPECIFICATION Spec
CONSTANTS
    Window = {w1}
    File = {f1}
    MaxRuns = 1
    MaxUndos = 1
    MaxSaves = 0
    MaxCrashes = 1
    MaxFaults = 0
    Nobody = Nobody
    NoFile = NoFile
    NoEntry = NoEntry
    NoManifest = NoManifest
    Incremental = Incremental
INVARIANTS
    CleanupNeverRevives
CHECK_DEADLOCK FALSE
