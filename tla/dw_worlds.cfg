\* Two threads of one process; two processes that may sweep each other's
\* day-old temp files; or two that share one launch identity.
SPECIFICATION WorldsSpec
CONSTANTS
    Process = {p1, p2}
    Writer = {w1, w2}
    Home <- TwoHomes
    Bit = {wide, suid}
    SpecialBit = {suid}
    DefaultMode = {wide}
    Umask = {}
    Sources <- TwoSources
    MaxTempNameAttempts = 2
    MaxVersion = 2
    MaxCounter = 2
    MaxCrashes = 1
    UniqueLaunches = TRUE
    Ages = TRUE
    Launch = {l1, l2, l3}
    Destination = Destination
    NoFile = NoFile
    NoWriter = NoWriter
    NoName = NoName
    NoPlan = NoPlan
    p1 = p1
    p2 = p2
    w1 = w1
    w2 = w2
    l1 = l1
    l2 = l2
    l3 = l3
    wide = wide
    suid = suid
INVARIANTS
    NeverWider
    CrashAtomic
    ClassificationSound
    SweepSparesOwnWrites
PROPERTIES
    ModePreserved
    ImplementsAtomicReplace
    InstallsOwnBytes
    WriteAnswered
