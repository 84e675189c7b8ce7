\* One window with failures and a crash; two windows; or one window and a
\* restore whose calls fail.
SPECIFICATION Spec
CONSTANTS
    Window = {w1, w2}
    Doc = {file, note}
    Untitled = {note}
    Bounds <- MCWorlds
    file = file
    note = note
    Nobody = Nobody
    NoDoc = NoDoc
    NoEntry = NoEntry
    NoBody = NoBody
    Closed = Closed
    Unproven = Unproven
    Stale = Stale
    ReadFailed = ReadFailed
INVARIANTS
    TypeOK
    AcceptedInAll
    BodiesDescribed
    CleanInOne
    TrustedViewsAgree
    OneJournalWorker
PROPERTIES
    HeldBodyPreserved
CHECK_DEADLOCK FALSE
SYMMETRY WindowSymmetry
