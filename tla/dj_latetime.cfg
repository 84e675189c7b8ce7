SPECIFICATION Spec
CONSTANTS
    Window = {w1}
    Doc = {file}
    Untitled = {}
    Bounds <- MCLatetime
    file = file
    note = note
    Nobody = Nobody
    NoDoc = NoDoc
    NoEntry = NoEntry
    NoBody = NoBody
    Closed = Closed
    Unproven = Unproven
    Stale = Stale
    ReadFailed = ReadFailed
INVARIANT RestoresUnsavedWork
CHECK_DEADLOCK FALSE
