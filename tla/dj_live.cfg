SPECIFICATION LiveSpec
CONSTANTS
    Window = {w1, w2}
    Doc = {file}
    Untitled = {}
    Bounds <- MCLive
    file = file
    note = note
    Nobody = Nobody
    NoDoc = NoDoc
    NoEntry = NoEntry
    NoBody = NoBody
    Closed = Closed
    Unproven = Unproven
    Stale = Stale
    ReadFailed = ReadFailed
PROPERTIES
    EditsAutosaved
    DeletionsEnd
CHECK_DEADLOCK FALSE
