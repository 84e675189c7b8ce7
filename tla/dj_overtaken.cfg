SPECIFICATION Spec
CONSTANTS
    Window = {w1, w2}
    Doc = {file}
    Untitled = {}
    Bounds <- MCOvertaken
    file = file
    note = note
    Nobody = Nobody
    NoDoc = NoDoc
    NoEntry = NoEntry
    NoBody = NoBody
    Closed = Closed
    Unproven = Unproven
    Stale = Stale
    ReadFailed = ReadFailed
INVARIANT AcceptedDurable
CHECK_DEADLOCK FALSE
