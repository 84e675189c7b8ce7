--------------------------- MODULE MCDocumentSave ---------------------------
EXTENDS DocumentSave

MCOpened == "small" :> 1 @@ "large" :> 2
MCWeight == "small" :> 1 @@ "large" :> 3

\* Two editors save and nothing is renamed; one saves while a file is
\* renamed or deleted, a call fails meanwhile, or another program changes a
\* file under both, or under an operation that fails; or two operations of the
\* sidebar meet.
MCWorlds ==
  { [edits |-> 1, saves |-> 3, names |-> {},  ops |-> 0, faults |-> 1, outside |-> 0],
    [edits |-> 1, saves |-> 2, names |-> {},  ops |-> 1, faults |-> 0, outside |-> 0],
    [edits |-> 1, saves |-> 1, names |-> {3}, ops |-> 1, faults |-> 0, outside |-> 0],
    [edits |-> 0, saves |-> 1, names |-> {},  ops |-> 1, faults |-> 1, outside |-> 0],
    [edits |-> 0, saves |-> 1, names |-> {},  ops |-> 1, faults |-> 0, outside |-> 1],
    [edits |-> 0, saves |-> 0, names |-> {},  ops |-> 1, faults |-> 1, outside |-> 1],
    [edits |-> 0, saves |-> 0, names |-> {},  ops |-> 2, faults |-> 0, outside |-> 0] }
\* One save and one operation.
MCOneSave ==
  { [edits |-> 1, saves |-> 1, names |-> {}, ops |-> 1, faults |-> 0, outside |-> 0] }
=============================================================================
