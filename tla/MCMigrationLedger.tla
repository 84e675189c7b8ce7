------------------------- MODULE MCMigrationLedger -------------------------
EXTENDS MigrationLedger

\* A folder of two files is renamed, then one of the files, which also makes
\* a chain of two renames of that file.
MCHome  == "d1" :> "a/x" @@ "d2" :> "a/y"
MCMoves == {"a/x" :> "b/x" @@ "a/y" :> "b/y", "b/x" :> "b/z"}
\* A folder is renamed, and renamed back.
MCThereAndBack == {"a/x" :> "b/x" @@ "a/y" :> "b/y", "b/x" :> "a/x" @@ "b/y" :> "a/y"}
MCNoteKinds    == <<"Bookmarks", "DocumentNotes">>
MCHistoryKinds == <<"LocalHistory">>
=============================================================================
