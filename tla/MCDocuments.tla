----------------------------- MODULE MCDocuments -----------------------------
(* What happens to the text of documents, in one of three worlds chosen at   *)
(* the start.                                                                *)
(*   save     editors that save while the sidebar renames and deletes        *)
(*   replace  Replace All, its undo and its journal                          *)
(*   buffer   one editor's buffer and the workflows that own it in turn      *)
(* A component whose world was not chosen stays as it was: it begins with    *)
(* nothing to do, so its fairness asks nothing of it.                        *)
EXTENDS MCDocumentSave, MCReplaceJournal, MCDocumentBuffer

VARIABLE focus

IdleSaves  == SaveInit /\ world.ops = 2
IdleBuffer == BufferInit /\ left.saves = 2

DocumentsInit ==
    /\ focus \in {"save", "replace", "buffer"}
    /\ Init
    /\ IF focus = "save" THEN SaveInit ELSE IdleSaves
    /\ IF focus = "buffer" THEN BufferInit ELSE IdleBuffer

\* Of a save, a failing call and a crash, Replace All meets any two.
MeetsTwo == spent'.saves + spent'.faults + spent'.crashes <= 2

DocumentsNext ==
    /\ \/ focus = "save" /\ SaveNext /\ UNCHANGED <<vars, bufferVars>>
       \/ focus = "replace" /\ Next /\ MeetsTwo /\ UNCHANGED <<saveVars, bufferVars>>
       \/ focus = "buffer" /\ BufferNext /\ UNCHANGED <<saveVars, vars>>
    /\ UNCHANGED focus

DocumentsSpec ==
    /\ DocumentsInit
    /\ [][DocumentsNext]_<<focus, saveVars, vars, bufferVars>>
    /\ SaveFair /\ Fairness /\ BufferFair

\* Every variable of the three keeps its type, and every entry of an undo
\* journal is one run of its file.
DocumentsTypeOK == SaveTypeOK /\ EntriesAreRuns /\ BufferTypeOK

\* Queued saves and operations of the sidebar end, and so do Replace All and
\* undo; typed text is not held, and no buffer owned, for ever.  (The bounds
\* end what users ask for, so all of it comes to rest at one time.)
AtWork == SaveWorking \/ ReplaceWorking \/ BufferWorking
EverythingEnds == AtWork ~> ~AtWork
==============================================================================
