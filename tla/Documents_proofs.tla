--------------------------- MODULE Documents_proofs ---------------------------
(***************************************************************************)
(* The specification that the run `documents` checks is, in each of its    *)
(* worlds, the specification of each component: what is proved of saves,   *)
(* Replace All and the buffer for any constants holds of their composition *)
(* too, for any constants.                                                 *)
(***************************************************************************)
EXTENDS MCDocuments, DocumentSave_proofs, ReplaceJournal_proofs, DocumentBuffer_proofs

\* A world leaves the components it has not chosen as they begin.
LEMMA WorldsAreComponents == DocumentsSpec => SaveSpec /\ Spec /\ BufferSpec
<1>1. DocumentsInit => SaveInit /\ Init /\ BufferInit
  BY DEF DocumentsInit, IdleSaves, IdleBuffer
<1> DEFINE all == <<focus, saveVars, vars, bufferVars>>
<1>2. [DocumentsNext]_all => [SaveNext]_saveVars
  BY DEF DocumentsNext
<1>3. [DocumentsNext]_all => [Next]_vars
  BY DEF DocumentsNext
<1>4. [DocumentsNext]_all => [BufferNext]_bufferVars
  BY DEF DocumentsNext
<1> QED BY <1>1, <1>2, <1>3, <1>4, PTL DEF DocumentsSpec, SaveSpec, Spec, BufferSpec

\* Every variable of the three keeps its type, each write guard has one holder
\* (lushtext-core's guarded saves), and every entry of an undo journal
\* (content_search/replace.rs) is one run of its file.
THEOREM DocumentsTypes == DocumentsSpec => []DocumentsTypeOK
<1>1. SaveTypeOK /\ EntriesAreRuns /\ BufferTypeOK => DocumentsTypeOK
  BY DEF DocumentsTypeOK
<1> QED BY <1>1, WorldsAreComponents, SaveTypesHold, EntriesAlwaysAreRuns, BufferTypes, PTL

\* Clean tabs show their whole files (an unconfirmed or bare one the file's
\* text before its formatting), admitted saves stay in the budget, no file
\* vanishes that nobody named (but one that slipped in between a look and its
\* call), typed text is kept, and undo takes back one run (but of a journal
\* forfeited by a failed read at startup): what the components promise, with
\* the exceptions each of them states, their composition keeps.
THEOREM DocumentsKeepPromises ==
    DocumentsSpec =>
        /\ [](CleanMeansSaved /\ WithinBudget /\ CleanIsWhole /\ TypedKept)
        /\ NothingVanishes
        /\ UndoTakesBackOneRun
BY WorldsAreComponents, BudgetKept, NobodyVanishes, CleanIsSaved, TakesBackOneRun,
   CleanTabsShowTheFile, NothingTypedIsLost, PTL
===============================================================================
