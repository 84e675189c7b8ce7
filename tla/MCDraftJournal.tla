--------------------------- MODULE MCDraftJournal ---------------------------
(* Instances of DraftJournal for TLC, and the bounds its runs choose from.   *)
EXTENDS DraftJournal

CONSTANTS file, note

Base == [windows |-> 1, docs |-> {file}, prior |-> {}, edits |-> 1, versions |-> 1,
         moves |-> 0, crashes |-> 0, faults |-> 0, calls |-> {}]

\* One window and a file: any call but a copy fails, the process crashes.
OneWindow == [Base EXCEPT !.edits = 2, !.crashes = 1, !.faults = 1,
                          !.calls = {"body", "delete", "manifest", "read", "install"}]
\* Two windows with a file and an untitled document.
Pair == [Base EXCEPT !.windows = 2, !.docs = {file, note}, !.versions = 0, !.moves = 1]
\* One window restores the draft its file had at first launch, while calls of
\* that restore fail.
Copies == [Base EXCEPT !.prior = {file}, !.edits = 2, !.faults = 1,
                       !.calls = {"keep", "read", "install"}]
MCWorlds == {OneWindow, Pair, Copies}

\* Two windows and one edit of a file that nothing else changes.
MCLive == {[Base EXCEPT !.windows = 2, !.versions = 0]}
\* Two windows, two edits, and no failure.
MCOvertaken == {[Base EXCEPT !.windows = 2, !.edits = 2]}
\* A draft of an earlier launch, and one failed copy.
MCUnkept == {[Base EXCEPT !.prior = {file}, !.edits = 2, !.faults = 1, !.calls = {"keep"}]}
\* A draft of an earlier launch, and a tab that may move while it is restored.
MCHeldMoves == {[Base EXCEPT !.windows = 2, !.prior = {file}, !.versions = 0, !.moves = 1]}
\* A crash.
MCLatetime == {[Base EXCEPT !.crashes = 1]}

\* Windows are interchangeable.
WindowSymmetry == Permutations(Window)

\* Work accepted by any window stays on disk while the windows write, delete
\* and clean up, and across the crash.  (Among the copies the preserving copy
\* may fail, and there it does not: with MCUnkept AcceptedDurable is violated.)
AcceptedInAll == bounds # Copies => AcceptedDurable

\* In one window, an editor that shows its changes as autosaved has exactly
\* that text in its draft's body.  (With two windows a deletion that waited for
\* the lane may run after the restore of the draft it deletes: see the README.)
CleanInOne == bounds.windows = 1 => CleanMeansDurable
=============================================================================
