--------------------------- MODULE ReplaceJournal ---------------------------
(***************************************************************************)
(* Replace All and its undo journal: the worker that replaces the files of *)
(* services/content_search/replace.rs, the on-disk journal of              *)
(* services/search_backup.rs, and the search panels that own undo, in      *)
(* ui/search_panel/journal.rs and ui/window/search.rs.                     *)
(*                                                                         *)
(* The journal directory holds one entry per replaced file, a manifest and *)
(* a cleanup marker.  Whatever reads or writes it holds the process-wide   *)
(* journal lock, so one record, `hand`, is the work under way.  Undo reads *)
(* its entries from memory and takes no lock but each file's write guard.  *)
(*                                                                         *)
(* A file's content is the user's last save and the runs applied on top.   *)
(***************************************************************************)
EXTENDS Naturals, Sequences, FiniteSets, SequencesExt

CONSTANTS
    Window,       \* windows, each with a search panel
    File,         \* files a Replace All run may change
    MaxRuns,      \* bound: Replace All runs
    MaxUndos,     \* bound: undo restores, and Replace All runs refused
    MaxSaves,     \* bound: saves of a file
    MaxCrashes,   \* bound: crashes of the process
    MaxFaults,    \* bound: calls that fail
    Nobody,       \* not a window: the journal lock is free
    NoFile,       \* not a file
    NoEntry,      \* the journal has no entry for the file
    NoManifest,   \* there is no manifest
    Incremental   \* the manifest that makes every entry active

ASSUME BoundsAssumption ==
    {MaxRuns, MaxUndos, MaxSaves, MaxCrashes, MaxFaults} \subseteq Nat

Content == [save : 0 .. MaxSaves, runs : Seq(1 .. MaxRuns)]
Entry == [old : Content, new : Content]
Backup == [File -> {NoEntry} \cup Entry]

\* An entry's file is named by a hash of its path, so it is no marker or manifest.
ASSUME SentinelAssumption ==
    /\ Nobody \notin Window /\ NoFile \notin File
    /\ \A s \in SUBSET File : s \notin {NoManifest, Incremental}
    /\ NoManifest # Incremental /\ NoEntry \notin Entry
    /\ {"marker", "manifest"} \cap File = {}

Empty == [f \in File |-> NoEntry]
Keys(backup) == {f \in File : backup[f] # NoEntry}

VARIABLES
    content,   \* File -> its bytes
    journal,   \* the journal directory: marker, manifest and entries
    hand,      \* the work that holds the journal lock
    panel,     \* Window -> the undo state of its search panel
    retired,   \* runs whose cleanup marker was written
    forfeited, \* runs whose journal is deleted or loses its manifest because a
               \* read or a probe of it failed
    spent      \* how much of each bound is used

vars == <<content, journal, hand, panel, retired, forfeited, spent>>

NoJournal == [marker |-> FALSE, manifest |-> NoManifest, entry |-> Empty]
IdleHand == [win |-> Nobody, kind |-> "None", step |-> "None", gen |-> 0, run |-> 0,
             todo |-> {}, file |-> NoFile, done |-> Empty,
             prepared |-> FALSE, armed |-> FALSE]
ClosedPanel == [open |-> FALSE, gen |-> 0, backup |-> Empty, pending |-> FALSE,
                jobs |-> {}, answers |-> {}, undo |-> Empty, left |-> Empty,
                undoing |-> FALSE]

Fails == spent.faults < MaxFaults /\ spent' = [spent EXCEPT !.faults = @ + 1]

\* A work item waiting for the journal lock.
Work(kind, gen, run, backup) == [kind |-> kind, gen |-> gen, run |-> run, backup |-> backup]

\* Mutation: work that a newer transaction superseded still runs.
IgnoresGeneration(w, gen) == TRUE
\* A panel's journal work counts only while no newer transaction began.
Current(w, gen) == panel[w].gen = gen

-----------------------------------------------------------------------------
(* Reading the journal. *)

\* A journal is active when no cleanup began and its manifest agrees with it.
Active(j) ==
    /\ ~j.marker
    /\ \/ j.manifest = Incremental /\ Keys(j.entry) # {}
       \/ /\ j.manifest \notin {NoManifest, Incremental}
          /\ j.manifest # {} /\ j.manifest \subseteq Keys(j.entry)

\* The journal as it looks when its marker is not seen.
Unmarked == [journal EXCEPT !.marker = FALSE]

\* What an active journal offers to undo.
Offered(j) ==
    [f \in File |-> IF j.manifest = Incremental \/ f \in j.manifest THEN j.entry[f] ELSE NoEntry]

\* Everything the journal directory contains.
Members(j) == {f \in File : j.entry[f] # NoEntry}
              \cup (IF j.marker THEN {"marker"} ELSE {})
              \cup (IF j.manifest # NoManifest THEN {"manifest"} ELSE {})

\* The runs the journal has entries of.
JournalRuns == {Last(journal.entry[f].new.runs) : f \in Keys(journal.entry)}

Without(j, member) ==
    CASE member = "marker" -> [j EXCEPT !.marker = FALSE]
      [] member = "manifest" -> [j EXCEPT !.manifest = NoManifest]
      [] OTHER -> [j EXCEPT !.entry[member] = NoEntry]

-----------------------------------------------------------------------------
(* The panel: what GTK does in one turn. *)

\* A transaction begins or its outcome is published: older journal work is stale.
NextGen(p) == [p EXCEPT !.gen = @ + 1]
Queue(p, kind, backup) == [p EXCEPT !.jobs = @ \cup {Work(kind, p.gen, 0, backup)}]

\* clear_undo_backup: nothing is left to undo, so the journal is to be deleted.
Clear(p) == Queue(NextGen([p EXCEPT !.backup = Empty]), "Delete", Empty)
\* set_guarded_undo_backup: what is left is kept, and the journal to be shrunk.
Keep(p, backup) == Queue(NextGen([p EXCEPT !.backup = backup]), "Save", backup)

\* A new panel asks for the journal an earlier process left.
OpenWindow(w) ==
    /\ ~panel[w].open
    /\ panel' = [panel EXCEPT ![w] = Queue([ClosedPanel EXCEPT !.open = TRUE], "Load", Empty)]
    /\ UNCHANGED <<content, journal, hand, retired, forfeited, spent>>

\* Replace All is confirmed: it claims the panel and drops the undo before it.
StartReplace(w) ==
    LET run == spent.runs + 1
        claimed == NextGen([panel[w] EXCEPT !.pending = TRUE, !.backup = Empty])
    IN  /\ panel[w].open /\ ~panel[w].pending /\ spent.runs < MaxRuns
        /\ panel' = [panel EXCEPT ![w] =
               [claimed EXCEPT !.jobs = claimed.jobs \cup {Work("Apply", claimed.gen, run, Empty)}]]
        /\ spent' = [spent EXCEPT !.runs = run]
        /\ UNCHANGED <<content, journal, hand, retired, forfeited>>

\* Replace All is confirmed and refused: nothing selected, or no memory for undo.
RefuseReplace(w) ==
    /\ panel[w].open /\ ~panel[w].pending /\ spent.undos < MaxUndos
    /\ panel' = [panel EXCEPT ![w] = NextGen(@)]
    /\ spent' = [spent EXCEPT !.undos = @ + 1]
    /\ UNCHANGED <<content, journal, hand, retired, forfeited>>

\* The run's outcome reaches GTK: publish its undo, or clear an empty one.
RunDone(w) ==
    \E a \in panel[w].answers :
        LET p == [panel[w] EXCEPT !.answers = @ \ {a}, !.pending = FALSE] IN
        /\ a.kind \in {"Applied", "Failed", "Superseded"}
        /\ panel' = [panel EXCEPT ![w] =
               IF a.kind # "Applied" \/ ~Current(w, a.gen) THEN p
               ELSE IF a.backup = Empty THEN Clear(p)
               ELSE [p EXCEPT !.backup = a.backup]]
        /\ UNCHANGED <<content, journal, hand, retired, forfeited, spent>>

\* The recovered journal reaches GTK, unless a transaction began since.
LoadDone(w) ==
    \E a \in panel[w].answers :
        LET p == [panel[w] EXCEPT !.answers = @ \ {a}] IN
        /\ a.kind = "Load"
        /\ panel' = [panel EXCEPT ![w] =
               IF Current(w, a.gen) THEN NextGen([p EXCEPT !.backup = a.backup]) ELSE p]
        /\ UNCHANGED <<content, journal, hand, retired, forfeited, spent>>

\* Undo is clicked: its worker starts from the entries in memory.
StartUndo(w) ==
    /\ panel[w].backup # Empty /\ ~panel[w].pending /\ spent.undos < MaxUndos
    /\ panel' = [panel EXCEPT ![w] =
           NextGen([@ EXCEPT !.pending = TRUE, !.undoing = TRUE, !.undo = panel[w].backup])]
    /\ spent' = [spent EXCEPT !.undos = @ + 1]
    /\ UNCHANGED <<content, journal, hand, retired, forfeited>>

\* Mutation: undo writes the original whatever the file holds by now.
RestoresBlindly(f, entry) == TRUE
\* Undo writes a file only while it holds what the run wrote.
Restorable(f, entry) == content[f] = entry.new

\* Worker: restore one file under its write guard.
UndoFile(w, f) ==
    LET entry == panel[w].undo[f]
        taken == [panel EXCEPT ![w].undo[f] = NoEntry]
        kept == [taken EXCEPT ![w].left[f] = entry]
        restored == [content EXCEPT ![f] = entry.old]
    IN  /\ panel[w].undoing /\ entry # NoEntry /\ hand.file # f
        /\ \/ /\ content[f] = entry.old
              /\ panel' = taken /\ UNCHANGED <<content, spent>>
           \/ /\ content[f] # entry.old /\ ~Restorable(f, entry)
              /\ panel' = kept /\ UNCHANGED <<content, spent>>
           \/ /\ content[f] # entry.old /\ Restorable(f, entry)
              /\ content' = restored
              /\ panel' = taken /\ UNCHANGED spent
           \/ /\ Fails /\ panel' = kept
              /\ \/ UNCHANGED content
                 \/ content[f] # entry.old /\ Restorable(f, entry) /\ content' = restored
        /\ UNCHANGED <<journal, hand, retired, forfeited>>

\* Undo's outcome reaches GTK: keep what was not restored, or clear it all.
UndoDone(w) ==
    LET left == panel[w].left
        p == [panel[w] EXCEPT !.pending = FALSE, !.undoing = FALSE, !.left = Empty]
    IN  /\ panel[w].undoing /\ panel[w].undo = Empty
        /\ panel' = [panel EXCEPT ![w] = IF left = Empty THEN Clear(p) ELSE Keep(p, left)]
        /\ UNCHANGED <<content, journal, hand, retired, forfeited, spent>>

\* The user saves a file, which waits for its write guard.
SaveFile(f) ==
    /\ hand.file # f /\ spent.saves < MaxSaves
    /\ content' = [content EXCEPT ![f] = [save |-> @.save + 1, runs |-> <<>>]]
    /\ spent' = [spent EXCEPT !.saves = @ + 1]
    /\ UNCHANGED <<journal, hand, panel, retired, forfeited>>

-----------------------------------------------------------------------------
(* The journal lock, and the work done under it. *)

\* Every retained entry file exists in a journal no cleanup has touched.
CanShrink(backup) == ~journal.marker /\ Keys(backup) \subseteq Keys(journal.entry)

Hold(w, job, step) ==
    [IdleHand EXCEPT !.win = w, !.kind = job.kind, !.step = step, !.gen = job.gen,
                     !.run = job.run, !.done = job.backup,
                     !.todo = IF job.kind = "Apply" THEN File ELSE Keys(job.backup)]

\* Mutation: what undo left is saved by deleting and rebuilding the journal.
RebuildsAlways(job) == IF job.kind = "Apply" THEN "Next" ELSE "Mark"
\* Where the work starts once it has the lock.
FirstStep(job) ==
    CASE job.kind = "Apply" -> "Next"
      [] job.kind = "Save" /\ CanShrink(job.backup) -> "Manifest"
      [] OTHER -> "Mark"

Answer(w, job, kind, backup) ==
    panel' = [panel EXCEPT ![w].jobs = @ \ {job},
                           ![w].answers = @ \cup {[kind |-> kind, gen |-> job.gen,
                                                   backup |-> backup]}]

\* A worker takes the lock; superseded work ends there, and so does the load of
\* an active journal.  The load of any other journal deletes it.
TakeLock(w) ==
    /\ hand = IdleHand
    /\ \E job \in panel[w].jobs :
         \/ /\ ~Current(w, job.gen) /\ UNCHANGED hand
            /\ IF job.kind = "Apply" THEN Answer(w, job, "Superseded", Empty)
               ELSE panel' = [panel EXCEPT ![w].jobs = @ \ {job}]
         \/ /\ Current(w, job.gen) /\ job.kind = "Load" /\ Active(journal)
            /\ Answer(w, job, "Load", Offered(journal)) /\ UNCHANGED hand
         \/ /\ Current(w, job.gen) /\ ~(job.kind = "Load" /\ Active(journal))
            /\ panel' = [panel EXCEPT ![w].jobs = @ \ {job}]
            /\ hand' = Hold(w, job, FirstStep(job))
    /\ UNCHANGED <<content, journal, retired, forfeited, spent>>

\* As above, and a read or a probe of the journal fails.  A load then takes the
\* journal for inactive and deletes it, and what it could not read may be in
\* quarantine already; a save takes it for too small and rebuilds it.  A marker
\* that cannot be probed for counts as absent.
Misread(w) ==
    /\ hand = IdleHand /\ Fails
    /\ \E job \in panel[w].jobs :
         /\ Current(w, job.gen)
         /\ \/ /\ job.kind \in {"Load", "Save"}
               /\ journal' \in {journal} \cup
                     (IF job.kind = "Save" THEN {}
                      ELSE {Without(journal, member) : member \in Members(journal) \ {"marker"}})
               /\ forfeited' = forfeited \cup JournalRuns
               /\ hand' = Hold(w, job, "Mark")
               /\ panel' = [panel EXCEPT ![w].jobs = @ \ {job}]
            \/ /\ job.kind = "Load" /\ Active(Unmarked)
               /\ Answer(w, job, "Load", Offered(journal))
               /\ UNCHANGED <<journal, hand, forfeited>>
            \/ /\ job.kind = "Save" /\ Keys(job.backup) \subseteq Keys(journal.entry)
               /\ panel' = [panel EXCEPT ![w].jobs = @ \ {job}]
               /\ hand' = Hold(w, job, "Manifest")
               /\ journal' \in {journal, Unmarked} /\ UNCHANGED forfeited
    /\ UNCHANGED <<content, retired>>

Step(step) == hand.step = step
ToStep(step) == [hand EXCEPT !.step = step]
NextFile == [hand EXCEPT !.step = "Next", !.file = NoFile]
\* A run goes on with its next file; any other work ends.
GiveUp == IF hand.file # NoFile THEN NextFile ELSE ToStep("End")
\* The journal is gone: stage entries in a new one, or end.
Cleared ==
    IF hand.file # NoFile THEN [hand EXCEPT !.step = "Entry", !.prepared = TRUE]
    ELSE IF hand.kind = "Save" THEN ToStep("Entry")
    ELSE ToStep("End")

\* delete: write the cleanup marker first, if there is anything to clean up.  A
\* marker that could not be written for certain may be there, and an earlier one
\* that cannot be read is moved to quarantine first.
Mark ==
    LET marked == /\ journal' = [journal EXCEPT !.marker = TRUE]
                  /\ retired' = retired \cup JournalRuns
    IN  /\ Step("Mark")
        /\ \/ /\ Members(journal) = {}
              /\ hand' = Cleared /\ UNCHANGED <<journal, retired, spent>>
           \/ /\ Members(journal) # {} /\ marked
              /\ hand' = ToStep("Unlink") /\ UNCHANGED spent
           \/ /\ Members(journal) # {} /\ Fails
              /\ hand' = GiveUp /\ (marked \/ UNCHANGED <<journal, retired>>)
           \/ /\ journal.marker /\ Fails
              /\ journal' = Unmarked /\ UNCHANGED <<hand, retired>>
        /\ UNCHANGED <<content, panel, forfeited>>

\* remove_dir_all: the members go one by one, in the directory's order.
Unlink ==
    /\ Step("Unlink")
    /\ \/ \E member \in Members(journal) :
             LET left == Without(journal, member) IN
             /\ journal' = left /\ UNCHANGED spent
             /\ hand' = IF Members(left) = {} THEN Cleared ELSE hand
       \/ Fails /\ hand' = GiveUp /\ UNCHANGED journal
    /\ UNCHANGED <<content, panel, retired, forfeited>>

Replaced(f) == [content[f] EXCEPT !.runs = Append(@, hand.run)]
\* Mutation: the original is read after the file was written.
ReadsLate(f) == [old |-> Replaced(f), new |-> Replaced(f)]
RunEntry(f) == [old |-> content[f], new |-> Replaced(f)]

\* Worker: take the next file under its write guard, and read it.
TakeFile ==
    /\ Step("Next")
    /\ \E f \in hand.todo :
          hand' = [hand EXCEPT !.todo = @ \ {f}, !.file = f,
                               !.step = IF hand.prepared THEN "Entry" ELSE "Mark"]
    /\ UNCHANGED <<content, journal, panel, retired, forfeited, spent>>

\* A file is skipped: unsaved, changed since the preview, too large, unreadable.
SkipFile ==
    /\ Step("Next")
    /\ \E f \in hand.todo : hand' = [hand EXCEPT !.todo = @ \ {f}]
    /\ UNCHANGED <<content, journal, panel, retired, forfeited, spent>>

\* Mutation: the file is written before the journal is armed.
WritesUnarmed(f) == [hand EXCEPT !.step = "Write"]
\* After a run's entry: arm the journal once, then write the file.  A rebuilt
\* journal gets its other entries, then its manifest.
AfterEntry(f) ==
    IF hand.kind = "Apply" THEN ToStep(IF hand.armed THEN "Write" ELSE "Manifest")
    ELSE [hand EXCEPT !.todo = @ \ {f},
                      !.step = IF hand.todo = {f} THEN "Manifest" ELSE "Entry"]

\* save_entry; one that fails is deleted again, if that works.
SaveEntry ==
    /\ Step("Entry")
    /\ \E f \in (IF hand.kind = "Apply" THEN {hand.file} ELSE hand.todo) :
          LET entry == IF hand.kind = "Apply" THEN RunEntry(f) ELSE hand.done[f]
              saved == [journal EXCEPT !.entry[f] = entry]
          IN  \/ /\ journal' = saved
                 /\ hand' = AfterEntry(f) /\ UNCHANGED spent
              \/ /\ Fails /\ journal' \in {journal, saved}
                 /\ hand' = GiveUp
    /\ UNCHANGED <<content, panel, retired, forfeited>>

\* Every way the entry of the run's file may survive a clean-up of it.
Cleaned(j) == IF hand.file = NoFile THEN {j} ELSE {j, Without(j, hand.file)}

\* mark_incremental_journal_active, mark_journal_active: the commit point.  An
\* earlier manifest that cannot be read is moved to quarantine first.
SaveManifest ==
    LET manifest == IF hand.kind = "Apply" THEN Incremental ELSE Keys(hand.done)
        saved == [journal EXCEPT !.marker = FALSE, !.manifest = manifest]
    IN  /\ Step("Manifest")
        /\ \/ /\ Fails /\ journal.manifest # NoManifest
              /\ journal' = [Unmarked EXCEPT !.manifest = NoManifest]
              /\ forfeited' = forfeited \cup (IF hand.kind = "Save" THEN JournalRuns ELSE {})
              /\ UNCHANGED hand
           \/ /\ journal' = saved /\ UNCHANGED <<forfeited, spent>>
              /\ hand' = IF hand.kind = "Apply"
                         THEN [hand EXCEPT !.armed = TRUE, !.step = "Write"]
                         ELSE ToStep("Prune")
           \/ /\ Fails /\ journal' \in Cleaned(journal) \cup Cleaned(saved)
              /\ hand' = GiveUp /\ UNCHANGED forfeited
        /\ UNCHANGED <<content, panel, retired>>

\* Worker: replace the file.  A sync that failed after the rename counts as done.
WriteTarget ==
    LET f == hand.file IN
    /\ Step("Write")
    /\ \/ /\ content' = [content EXCEPT ![f] = Replaced(f)]
          /\ hand' = [NextFile EXCEPT !.done[f] = RunEntry(f)]
          /\ UNCHANGED <<journal, spent>>
       \/ /\ Fails /\ journal' \in Cleaned(journal)
          /\ hand' = NextFile /\ UNCHANGED content
    /\ UNCHANGED <<panel, retired, forfeited>>

\* Every file is through: a journal that stayed empty is deleted.
EndRun ==
    /\ Step("Next") /\ hand.todo = {}
    /\ hand' = ToStep(IF hand.done = Empty /\ hand.prepared THEN "Mark" ELSE "End")
    /\ UNCHANGED <<content, journal, panel, retired, forfeited, spent>>

\* Remove the entries the new manifest does not list, as far as that works.
Prune ==
    /\ Step("Prune")
    /\ \E removed \in SUBSET (Keys(journal.entry) \ Keys(hand.done)) :
          journal' = [journal EXCEPT !.entry =
              [f \in File |-> IF f \in removed THEN NoEntry ELSE @[f]]]
    /\ hand' = ToStep("End")
    /\ UNCHANGED <<content, panel, retired, forfeited, spent>>

\* Mutation: a run that ends keeps the lock.
KeepsLock == ToStep("None")
Unlocked == IdleHand

\* The lock is dropped; a run reports, and without a replaced file it may fail.
Release ==
    LET w == hand.win
        report(kind) == panel' = [panel EXCEPT ![w].answers =
            @ \cup {[kind |-> kind, gen |-> hand.gen, backup |-> hand.done]}]
    IN  /\ Step("End")
        /\ hand' = Unlocked
        /\ \/ hand.kind = "Apply" /\ report("Applied")
           \/ hand.kind = "Apply" /\ hand.done = Empty /\ report("Failed")
           \/ hand.kind # "Apply" /\ UNCHANGED panel
        /\ UNCHANGED <<content, journal, retired, forfeited, spent>>

LockStep == \/ Mark \/ Unlink \/ TakeFile \/ SkipFile \/ SaveEntry \/ SaveManifest
            \/ WriteTarget \/ EndRun \/ Prune \/ Release

-----------------------------------------------------------------------------
\* The process dies; files and the journal stay.
Crash ==
    /\ spent.crashes < MaxCrashes
    /\ panel' = [w \in Window |-> ClosedPanel]
    /\ hand' = IdleHand
    /\ spent' = [spent EXCEPT !.crashes = @ + 1]
    /\ UNCHANGED <<content, journal, retired, forfeited>>

Init ==
    /\ content = [f \in File |-> [save |-> 0, runs |-> <<>>]]
    /\ journal = NoJournal
    /\ hand = IdleHand
    /\ panel = [w \in Window |-> ClosedPanel]
    /\ retired = {} /\ forfeited = {}
    /\ spent = [runs |-> 0, undos |-> 0, saves |-> 0, crashes |-> 0, faults |-> 0]

Undo(w) == (\E f \in File : UndoFile(w, f)) \/ UndoDone(w)

Next ==
    \/ LockStep
    \/ \E w \in Window : \/ OpenWindow(w) \/ StartReplace(w) \/ RefuseReplace(w) \/ RunDone(w)
                         \/ LoadDone(w) \/ StartUndo(w) \/ Undo(w)
                         \/ TakeLock(w) \/ Misread(w)
    \/ \E f \in File : SaveFile(f)
    \/ Crash

Spec == Init /\ [][Next]_vars

\* Workers run and end, and their callbacks are dispatched.
Fairness ==
    /\ WF_vars(LockStep)
    /\ \A w \in Window : /\ WF_vars(TakeLock(w)) /\ WF_vars(RunDone(w))
                         /\ WF_vars(LoadDone(w)) /\ WF_vars(Undo(w))
FairSpec == Spec /\ Fairness

-----------------------------------------------------------------------------
(* Properties *)

\* The file still holds what the latest run made of it.
WroteLast(f) == content[f].runs # <<>> /\ Last(content[f].runs) = spent.runs
\* And no failed read made the journal of that run go.
HoldsLatest(f) == WroteLast(f) /\ spent.runs \notin forfeited

\* Whatever the latest Replace All wrote and nobody undid or saved over can be
\* undone after a crash: from before the file is written until a newer run
\* starts, an active journal holds its original.  Partial undos, failed writes
\* of the journal, work of older runs and startup cleanup do not break that;
\* a failed read or probe of the journal does, and is left out here: after it
\* the code deletes or rebuilds an active journal.
UndoDurable ==
    \A f \in File : HoldsLatest(f) =>
        /\ Active(journal)
        /\ Offered(journal)[f] # NoEntry
        /\ Offered(journal)[f].new = content[f]

\* Undo takes a file back by exactly the run that was last applied to it: it
\* never brings back other bytes, and never replaces a later save.
UndoTakesBackOneRun ==
    [][\A f \in File : content'[f] # content[f] =>
           \/ content'[f].save > content[f].save
           \/ content'[f].runs = Append(content[f].runs, hand.run)
           \/ /\ content'[f].save = content[f].save
              /\ content'[f].runs = Front(content[f].runs)]_vars

\* A Replace All or an undo has not ended, and keeps its panel from the next.
ReplaceWorking == \E w \in Window : panel[w].pending

\* A journal whose cleanup began is never offered for undo again.
CleanupNeverRevives ==
    \A w \in Window : \A a \in panel[w].answers : a.kind = "Load" =>
        \A f \in Keys(a.backup) : Last(a.backup[f].new.runs) \notin retired

-----------------------------------------------------------------------------
(* The inductive invariant behind UndoTakesBackOneRun. *)

WorkItem == [kind : {"Apply", "Save", "Delete", "Load"}, gen : Nat,
             run : 0 .. MaxRuns, backup : Backup]
RunAnswer == [kind : {"Applied", "Failed", "Superseded", "Load"}, gen : Nat, backup : Backup]
Panel == [open : BOOLEAN, gen : Nat, backup : Backup, pending : BOOLEAN,
          jobs : SUBSET WorkItem, answers : SUBSET RunAnswer, undo : Backup,
          left : Backup, undoing : BOOLEAN]
Hand == [win : {Nobody} \cup Window, kind : {"None", "Apply", "Save", "Delete", "Load"},
         step : {"None", "Next", "Mark", "Unlink", "Entry", "Manifest", "Write", "Prune", "End"},
         gen : Nat, run : 0 .. MaxRuns, todo : SUBSET File, file : {NoFile} \cup File,
         done : Backup, prepared : BOOLEAN, armed : BOOLEAN]

Spent == [runs : 0 .. MaxRuns, undos : Nat, saves : 0 .. MaxSaves, crashes : Nat,
          faults : Nat]
Journal == [marker : BOOLEAN, entry : Backup,
            manifest : {NoManifest, Incremental} \cup SUBSET File]

\* The types, with counters and histories of any length.
ReplaceTypeOK ==
    /\ content \in [File -> Content]
    /\ \A f \in File : content[f].save <= spent.saves
    /\ journal \in Journal /\ hand \in Hand /\ panel \in [Window -> Panel]
    /\ spent \in Spent

\* An entry's new bytes are its old ones with one more run.
OneRun(e) ==
    /\ e.new.save = e.old.save
    /\ e.new.runs # <<>> /\ Front(e.new.runs) = e.old.runs
OneRunEach(b) == \A f \in File : b[f] # NoEntry => OneRun(b[f])

PanelOneRun(p) ==
    /\ OneRunEach(p.backup) /\ OneRunEach(p.undo) /\ OneRunEach(p.left)
    /\ \A j \in p.jobs : OneRunEach(j.backup) /\ (j.kind = "Apply" => j.run > 0)
    /\ \A a \in p.answers : OneRunEach(a.backup)

\* Wherever an entry is: in the journal, in the work under way, in a panel.
EntriesOneRun ==
    /\ OneRunEach(journal.entry) /\ OneRunEach(hand.done)
    /\ \A w \in Window : PanelOneRun(panel[w])

\* A run works on one file at a time, and only a run does.
PlacedRight(h) ==
    /\ h.kind = "None" => h = IdleHand
    /\ h.kind # "None" => h.win \in Window /\ h.step # "None"
    /\ h.kind # "Apply" => h.file = NoFile /\ h.step \notin {"Next", "Write"}
    /\ h.kind = "Apply" =>
          /\ h.run > 0 /\ h.step # "Prune"
          /\ h.step \in {"Entry", "Manifest", "Write"} => h.file \in File
          /\ h.step \in {"Next", "End"} => h.file = NoFile

SoundInv == ReplaceTypeOK /\ PlacedRight(hand) /\ EntriesOneRun

\* Every variable has its type, and every entry of an undo journal, wherever it
\* is kept (journal file, panel, queued work, answers), is one run of its file.
EntriesAreRuns == SoundInv /\ retired \cup forfeited \subseteq 1 .. MaxRuns

-----------------------------------------------------------------------------
(* The inductive invariant behind UndoDurable. *)

HoldsSome == \E f \in File : HoldsLatest(f)
\* `b` can take back whatever the latest run left.
Covers(b) == \A f \in File : HoldsLatest(f) => b[f] # NoEntry /\ b[f].new = content[f]
\* The journal still has every entry of `b`, while there is something to undo.
Journaled(b) == HoldsSome => Keys(b) \subseteq Keys(journal.entry)

\* Runs are numbered in the order in which they write a file.
InOrder(e) ==
    /\ e.old.runs # <<>> => Last(e.old.runs) < Last(e.new.runs)
    /\ Last(e.new.runs) <= spent.runs
InOrderEach(b) == \A f \in File : b[f] # NoEntry => InOrder(b[f])
PanelInOrder(p) ==
    /\ InOrderEach(p.backup) /\ InOrderEach(p.undo) /\ InOrderEach(p.left)
    /\ \A j \in p.jobs : InOrderEach(j.backup)
    /\ \A a \in p.answers : InOrderEach(a.backup)
RunsInOrder ==
    /\ \A f \in File : content[f].runs # <<>> => Last(content[f].runs) <= spent.runs
    /\ InOrderEach(journal.entry) /\ InOrderEach(hand.done)
    /\ \A w \in Window : PanelInOrder(panel[w])

\* The run under way is the latest.  It writes a file only under its entry in
\* an active journal, and clears the journal only before its first file, or
\* when no file was written.
ApplyJournals ==
    hand.kind = "Apply" =>
        /\ hand.run = spent.runs
        /\ \A f \in hand.todo \cup {hand.file} : f \in File =>
              ~WroteLast(f) /\ hand.done[f] = NoEntry
        /\ hand.file \notin hand.todo
        /\ hand.step \in {"Mark", "Unlink"} =>
              hand.done = Empty /\ (hand.file # NoFile => ~hand.prepared)
        /\ hand.step \in {"Entry", "Manifest", "Write"} => hand.prepared
        /\ ~hand.prepared => hand.done = Empty /\ ~hand.armed
        /\ hand.step \in {"Next", "Entry", "Manifest", "Write"} =>
              /\ hand.prepared => ~journal.marker
              /\ hand.armed => journal.manifest = Incremental
        /\ hand.step = "Write" => hand.armed
        /\ ~hand.armed => hand.done = Empty
        /\ hand.step = "Manifest" => ~hand.armed
        /\ hand.step \in {"Manifest", "Write"} =>
              journal.entry[hand.file] = RunEntry(hand.file)
        /\ \A f \in File : hand.done[f] # NoEntry =>
              /\ journal.entry[f] = hand.done[f]
              /\ ~journal.marker /\ journal.manifest = Incremental
        /\ Covers(hand.done)

\* Other work under the lock leaves what the latest run needs.
OthersSpare ==
    /\ hand.kind \in {"Load", "Delete"} => ~HoldsSome
    /\ hand.kind = "Save" /\ HoldsSome =>
          /\ hand.step \in {"Manifest", "Prune", "End"}
          /\ Covers(hand.done) /\ Keys(hand.done) \subseteq Keys(journal.entry)
          /\ hand.step = "Prune" => journal.manifest = Keys(hand.done)
          /\ \A w \in Window : Keys(panel[w].backup) \subseteq Keys(hand.done)

IsOutcome(a) == a.kind # "Load"

\* A run is queued, under way or reported, once; meanwhile its panel owns no undo.
RunTicket(p) ==
    /\ \A j \in p.jobs : j.kind = "Apply" =>
          /\ p.pending /\ ~p.undoing /\ hand.kind # "Apply"
          /\ j.run = spent.runs /\ j.backup = Empty /\ \A f \in File : ~WroteLast(f)
          /\ \A k \in p.jobs : k.kind = "Apply" => k = j
          /\ \A a \in p.answers : ~IsOutcome(a)
    /\ \A a \in p.answers : IsOutcome(a) =>
          /\ p.pending /\ ~p.undoing /\ hand.kind = "None"
          /\ \A b \in p.answers : IsOutcome(b) => b = a
          /\ Covers(a.backup) /\ Journaled(a.backup)
    /\ hand.kind = "Apply" => p.pending /\ ~p.undoing /\ hand.gen \in 1 .. p.gen

\* Journal work that is still current is what its panel wants now.
CurrentWork(p) ==
    /\ \A j \in p.jobs : j.gen <= p.gen /\ (j.kind = "Load" <=> j.gen = 0)
    /\ \A a \in p.answers : a.gen <= p.gen /\ (a.kind = "Load" <=> a.gen = 0)
    /\ ~p.open => p = ClosedPanel
    /\ p.gen = 0 => ~p.pending /\ p.backup = Empty /\ hand.kind \in {"None", "Load"}
    /\ \A j \in p.jobs : j.gen = p.gen /\ j.kind = "Delete" => ~p.pending /\ ~HoldsSome
    /\ \A j \in p.jobs : j.gen = p.gen /\ j.kind = "Save" =>
          ~p.pending /\ j.backup = p.backup /\ p.backup # Empty
    /\ \A a \in p.answers : a.gen = p.gen /\ a.kind = "Load" =>
          Covers(a.backup) /\ Journaled(a.backup)

\* What a panel offers to undo, or is undoing, covers the latest run.
PanelCovers(p) ==
    /\ p.pending /\ ~p.undoing => p.backup = Empty
    /\ p.undoing => p.pending
    /\ ~p.undoing => p.left = Empty
    /\ Journaled(p.backup)
    /\ p.backup # Empty /\ ~p.undoing => Covers(p.backup)
    /\ p.undoing =>
          /\ \A f \in File : p.undo[f] \in {NoEntry, p.backup[f]}
                             /\ p.left[f] \in {NoEntry, p.backup[f]}
          /\ \A f \in File : HoldsLatest(f) =>
                p.backup[f].new = content[f] /\ (p.undo[f] # NoEntry \/ p.left[f] # NoEntry)

PanelDurable(p) == RunTicket(p) /\ CurrentWork(p) /\ PanelCovers(p)

\* Panels of two windows share the journal on disk, so this holds of one.
OneWindow == \A v, w \in Window : v = w

DurableInv ==
    /\ SoundInv /\ RunsInOrder /\ UndoDurable
    /\ ApplyJournals /\ OthersSpare
    /\ \A w \in Window : PanelDurable(panel[w])
=============================================================================
