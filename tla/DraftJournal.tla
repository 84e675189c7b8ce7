---------------------------- MODULE DraftJournal ----------------------------
(***************************************************************************)
(* The draft journal of LushText: autosave, restore, deletion and orphan   *)
(* cleanup of recovery drafts by the windows of one process.               *)
(*                                                                         *)
(* On disk a draft is a body file and an entry of the manifest; the entry  *)
(* remembers the modification time of the file the draft belongs to.  A    *)
(* pass of a window registers new ids, writes bodies and commits entries;  *)
(* a deletion preserves an unseen body, deletes it and removes its entry.  *)
(* Both hold the process-wide journal lane and alternate worker steps      *)
(* (disk) with GTK steps (the callbacks); everything GTK does in one turn  *)
(* is one atomic operator on the record ui.                                *)
(*                                                                         *)
(* A text is the set of edits in it that its file does not hold; the work  *)
(* a draft held before the first launch is named by the draft's document.  *)
(***************************************************************************)
EXTENDS Naturals, Sequences, FiniteSets, SequencesExt

CONSTANTS
    Window,       \* the windows the process may open
    Doc,          \* documents; a document names its draft id
    Untitled,     \* the documents without a backing file
    Bounds,       \* bounds, one record of them in each behaviour: the windows
                  \* open at once, the documents used and those with an accepted
                  \* draft at first launch, the edits typed, the versions of a
                  \* file, the tabs dragged to another window, the crashes, the
                  \* calls that fail and which ones may
    Nobody,       \* not a window: the free lane, an unclaimed id
    NoDoc,        \* not a document
    NoEntry,      \* the manifest has no entry
    NoBody,       \* there is no body file
    Closed,       \* no editor is open
    Unproven,     \* the modification time reconciliation gives an entry
    Stale,        \* a restore found a file that changed since its draft
    ReadFailed    \* a restore could not read the body

ASSUME DocAssumption == Untitled \subseteq Doc
ASSUME WindowAssumption == IsFiniteSet(Window)
ASSUME BoundsAssumption ==
    \A b \in Bounds :
        /\ {b.windows, b.edits, b.versions, b.moves, b.crashes, b.faults} \subseteq Nat
        /\ b.docs \subseteq Doc /\ b.prior \subseteq b.docs
        /\ b.calls \subseteq {"keep", "body", "delete", "manifest", "read", "install"}

FileBacked == Doc \ Untitled
Work == Doc \cup UNION {1 .. b.edits : b \in Bounds}
Text == SUBSET Work
Entry == [mtime : {Unproven} \cup Nat, text : Text]
Manifest == [Doc -> {NoEntry} \cup Entry]
ASSUME SentinelAssumption ==
    /\ Nobody \notin Window /\ NoDoc \notin Doc /\ NoEntry \notin Entry /\ Unproven \notin Nat
    /\ \A none \in {NoBody, Closed, Stale, ReadFailed}, text \in Text : none # text
    /\ NoBody \notin {Stale, ReadFailed}
NoManifest == [d \in Doc |-> NoEntry]

VARIABLES
    disk,      \* manifest entries, bodies, file versions and set-aside work
    ui,        \* every editor and every window of the running process
    ghost,     \* what was accepted, saved and discarded so far
    spent      \* the bounds of this behaviour, and what is used of them

vars == <<disk, ui, ghost, spent>>
bounds == spent.bounds

(***************************************************************************)
(* The running process.                                                    *)
(***************************************************************************)
NoRestore == [stage |-> "None", entry |-> NoEntry, found |-> NoBody]

IdleJob == [kind |-> "None", step |-> "None", doc |-> NoDoc,
            todo |-> {}, gen |-> [d \in Doc |-> {}], done |-> NoManifest,
            fresh |-> {}, result |-> "None"]

ShutWindow == [running |-> FALSE, known |-> NoManifest, trusted |-> FALSE,
               restore |-> [d \in Doc |-> NoRestore], deletes |-> <<>>,
               doomed |-> {}, stale |-> {}, pending |-> FALSE, job |-> IdleJob]

NoProcess == [tab |-> [d \in Doc |-> Closed], home |-> [d \in Doc |-> Nobody],
              dirty |-> {}, win |-> [w \in Window |-> ShutWindow],
              lane |-> Nobody, wake |-> FALSE, claim |-> [d \in Doc |-> Nobody],
              sweeper |-> Nobody, armed |-> FALSE]

Running(w) == ui.win[w].running
Launched == \E w \in Window : Running(w)
Open(u, d) == u.tab[d] # Closed
Modified(u, d) == Open(u, d) /\ u.tab[d] # {}

\* A restore is holding autosave of its id (queued, reading, or copying).
Held(u, w, d) == u.win[w].restore[d].stage \in {"Queued", "Read", "Copying", "Retry"}
\* A whole-buffer replacement owns the editor, so its text is not captured.
Blocked(u, d) == \E w \in Window : u.win[w].restore[d].stage = "Installing"

Mutating(u, w) == u.win[w].job.kind \in {"Pass", "Delete"}
Sweeping(u, w) == u.win[w].job.kind = "Sweep"
\* Mutation: only the window's own work is looked at.
IgnoresLane(u, w) == Mutating(u, w)
\* Whether journal work of w must wait: its own, or another window's lane.
Busy(u, w) == Mutating(u, w) \/ u.lane \notin {Nobody, w}

\* Another window owns d's draft: it claimed the id and still shows the editor.
OwnedElsewhere(u, w, d) ==
    u.claim[d] \notin {Nobody, w} /\ Open(u, d) /\ u.home[d] = u.claim[d]

\* Mutation: bodies are written before their entries exist.
SkipsRegistration(u, w, d) == FALSE
\* Whether a candidate must be in the persisted manifest before its body is.
NeedsRegistration(u, w, d) ==
    d \in FileBacked /\ (u.win[w].known[d] = NoEntry \/ ~u.win[w].trusted)

(***************************************************************************)
(* GTK operators: what one main-loop turn does to ui.                      *)
(***************************************************************************)
\* Mutation: the waiting windows are not woken.
ForgetsWakeup(u, w) == IF u.lane # w THEN u ELSE [u EXCEPT !.lane = Nobody]
\* Free the lane and queue the wakeup of the windows waiting for it.
Release(u, w) == IF u.lane # w THEN u ELSE [u EXCEPT !.lane = Nobody, !.wake = TRUE]

Eligible(u, w) ==
    {d \in Doc : Modified(u, d) /\ u.home[d] = w /\ d \in u.dirty /\ ~Blocked(u, d)}

\* Start a pass over the candidates; their intents supersede older deletions.
StartPass(u, w, candidates) ==
    LET needed == {d \in candidates : NeedsRegistration(u, w, d)} IN
    [u EXCEPT !.lane = w,
              !.win[w].doomed = @ \ candidates,
              !.win[w].job =
                  [IdleJob EXCEPT !.kind = "Pass",
                                  !.step = IF needed = {} THEN "Capture" ELSE "Register",
                                  !.todo = candidates,
                                  !.gen = [d \in Doc |-> IF d \in candidates THEN u.tab[d] ELSE {}],
                                  !.fresh = candidates]]

\* Autosave of an id waits while a restore of it is pending.
MayWrite(u, w, d) == ~Held(u, w, d)

\* The timer's tick: retry failed copies, then start a pass or remember one.
Tick(u, w) ==
    LET retried == [u EXCEPT !.win[w].restore =
                        [d \in Doc |-> IF @[d].stage = "Retry"
                                       THEN [@[d] EXCEPT !.stage = "Copying"] ELSE @[d]]]
        mine == {d \in Eligible(u, w) : ~OwnedElsewhere(u, w, d)}
        candidates == {d \in mine : MayWrite(u, w, d)}
        claimed == [retried EXCEPT !.claim = [d \in Doc |-> IF d \in mine THEN w ELSE @[d]],
                                   !.win[w].pending = @ \/ candidates # Eligible(u, w)]
    IN  IF Busy(u, w) \/ Sweeping(u, w) THEN [retried EXCEPT !.win[w].pending = TRUE]
        ELSE IF candidates = {} THEN claimed
        ELSE StartPass(claimed, w, candidates)

\* Start the oldest queued deletion, else the pass that was remembered.
Drive(u, w) ==
    IF Busy(u, w) \/ Sweeping(u, w) THEN u
    ELSE IF u.win[w].deletes # <<>>
    THEN LET d == Head(u.win[w].deletes) IN
         [u EXCEPT !.lane = w,
                   !.win[w].deletes = Tail(@),
                   !.win[w].stale = @ \ {d},
                   !.win[w].job =
                       [IdleJob EXCEPT !.kind = "Delete", !.doc = d,
                           !.step = IF d \in u.win[w].stale THEN "Preserve" ELSE "Body"]]
    ELSE IF u.win[w].pending THEN Tick([u EXCEPT !.win[w].pending = FALSE], w)
    ELSE u

\* Mutation: finished work keeps the lane.
KeepsLane(u, w) == [u EXCEPT !.win[w].job = IdleJob]
\* Finished work frees the lane, and its window goes on with what is queued.
Finish(u, w) == Drive(Release([u EXCEPT !.win[w].job = IdleJob], w), w)

\* The queue without d, which it holds at most once.
Without(queue, d) ==
    IF d \in Range(queue) THEN RemoveAt(queue, CHOOSE i \in DOMAIN queue : queue[i] = d)
    ELSE queue

\* Mutation: an unseen body is deleted like any other.
DeletesUnseen(u, w, d) ==
    IF OwnedElsewhere(u, w, d) THEN u
    ELSE [u EXCEPT !.claim[d] = w, !.win[w].doomed = @ \cup {d}, !.win[w].known[d] = NoEntry,
                   !.win[w].job.fresh = @ \ {d},
                   !.win[w].deletes = Append(Without(@, d), d)]
\* The window with the deletion of a draft queued: unseen work is preserved
\* before it goes.
Doomed(u, w, d) ==
    [u.win[w] EXCEPT !.stale = IF Held(u, w, d) /\ u.win[w].known[d] # NoEntry
                               THEN @ \cup {d} ELSE @,
                     !.doomed = @ \cup {d},
                     !.known[d] = NoEntry,
                     !.job.fresh = @ \ {d},
                     !.deletes = Append(Without(@, d), d)]
\* Queue the deletion, unless another window owns the draft.
QueueDelete(u, w, d) ==
    IF OwnedElsewhere(u, w, d) THEN u
    ELSE [u EXCEPT !.claim[d] = w, !.win[w] = Doomed(u, w, d)]
DeleteDraft(u, w, d) ==
    IF OwnedElsewhere(u, w, d) THEN u ELSE Drive(QueueDelete(u, w, d), w)

\* Mutation: a commit stays in the window that made it.
AdoptsAlone(u, manifest) ==
    [u EXCEPT !.win[u.lane] = [@ EXCEPT !.trusted = TRUE,
        !.known = [d \in Doc |-> IF d \in u.win[u.lane].doomed THEN NoEntry ELSE manifest[d]]]]
\* A trusted commit reaches every window, minus that window's own tombstones.
Adopt(u, manifest) ==
    [u EXCEPT !.armed = @ \/ ~u.win[u.sweeper].trusted,
              !.win = [w \in Window |->
                  IF ~@[w].running THEN @[w]
                  ELSE [@[w] EXCEPT !.trusted = TRUE,
                                    !.known = [d \in Doc |-> IF d \in u.win[w].doomed
                                                             THEN NoEntry ELSE manifest[d]]]]]

\* A failed manifest command revokes trust, and cleanup with it, everywhere.
Reject(u) == [u EXCEPT !.armed = FALSE,
                       !.win = [w \in Window |-> [@[w] EXCEPT !.trusted = FALSE]]]

(***************************************************************************)
(* The user and the world.                                                 *)
(***************************************************************************)
MayFail(call) == call \in bounds.calls /\ spent.faults < bounds.faults
Fails(call) == MayFail(call) /\ spent' = [spent EXCEPT !.faults = @ + 1]

\* Type into an editor: it becomes dirty, and a running pass is followed up.
Edit(d) ==
    LET n == spent.edits + 1
        w == ui.home[d]
        firstDirty == d \notin ui.dirty
        follow == IF firstDirty THEN Busy(ui, w) ELSE Mutating(ui, w)
    IN  /\ Open(ui, d) /\ ~Blocked(ui, d) /\ spent.edits < bounds.edits
        /\ ui' = [ui EXCEPT !.tab[d] = @ \cup {n}, !.dirty = @ \cup {d},
                            !.win[w].pending = @ \/ follow]
        /\ spent' = [spent EXCEPT !.edits = n]
        /\ UNCHANGED <<disk, ghost>>

\* Save a file: its new version holds the text, then the draft is deleted.
Save(d) ==
    /\ d \in FileBacked /\ Modified(ui, d) /\ ~Blocked(ui, d)
    /\ disk.backing[d] < bounds.versions
    /\ disk' = [disk EXCEPT !.backing[d] = @ + 1]
    /\ ui' = DeleteDraft([ui EXCEPT !.tab[d] = {}], ui.home[d], d)
    /\ ghost' = [ghost EXCEPT !.saved = @ \cup ui.tab[d]]
    /\ UNCHANGED spent

\* Discard the changes of a file: delete its draft, then reload it.
Discard(d) ==
    /\ d \in FileBacked /\ Modified(ui, d) /\ ~Blocked(ui, d)
    /\ ui' = [DeleteDraft(ui, ui.home[d], d) EXCEPT !.tab[d] = {}]
    /\ ghost' = [ghost EXCEPT !.discarded = @ \cup ui.tab[d]]
    /\ UNCHANGED <<disk, spent>>

\* Close a tab, discarding its changes; its restore finds no editor.
CloseTab(d) ==
    LET w == ui.home[d]
        deleted == IF Modified(ui, d) THEN DeleteDraft(ui, w, d) ELSE ui
    IN  /\ Open(ui, d) /\ ~Blocked(ui, d)
        /\ ui' = [deleted EXCEPT !.tab[d] = Closed, !.dirty = @ \ {d}]
        /\ ghost' = [ghost EXCEPT !.discarded = @ \cup ui.tab[d]]
        /\ UNCHANGED <<disk, spent>>

\* Show d in w, and queue the restore of the draft w knows of, if any.
Show(u, w, d) ==
    LET shown == [u EXCEPT !.tab[d] = {}, !.home[d] = w, !.dirty = @ \ {d}]
        claimed == IF d \in FileBacked /\ ~OwnedElsewhere(u, w, d)
                   THEN [shown EXCEPT !.claim[d] = w] ELSE shown
        queued == [stage |-> "Queued", entry |-> u.win[w].known[d], found |-> NoBody]
    IN  IF OwnedElsewhere(u, w, d) \/ u.win[w].known[d] = NoEntry THEN claimed
        ELSE [claimed EXCEPT !.win[w].restore[d] = queued]

\* Open a file; one that another window shows is presented there instead.
OpenFile(w, d) ==
    /\ Running(w) /\ d \in FileBacked \cap bounds.docs /\ ~Open(ui, d)
    /\ \A v \in Window : ui.win[v].restore[d].stage = "None"
    /\ ui' = Show(ui, w, d)
    /\ UNCHANGED <<disk, ghost, spent>>

\* A new untitled tab; its draft id is new, so no draft of it can exist.
NewTab(w, d) ==
    /\ Running(w) /\ d \in (Untitled \cap bounds.docs) \ bounds.prior /\ ui.home[d] = Nobody
    /\ disk.body[d] = NoBody /\ disk.entry[d] = NoEntry
    /\ ui' = [ui EXCEPT !.tab[d] = {}, !.home[d] = w]
    /\ UNCHANGED <<disk, ghost, spent>>

\* Drag a tab to another window: the editor moves, the journal state stays.
MoveTab(d, w) ==
    /\ Open(ui, d) /\ Running(w) /\ ui.home[d] # w /\ spent.moves < bounds.moves
    /\ ui' = [ui EXCEPT !.home[d] = w]
    /\ spent' = [spent EXCEPT !.moves = @ + 1]
    /\ UNCHANGED <<disk, ghost>>

\* Another program changes a file.
ExternalChange(d) ==
    /\ d \in FileBacked \cap bounds.docs /\ disk.backing[d] < bounds.versions
    /\ disk' = [disk EXCEPT !.backing[d] = @ + 1]
    /\ UNCHANGED <<ui, ghost, spent>>

(***************************************************************************)
(* Manifest commands: one read-reconcile-write under the manifest lock.    *)
(***************************************************************************)
\* Mutation: the time of a file that is not there yet.
StampsNext(d) == disk.backing[d] + 1
\* The modification time a worker reads for an entry of d.
Stamp(d) == IF d \in FileBacked THEN disk.backing[d] ELSE 0

\* Describe the bodies no entry describes: by an entry when the id is untitled
\* or a session tab's, else by moving the body to the set-aside directory.
Reconciled(manifest, removed, session) ==
    LET strays == {d \in Doc \ removed : disk.body[d] # NoBody /\ manifest[d] = NoEntry}
        entry(d) == IF d \in strays \cap Untitled THEN [mtime |-> 0, text |-> {}]
                    ELSE IF d \in strays \cap session THEN [mtime |-> Unproven, text |-> {}]
                    ELSE manifest[d]
        moved == strays \ (Untitled \cup session)
    IN  [disk EXCEPT !.entry = [d \in Doc |-> entry(d)],
                     !.body = [d \in Doc |-> IF d \in moved THEN NoBody ELSE @[d]],
                     !.kept = @ \cup UNION {disk.body[d] : d \in strays \cap FileBacked}]

SessionTabs == {d \in Doc : Open(ui, d)}

\* The disk after a command that commits, and after one that fails: refused,
\* reconciled but not saved, or saved with its durability unconfirmed.
CommandCommits(manifest, removed) ==
    disk' = Reconciled(manifest, removed, SessionTabs) /\ UNCHANGED spent
CommandFails(manifest, removed) ==
    LET full == Reconciled(manifest, removed, SessionTabs) IN
    Fails("manifest") /\ disk' \in {disk, [full EXCEPT !.entry = disk.entry], full}

\* The worker of w's job runs one step and hands over to the next.
Worker(w, kind, step) == ui.win[w].job.kind = kind /\ ui.win[w].job.step = step
JobTo(w, step, result) ==
    ui' = [ui EXCEPT !.win[w].job = [@ EXCEPT !.step = step, !.result = result]]

(***************************************************************************)
(* A pass: register, write each body, commit.                              *)
(***************************************************************************)
Needed(w) == {d \in ui.win[w].job.todo : NeedsRegistration(ui, w, d)}
Registered(w) == [d \in Doc |-> IF d \in Needed(w)
                                 THEN [mtime |-> Stamp(d), text |-> {}] ELSE NoEntry]
WithAbsent(manifest, new) ==
    [d \in Doc |-> IF manifest[d] = NoEntry THEN new[d] ELSE manifest[d]]

\* A persisted entry of another file version: its body is kept before the write.
Superseded(w) == {d \in Needed(w) : /\ disk.body[d] # NoBody
                                    /\ disk.entry[d] # NoEntry
                                    /\ disk.entry[d].mtime # Stamp(d)}

\* Worker: insert the absent entries; a failure leaves the ids unregistered.
Register(w) ==
    LET copied == [disk EXCEPT !.kept = @ \cup UNION {disk.body[d] : d \in Superseded(w)}]
        manifest == WithAbsent(disk.entry, Registered(w))
        full == Reconciled(manifest, {}, SessionTabs)
        answer(result) == ui' = [ui EXCEPT !.win[w].job = [@ EXCEPT
                              !.step = "Registered", !.done = Registered(w), !.result = result]]
    IN  /\ Worker(w, "Pass", "Register")
        /\ \/ /\ answer("Committed") /\ UNCHANGED spent
              /\ disk' = [full EXCEPT !.kept = @ \cup copied.kept]
           \/ /\ answer("Additive") /\ Fails("manifest")
              /\ disk' = [copied EXCEPT !.entry = manifest]
           \/ /\ answer("Failed") /\ Fails("manifest")
              /\ disk' \in {copied, [copied EXCEPT !.entry = manifest]}
           \/ /\ answer("Unkept") /\ Superseded(w) # {} /\ Fails("keep")
              /\ UNCHANGED disk
        /\ UNCHANGED ghost

\* The window's copies after an additive registration: the new entries, no trust.
Added(u, new) == [Reject(u) EXCEPT !.win = [w \in Window |->
    IF ~@[w].running THEN @[w] ELSE [@[w] EXCEPT !.known = WithAbsent(u.win[w].known, new)]]]

\* GTK: adopt the registration; ids it refused are not written in this pass.
RegisterDone(w) ==
    LET job == ui.win[w].job
        refused == IF job.result \in {"Committed", "Additive"} THEN {}
                   ELSE {d \in job.todo : job.done[d] # NoEntry}
        next == CASE job.result = "Committed" -> Adopt(ui, disk.entry)
                  [] job.result = "Additive" -> Added(ui, job.done)
                  [] job.result = "Failed" -> Reject(ui)
                  [] OTHER -> ui
    IN  /\ Worker(w, "Pass", "Registered")
        /\ ui' = [next EXCEPT !.win[w].job = [@ EXCEPT
               !.step = "Capture", !.done = NoManifest, !.result = "None",
               !.todo = job.todo \ refused]]
        /\ UNCHANGED <<disk, ghost, spent>>

\* The captured text is still the editor's, and the editor still modified.
Captured(w, d) == /\ Modified(ui, d) /\ ~Blocked(ui, d)
                  /\ ui.tab[d] = ui.win[w].job.gen[d]

\* GTK: capture the next candidate, or drop it and ask for another pass.
Capture(w, d) ==
    LET rest == [ui.win[w].job EXCEPT !.todo = @ \ {d}] IN
    /\ Worker(w, "Pass", "Capture") /\ d \in ui.win[w].job.todo
    /\ ui' = IF Captured(w, d)
             THEN [ui EXCEPT !.win[w].job = [rest EXCEPT !.step = "Write", !.doc = d]]
             ELSE [ui EXCEPT !.win[w].job = rest, !.win[w].pending = @ \/ Open(ui, d)]
    /\ UNCHANGED <<disk, ghost, spent>>

\* Worker: write the body, then read the file's time for its entry.
WriteBody(w) ==
    LET job == ui.win[w].job
        d == job.doc
        written == [disk EXCEPT !.body[d] = job.gen[d]]
        described == [mtime |-> Stamp(d), text |-> job.gen[d]]
        next(done) == ui' = [ui EXCEPT !.win[w].job = [@ EXCEPT
                                 !.step = "Capture", !.doc = NoDoc, !.done = done]]
    IN  /\ Worker(w, "Pass", "Write")
        /\ \/ /\ disk' = written /\ UNCHANGED spent
              /\ next([job.done EXCEPT ![d] = described])
           \/ /\ Fails("body") /\ disk' \in {disk, written}
              /\ next(job.done)
        /\ UNCHANGED ghost

Written(w) == {d \in Doc : ui.win[w].job.done[d] # NoEntry}

\* GTK: every candidate is through; commit what was written, or finish.
EndCapture(w) ==
    /\ Worker(w, "Pass", "Capture") /\ ui.win[w].job.todo = {}
    /\ IF Written(w) = {} THEN ui' = Finish(ui, w) ELSE JobTo(w, "Commit", "None")
    /\ UNCHANGED <<disk, ghost, spent>>

\* Worker: upsert the entries of the bodies written.
Commit(w) ==
    LET new == ui.win[w].job.done
        manifest == [d \in Doc |-> IF new[d] # NoEntry THEN new[d] ELSE disk.entry[d]]
    IN  /\ Worker(w, "Pass", "Commit")
        /\ \/ CommandCommits(manifest, {}) /\ JobTo(w, "Committed", "Committed")
           \/ CommandFails(manifest, {}) /\ JobTo(w, "Committed", "Failed")
        /\ UNCHANGED ghost

\* Mutation: a commit accepts whatever the editor holds now.
AcceptsNewerText(w) == {d \in Written(w) : Open(ui, d) /\ d \in ui.win[w].job.fresh}
\* The written generations that are still the editors' own, and still wanted.
CurrentGenerations(w) ==
    {d \in Written(w) : /\ Open(ui, d) /\ ui.tab[d] = ui.win[w].job.gen[d]
                        /\ d \in ui.win[w].job.fresh}

\* GTK: adopt the commit and accept the generations that are current.
CommitDone(w) ==
    LET accepted == CurrentGenerations(w)
        adopted == [Adopt(ui, disk.entry) EXCEPT !.dirty = @ \ accepted]
    IN  /\ Worker(w, "Pass", "Committed")
        /\ IF ui.win[w].job.result = "Committed"
           THEN /\ ui' = Finish(adopted, w)
                /\ ghost' = [ghost EXCEPT !.accepted = @ \cup UNION {ui.tab[d] : d \in accepted}]
           ELSE ui' = Finish(Reject(ui), w) /\ UNCHANGED ghost
        /\ UNCHANGED <<disk, spent>>

(***************************************************************************)
(* A deletion: preserve what was not seen, then the body, then the entry.  *)
(***************************************************************************)
\* Worker: keep a copy of the unseen body; a failure stops the deletion.
Preserve(w) ==
    LET body == disk.body[ui.win[w].job.doc] IN
    /\ Worker(w, "Delete", "Preserve")
    /\ \/ /\ JobTo(w, "Body", "None") /\ UNCHANGED spent
          /\ disk' = [disk EXCEPT !.kept = IF body = NoBody THEN @ ELSE @ \cup body]
       \/ /\ body # NoBody /\ Fails("keep")
          /\ JobTo(w, "Deleted", "Unkept") /\ UNCHANGED disk
    /\ UNCHANGED ghost

\* Worker: delete the body; a failure keeps the entry as the retry marker.
DeleteBody(w) ==
    /\ Worker(w, "Delete", "Body")
    /\ \/ /\ JobTo(w, "Entry", "None") /\ UNCHANGED spent
          /\ disk' = [disk EXCEPT !.body[ui.win[w].job.doc] = NoBody]
       \/ /\ Fails("delete") /\ JobTo(w, "Deleted", "BodyLeft") /\ UNCHANGED disk
    /\ UNCHANGED ghost

\* Worker: remove the entry of the deleted body.
RemoveEntry(w) ==
    LET d == ui.win[w].job.doc
        manifest == [disk.entry EXCEPT ![d] = NoEntry]
    IN  /\ Worker(w, "Delete", "Entry")
        /\ \/ CommandCommits(manifest, {d}) /\ JobTo(w, "Deleted", "Committed")
           \/ CommandFails(manifest, {d}) /\ JobTo(w, "Deleted", "Failed")
        /\ UNCHANGED ghost

\* GTK: adopt the removal and retire its tombstone; a stopped preservation is
\* queued again for a later deletion.
DeleteDone(w) ==
    LET job == ui.win[w].job
        d == job.doc
        retired == [Adopt(ui, disk.entry) EXCEPT !.win[w].doomed =
                        IF d \in Range(ui.win[w].deletes) THEN @ ELSE @ \ {d}]
        next == CASE job.result = "Committed" -> retired
                  [] job.result = "Failed" -> Reject(ui)
                  [] job.result = "Unkept" -> [ui EXCEPT !.win[w].stale = @ \cup {d}]
                  [] OTHER -> ui
    IN  /\ Worker(w, "Delete", "Deleted")
        /\ ui' = Finish(next, w)
        /\ UNCHANGED <<disk, ghost, spent>>

(***************************************************************************)
(* Restoring a draft into the tab that shows its document.                 *)
(***************************************************************************)
Stage(w, d) == ui.win[w].restore[d].stage
RestoreTo(u, w, d, stage) == [u EXCEPT !.win[w].restore[d].stage = stage]
Dropped(u, w, d) == [u EXCEPT !.win[w].restore[d] = NoRestore]
\* One body at a time is read and installed in a window.
Restoring(w) == \E d \in Doc : Stage(w, d) \in {"Read", "Installing"}

FileChanged(d, entry) == d \in FileBacked /\ entry.mtime # disk.backing[d]

\* What reading the draft of an entry finds.
Found(d, entry) == IF FileChanged(d, entry) THEN Stale ELSE disk.body[d]

\* Worker: compare the file with the entry and read the body.
RestoreRead(w, d) ==
    LET entry == ui.win[w].restore[d].entry
        answer(found) == ui' = [ui EXCEPT !.win[w].restore[d] = [@ EXCEPT
                                    !.stage = "Read", !.found = found]]
    IN  /\ Stage(w, d) = "Queued" /\ ~Restoring(w)
        /\ \/ answer(Found(d, entry)) /\ UNCHANGED spent
           \/ Fails("read") /\ answer(ReadFailed)
        /\ UNCHANGED <<disk, ghost>>

EntryCurrent(w, d) == ui.win[w].known[d] = ui.win[w].restore[d].entry
\* The editor is as the restore found it, and its entry still the manifest's.
TicketCurrent(w, d) == Open(ui, d) /\ ui.tab[d] = {} /\ EntryCurrent(w, d)

\* GTK: install the body, or see to a body that cannot be installed.
RestoreDone(w, d) ==
    LET found == ui.win[w].restore[d].found
        released == Dropped(ui, w, d)
        copying == RestoreTo(ui, w, d, "Copying")
        retired == DeleteDraft([released EXCEPT !.win[w].stale = @ \cup {d}], w, d)
    IN  /\ Stage(w, d) = "Read"
        /\ ui' = IF found = NoBody \/ ~Open(ui, d) \/ ~EntryCurrent(w, d) THEN released
                 ELSE IF ui.tab[d] # {} \/ found = ReadFailed THEN copying
                 ELSE IF found = Stale THEN retired
                 ELSE RestoreTo(ui, w, d, "Installing")
        /\ UNCHANGED <<disk, ghost, spent>>

\* GTK: the replacement ends with the body shown as unsaved work, or cancelled.
InstallDone(w, d) ==
    LET body == ui.win[w].restore[d].found
        shown == [Dropped(ui, w, d) EXCEPT !.tab[d] = body, !.dirty = @ \cup {d}]
        cancelled == IF EntryCurrent(w, d) THEN RestoreTo(ui, w, d, "Copying")
                     ELSE Dropped(ui, w, d)
    IN  /\ Stage(w, d) = "Installing"
        /\ \/ ui' = (IF TicketCurrent(w, d) THEN shown ELSE cancelled) /\ UNCHANGED spent
           \/ Fails("install") /\ ui' = cancelled
        /\ UNCHANGED <<disk, ghost>>

\* Worker: copy an unrestored body; its hold ends only once the copy exists.
CopyUnrestored(w, d) ==
    /\ Stage(w, d) = "Copying"
    /\ \/ /\ ui' = Dropped(ui, w, d) /\ UNCHANGED spent
          /\ disk' = [disk EXCEPT !.kept = IF disk.body[d] = NoBody THEN @ ELSE @ \cup disk.body[d]]
       \/ /\ disk.body[d] # NoBody /\ Fails("keep")
          /\ ui' = RestoreTo(ui, w, d, "Retry") /\ UNCHANGED disk
    /\ UNCHANGED ghost

(***************************************************************************)
(* Orphan cleanup, timers and wakeups.                                     *)
(***************************************************************************)
\* Mutation: cleanup does not wait for the journal work of any window.
SweepsAnyTime(w) == ui.win[w].job.kind = "None"
\* Cleanup starts only when no window's journal work is in flight.
MayTakeLane(w) == ~Busy(ui, w)

\* The cleanup timer of the window that schedules it for the process.
StartSweep(w) ==
    /\ ui.armed /\ ui.sweeper = w /\ ~Sweeping(ui, w)
    /\ MayTakeLane(w)
    /\ ui' = [ui EXCEPT !.armed = FALSE, !.lane = w,
                        !.win[w].job = [IdleJob EXCEPT !.kind = "Sweep", !.step = "Sweep"]]
    /\ UNCHANGED <<disk, ghost, spent>>

\* Bodies cleanup may delete: the latest persisted manifest lacks their entry.
Orphans == {d \in Doc : disk.body[d] # NoBody /\ disk.entry[d] = NoEntry}
MissingBody == {d \in Doc : disk.body[d] = NoBody /\ disk.entry[d] # NoEntry}

\* Worker: delete orphan bodies and remove entries whose body is missing.
Sweep(w) ==
    /\ Worker(w, "Sweep", "Sweep")
    /\ disk' = [disk EXCEPT
           !.body = [d \in Doc |-> IF d \in Orphans THEN NoBody ELSE @[d]],
           !.entry = [d \in Doc |-> IF d \in MissingBody THEN NoEntry ELSE @[d]]]
    /\ ui' = [ui EXCEPT !.win[w].job = [@ EXCEPT
                 !.step = "Swept",
                 !.done = [d \in Doc |-> IF d \in MissingBody THEN disk.entry[d] ELSE NoEntry]]]
    /\ UNCHANGED <<ghost, spent>>

\* What is known less what was removed, of which it may already know more.
Less(known, removed) == [d \in Doc |-> IF known[d] = removed[d] THEN NoEntry ELSE known[d]]

\* GTK: every window forgets exactly the entries that were removed.
SweepDone(w) ==
    LET removed == ui.win[w].job.done
        merged == [ui EXCEPT !.win = [v \in Window |->
                      [@[v] EXCEPT !.known = Less(ui.win[v].known, removed)]]]
    IN  /\ Worker(w, "Sweep", "Swept")
        /\ ui' = Finish(merged, w)
        /\ UNCHANGED <<disk, ghost, spent>>

\* The periodic or first-dirty autosave timer of a window fires.
AutosaveTick(w) ==
    /\ Running(w)
    /\ ui' = Tick(ui, w) /\ ui' # ui
    /\ UNCHANGED <<disk, ghost, spent>>

\* The idle wakeup: each window in turn drives its work while the lane is free.
Turn(u, w) == IF u.lane = Nobody /\ u.win[w].running THEN Drive(u, w) ELSE u
Turns(u, order) ==
    LET after[i \in 0 .. Len(order)] == IF i = 0 THEN u ELSE Turn(after[i - 1], order[i])
    IN  after
Wake ==
    /\ ui.wake
    /\ \E order \in SetToSeqs(Window) :
          ui' = Turns([ui EXCEPT !.wake = FALSE], order)[Len(order)]
    /\ UNCHANGED <<disk, ghost, spent>>

(***************************************************************************)
(* Launch, further windows, crash.                                         *)
(***************************************************************************)
\* Entries of session files that changed since: retired at launch when trusted.
StaleAtLaunch(d, manifest) == manifest[d] # NoEntry /\ FileChanged(d, manifest[d])

\* The first window reconciles the manifest, retires stale drafts after keeping
\* them, and queues a restore for every session tab with an entry.
Launch(w, session) ==
    LET full == Reconciled(disk.entry, {}, session)
        stale == {d \in session : StaleAtLaunch(d, full.entry)}
        gone == {d \in stale : full.body[d] = NoBody}
        retire == [full EXCEPT
            !.kept = @ \cup UNION {full.body[d] : d \in stale \ gone},
            !.body = [d \in Doc |-> IF d \in stale THEN NoBody ELSE @[d]],
            !.entry = [d \in Doc |-> IF d \in stale THEN NoEntry ELSE @[d]]]
        window(known, trusted) == [ShutWindow EXCEPT !.running = TRUE, !.known = known,
                                                     !.trusted = trusted]
        queued(known) == [d \in Doc |->
            IF d \in session /\ known[d] # NoEntry
            THEN [stage |-> "Queued", entry |-> known[d], found |-> NoBody] ELSE NoRestore]
        process(known, trusted) ==
            [NoProcess EXCEPT
                !.tab = [d \in Doc |-> IF d \in session THEN {} ELSE Closed],
                !.home = [d \in Doc |-> IF d \in session THEN w ELSE Nobody],
                !.claim = [d \in Doc |-> IF d \in session \cap FileBacked THEN w ELSE Nobody],
                !.win[w] = [window(known, trusted) EXCEPT !.restore = queued(known)],
                !.sweeper = w, !.armed = trusted]
    IN  /\ ~Launched
        /\ \/ disk' = retire /\ ui' = process(retire.entry, TRUE) /\ UNCHANGED spent
           \/ /\ Fails("manifest") /\ UNCHANGED disk
              /\ ui' = process(disk.entry, FALSE)
        /\ UNCHANGED ghost

\* A further window adopts the records of one that is already there.
OpenWindow(w) ==
    /\ Launched /\ ~Running(w) /\ Cardinality({v \in Window : Running(v)}) < bounds.windows
    /\ \E v \in Window :
          /\ Running(v)
          /\ ui' = [ui EXCEPT !.win[w] = [ShutWindow EXCEPT !.running = TRUE,
                        !.known = ui.win[v].known, !.trusted = ui.win[v].trusted]]
    /\ UNCHANGED <<disk, ghost, spent>>

\* The process dies; only the disk survives.
Crash ==
    /\ Launched /\ spent.crashes < bounds.crashes
    /\ ui' = NoProcess
    /\ spent' = [spent EXCEPT !.crashes = @ + 1]
    /\ UNCHANGED <<disk, ghost>>

Init ==
    /\ spent \in [edits : {0}, faults : {0}, crashes : {0}, moves : {0}, bounds : Bounds]
    /\ disk = [entry |-> [d \in Doc |-> IF d \in bounds.prior THEN [mtime |-> 0, text |-> {d}]
                                        ELSE NoEntry],
               body |-> [d \in Doc |-> IF d \in bounds.prior THEN {d} ELSE NoBody],
               backing |-> [d \in Doc |-> 0], kept |-> {}]
    /\ ui = NoProcess
    /\ ghost = [accepted |-> bounds.prior, saved |-> {}, discarded |-> {}]

PassStep(w) == \/ Register(w) \/ RegisterDone(w) \/ (\E d \in Doc : Capture(w, d))
               \/ WriteBody(w) \/ EndCapture(w) \/ Commit(w) \/ CommitDone(w)
DeleteStep(w) == Preserve(w) \/ DeleteBody(w) \/ RemoveEntry(w) \/ DeleteDone(w)
SweepStep(w) == StartSweep(w) \/ Sweep(w) \/ SweepDone(w)
RestoreStep(w, d) == RestoreRead(w, d) \/ RestoreDone(w, d) \/ InstallDone(w, d)
                     \/ CopyUnrestored(w, d)
UserStep == \/ \E d \in Doc : Edit(d) \/ Save(d) \/ Discard(d) \/ CloseTab(d) \/ ExternalChange(d)
            \/ \E w \in Window, d \in Doc : OpenFile(w, d) \/ NewTab(w, d) \/ MoveTab(d, w)

Next ==
    \/ \E w \in Window : PassStep(w) \/ DeleteStep(w) \/ SweepStep(w) \/ AutosaveTick(w)
    \/ \E w \in Window, d \in Doc : RestoreStep(w, d)
    \/ UserStep \/ Wake
    \/ \E w \in Window, session \in SUBSET bounds.docs : Launch(w, session)
    \/ \E w \in Window : OpenWindow(w)
    \/ Crash

Spec == Init /\ [][Next]_vars

\* Workers end, their callbacks are dispatched, and timers and idles fire.
Fairness ==
    /\ \A w \in Window : /\ WF_vars(PassStep(w)) /\ WF_vars(DeleteStep(w))
                         /\ WF_vars(SweepStep(w)) /\ WF_vars(AutosaveTick(w))
    /\ \A w \in Window, d \in Doc : WF_vars(RestoreStep(w, d))
    /\ WF_vars(Wake)
LiveSpec == Spec /\ Fairness

(***************************************************************************)
(* Properties.                                                             *)
(***************************************************************************)
Restore == [stage : {"None", "Queued", "Read", "Installing", "Copying", "Retry"},
            entry : {NoEntry} \cup Entry, found : {NoBody, Stale, ReadFailed} \cup Text]
Job == [kind : {"None", "Pass", "Delete", "Sweep"},
        step : {"None", "Register", "Registered", "Capture", "Write", "Commit", "Committed",
                "Preserve", "Body", "Entry", "Deleted", "Sweep", "Swept"},
        doc : {NoDoc} \cup Doc, todo : SUBSET Doc, gen : [Doc -> Text], done : Manifest,
        fresh : SUBSET Doc,
        result : {"None", "Committed", "Additive", "Failed", "Unkept", "BodyLeft"}]
WindowState == [running : BOOLEAN, known : Manifest, trusted : BOOLEAN,
                restore : [Doc -> Restore], deletes : Seq(Doc), doomed : SUBSET Doc,
                stale : SUBSET Doc, pending : BOOLEAN, job : Job]

Disk == [entry : Manifest, body : [Doc -> {NoBody} \cup Text], backing : [Doc -> Nat],
         kept : Text]
Process == [tab : [Doc -> {Closed} \cup Text], home : [Doc -> {Nobody} \cup Window],
            dirty : SUBSET Doc, win : [Window -> WindowState],
            lane : {Nobody} \cup Window, wake : BOOLEAN,
            claim : [Doc -> {Nobody} \cup Window],
            sweeper : {Nobody} \cup Window, armed : BOOLEAN]

\* No entry bears a version its file has not had.
Timed(manifest, backing) ==
    \A d \in Doc : manifest[d] # NoEntry =>
        manifest[d].mtime \in {Unproven} \cup 0 .. backing[d]

\* Every variable has its type, and no entry bears a version its file has not had.
TypeOK ==
    /\ disk \in Disk /\ ui \in Process /\ Timed(disk.entry, disk.backing)
    /\ ghost \in [accepted : Text, saved : Text, discarded : Text]
    /\ spent \in [edits : Nat, faults : Nat, crashes : Nat, moves : Nat, bounds : Bounds]

Resolved == ghost.saved \cup ghost.discarded
OnDisk == disk.kept \cup UNION {disk.body[d] : d \in {e \in Doc : disk.body[e] # NoBody}}

\* S1, acceptance durability: work whose autosave was accepted stays on disk,
\* in a body or in set-aside, until it is saved or discarded.
AcceptedDurable == ghost.accepted \ Resolved \subseteq OnDisk

\* S3, delete ordering: no order of registrations, writes, deletions, cleanup
\* and crashes leaves a file's body that the manifest does not describe.
BodiesDescribed == \A d \in FileBacked : disk.body[d] # NoBody => disk.entry[d] # NoEntry

\* S4, trust: with no journal work in flight, what a trusted window knows is
\* what the manifest on disk says, less the drafts some window is to delete.
TrustedViewsAgree ==
    ui.lane = Nobody =>
        \A w \in Window : Running(w) /\ ui.win[w].trusted =>
            \A d \in Doc \ UNION {ui.win[v].doomed : v \in Window} :
                ui.win[w].known[d] = disk.entry[d]

\* The journal lane has one holder, and journal work runs in no other window.
OneJournalWorker == \A w \in Window : ui.win[w].job.kind # "None" <=> ui.lane = w

\* An editor that shows its changes as autosaved has exactly that text in its
\* draft's body.
CleanMeansDurable ==
    \A d \in Doc : Modified(ui, d) /\ d \notin ui.dirty => disk.body[d] = ui.tab[d]

\* A draft is restored only over the file version it was written against: no
\* restored text brings back work the file already holds.
RestoresUnsavedWork ==
    \A w \in Window, d \in Doc :
        Stage(w, d) = "Installing" => ui.win[w].restore[d].found \cap ghost.saved = {}

\* A body whose restore is pending holds work the user has not seen: whatever
\* replaces or deletes it, a copy exists first of what was neither saved nor
\* discarded.
HeldBodyPreserved ==
    [][\A w \in Window, d \in Doc :
          Held(ui, w, d) /\ disk.body[d] # NoBody /\ disk'.body[d] # disk.body[d]
              => disk.body[d] \subseteq disk'.kept \cup Resolved]_vars

\* Without failures, an edited document is autosaved, saved or closed in the end:
\* a pass that finds the lane taken or a restore pending is not forgotten.
EditsAutosaved ==
    \A d \in Doc : (Modified(ui, d) /\ d \in ui.dirty) ~> ~(Modified(ui, d) /\ d \in ui.dirty)

\* Without failures, every deletion the user asked for ends with its tombstone
\* retired, also when it waited for another window's pass or cleanup.
DeletionsEnd ==
    \A w \in Window, d \in Doc : d \in ui.win[w].doomed ~> d \notin ui.win[w].doomed

(***************************************************************************)
(* The inductive invariant, of the running process u and the disk k.       *)
(***************************************************************************)
StepsOf == [None   |-> {"None"},
            Pass   |-> {"Register", "Registered", "Capture", "Write", "Commit", "Committed"},
            Delete |-> {"Preserve", "Body", "Entry", "Deleted"},
            Sweep  |-> {"Sweep", "Swept"}]

\* Work is in a step of its kind; a body is written or deleted for a document.
JobPlaced(job) ==
    /\ job.step \in StepsOf[job.kind]
    /\ job.kind = "Delete" \/ job.step = "Write" <=> job.doc \in Doc

\* Only a running window shows editors, works or restores; once one runs, a
\* running one schedules cleanup for all.
OnlyRunning(u) ==
    /\ \A d \in Doc : u.tab[d] # Closed => u.home[d] \in Window /\ u.win[u.home[d]].running
    /\ \A w \in Window : ~u.win[w].running =>
           u.win[w].job.kind = "None" /\ \A d \in Doc : u.win[w].restore[d].stage = "None"
    /\ (\E w \in Window : u.win[w].running) => u.sweeper # Nobody
    /\ u.sweeper # Nobody => u.win[u.sweeper].running

\* Work holds the lane, is in its place, and describes versions files have had;
\* what is being installed is a text.
Orderly(u, k) ==
    /\ \A w \in Window : u.win[w].job.kind # "None" <=> u.lane = w
    /\ \A w \in Window : JobPlaced(u.win[w].job) /\ Timed(u.win[w].job.done, k.backing)
    /\ \A w \in Window, d \in Doc :
           u.win[w].restore[d].stage = "Installing" => u.win[w].restore[d].found \in Text

\* What trusted windows know the manifest says.
ViewsTrue(u, manifest) ==
    \A w \in Window : u.win[w].running /\ u.win[w].trusted =>
        \A d \in Doc : u.win[w].known[d] \in {NoEntry, manifest[d]}

\* A command was run on the manifest, and its callback has not told the windows.
Untold(job) ==
    \/ /\ job.step \in {"Registered", "Committed", "Deleted"}
       /\ job.result \in {"Committed", "Failed"}
    \/ job.step = "Registered" /\ job.result = "Additive"

\* Cleanup removed entries, and its callback has not told the windows.
SweepUntold(u, k, w) ==
    /\ u.win[w].job.step = "Swept"
    /\ ViewsTrue(u, [d \in Doc |-> IF k.entry[d] = NoEntry THEN u.win[w].job.done[d]
                                   ELSE k.entry[d]])

ViewsFollow(u, k) ==
    \/ ViewsTrue(u, k.entry)
    \/ \E w \in Window : Untold(u.win[w].job) \/ SweepUntold(u, k, w)

\* A pass that has registered writes no file's body that lacks its entry, and a
\* deletion removes the entry of a body that is gone.
JobGrounded(job, k) ==
    /\ job.step = "Registered" =>
           \A d \in job.todo \cap FileBacked :
               k.entry[d] = NoEntry =>
                   job.done[d] # NoEntry /\ job.result \notin {"Committed", "Additive"}
    /\ job.step \in {"Capture", "Write"} =>
           \A d \in (job.todo \cup {job.doc}) \cap FileBacked : k.entry[d] # NoEntry
    /\ job.step = "Entry" => k.body[job.doc] = NoBody

Described(k) == \A d \in FileBacked : k.body[d] # NoBody => k.entry[d] # NoEntry

DraftInv ==
    /\ TypeOK
    /\ OnlyRunning(ui)
    /\ Orderly(ui, disk)
    /\ ViewsFollow(ui, disk)
    /\ \A w \in Window : JobGrounded(ui.win[w].job, disk)
    /\ Described(disk)
=============================================================================
