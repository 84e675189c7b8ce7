# LushText: TLA+ models, model checking and proofs

LushText is a GTK text editor written in Rust. Most of what it promises its
user is about not losing text: saves replace files atomically, unsaved work is
autosaved and restored after a crash, Replace All can be undone after a crash.
Those promises are kept by protocols that span worker threads, GTK callbacks,
several windows, several processes and crashes. This directory models them in
TLA+, checks them on small instances with TLC, and proves the most important of
them for every instance with TLAPS.

All paths below are relative to the repository root; `core/` stands for
`src/crates/lushtext-core/src/`.

* [The system](#the-system)
* [What is modelled](#what-is-modelled)
* [The runs](#the-runs)
* [Fairness](#fairness)
* [The proofs](#the-proofs)
* [Where the code and its documents disagree](#where-the-code-and-its-documents-disagree)
* [What is not modelled](#what-is-not-modelled)
* [Plan](#plan)
* [Running it](#running-it)

## The system

One process has several windows, all on the GTK main thread. Blocking work
runs on worker threads (`gtk-lush/tasks`), whose results come back as callbacks
on the main thread, so a protocol is a chain *GTK turn → worker step → GTK turn
→ …* with anything in between. Services under `core/services` do the work on
disk, `core/model` holds pure planners, `core/ui` drives both. A second process
may share the disk (a new instance, or one that is being killed).

| component | state it keeps | operations | what makes it hard |
|---|---|---|---|
| Atomic durable write (`services/durable_write.rs`, `services/filesystem/write_protocol.rs`) | temp files beside the target, a set of guarded targets, a temp-name counter, a launch nonce | write a file; take and drop the target guard | kill or power loss between any two system calls; another process; failures of each call |
| Leftover sweep (`services/filesystem/leftovers.rs`, `temp_name.rs`) | none; reads names, ages and identities | remove day-old temp files of other launches | a temp file another process still writes |
| Draft journal core (`services/draft_service.rs`, `draft_service/journal_core.rs`) | body files, the manifest, the set-aside directory, the manifest lock | register, write body, commit, delete, preserve, reconcile, clean up orphans | a crash between body and entry; a manifest whose save is in doubt |
| Draft journal windows (`ui/window/drafts/*`) | per window: known manifest, trust, queues, holds, one job; per process: the lane, claims, cleanup schedule | ticks, passes, deletions, restores and their copies, cleanup, tab moves | work that waits for another window's lane and is stale when it runs; edits during a restore |
| Replace All undo journal (`services/search_backup.rs`) | a directory of entries, a manifest, a cleanup marker, one process-wide lock | arm, save entries, shrink, delete, recover | a crash at any point of arming, writing or cleaning up |
| Replace All apply and undo (`services/content_search/replace.rs`, `ui/search_panel/journal.rs`, `ui/window/search.rs`) | a generation, the undo in memory, a pending flag, queued journal work | run, publish, undo, startup load | queued journal work superseded by a newer transaction |
| Durable rename and move (`durable_write.rs`, `write_protocol.rs`) | none of its own | rename, or copy and remove across file systems | a crash with both names present |
| Sidebar file operations (`ui/sidebar/workspace_section/file_execution.rs`) | the item a dialog named | rename, delete, create | the item changed before the guard was taken; a save of the same name is on its way |
| Document save (`ui/editor_page/save/*`, `services/editor_io.rs`) | requests queued and admitted under a byte budget, the ticket of each write, the close-save session | queue, admit, capture, write, accept or refuse, mirror back | an answer that is older than its editor; a byte charge that is never given back |
| Migration ledger (`services/migration_ledger.rs`) | the sidecar moves still owed, an operation lock | record, run, retry | two renames of one tree; a crash between sidecar kinds |
| Draft set-aside area (`draft_service/set_aside*.rs`) | preserved bodies and their retention | keep, list, expire | expiry against a copy being made |
| Worker tasks (`gtk-lush/tasks`) | slots in use, a waiting queue, the completion lane and its source | spawn or queue, release, deliver, yield | a slot released between a failed attempt and the push; a lane disarmed while a result arrives |
| Debounce and settle timers (`gtk-lush/settle`) | a generation and a source per timer | arm, fire, cancel | re-entry from the callback or from its drop |
| Single-flight coordinator (`services/single_flight.rs`) | one active request, one pending | submit, finish, invalidate | a late answer to a cancelled request |
| Settings writer (`ui/settings_writes.rs`, `model/settings_write_batch.rs`) | per key: persisted, pending; a delayed instance of the settings | observe, write, flush, reset | a value written back while another is pending |
| Local history (`services/local_history_service.rs`) | an index and bodies per document | capture, list, retain, move and merge lineages, reconcile | a move broken between bodies, index and removal, and retried |
| Session restore (`services/session_service.rs`, `ui/window/session_restore`) | the saved tabs | save, restore | a draft whose tab did not come back |
| File loading and buffer installation (`model/file_load.rs`, `buffer_replacement.rs`, `protected_install.rs`) | a sliced replacement in progress | begin, slice, end, cancel | everything the user does meanwhile |
| Held input (`model/held_input.rs`, `ui/editor_page/held_input.rs`) | keys typed during an installation | hold, replay, drop | close or discard before the replay |
| Editor memory eviction (`model/editor_memory.rs`) | which editors keep a buffer | evict, reload | an editor with unsaved work |
| Workspace watch and tree refresh (`services/workspace_watch.rs`, `ui/sidebar/workspace_section/*`) | a bounded mailbox, the watched directories, a gathered request, a scan flight and rows per directory, expansion | post and poll, replace the watcher, plan and dispatch a refresh, scan, splice, expand and collapse, delete | a scan that is stale when it answers; a watcher bound to directories that are no longer shown; a full mailbox |
| Format upgrade (`services/format_upgrade/*`) | a plan and backups | back up, convert | a crash between the two |
| Disposal admission (`model/plain_disposal.rs`, `ui/plain_disposal.rs`) | reserved bytes | reserve, release, wake | a wakeup that is lost |
| Recovery metadata (`services/recovery_metadata.rs`, `json_store.rs`) | quarantined files | read or quarantine | a second failure while quarantining |
| Notifications, content search, editor widgets, theming, printing | view state | – | no protocol of their own |

How they interact: every service that changes a file uses the atomic durable
write, under the guard of its target; the draft journal and the Replace All
journal are built on it and each adds a process-wide order of its own (the
journal *lane* and the journal *lock*). Draft restores go through buffer
installation; undo waits for disposal admission; a sidebar rename takes the same
guards as a save and moves the sidecars through the migration ledger and a
lineage of local history; everything that works on a thread of its own is a
worker task, whose result comes back through one lane.

What each of them owes the user, in one line: a save leaves the old or the new
file, and a tab is clean only if its file holds it (atomic write, document
save); accepted text is on disk until it is saved or discarded
(draft journal); the latest Replace All can be undone exactly (undo journal);
nothing that was moved is lost or duplicated for good (move, ledger, history);
every request is answered once and for its latest input (tasks, timers,
single-flight, settings); no unsaved text is lost to a machinery that works
behind the user's back (installation, held input, eviction).

## What is modelled

### `DurableWrite` and `AtomicReplace`

`DurableWrite` is the write protocol of `write_protocol.rs` and the shell of
`durable_write.rs` that runs it. Its state is the disk (`target`, `files`,
`stale`), what a power loss may leave of the target (`durable`), the processes
(`launch`, `counter`, `guard`, `doomed`: the name a sweep decided to remove) and
the writers (`phase`, `attempts`, `ver`, `source`, `plan`, `temp`).

* `NextAction` is `WriteProtocol::step`: the tables `AfterDone` and
  `AfterFailure`, and the retry of a taken temp name. `phase` is the action the
  protocol asks for, so an action of the model is the execution of one protocol
  action and the step on its outcome. Every action may fail.
* `ProbedMode`, `CreatedMode` and `AppliedMode` are the metadata plan: creation
  through the umask with the ordinary bits only, then the exact bits on the open
  file. Extended attributes and ownership are not modelled.
* `Acquire` and `Finish` are `TargetWriteGuard`, which is per process.
* `SweepCheck` and `SweepRemove` are the two system calls of the leftover sweep
  on one candidate; which candidates a pass reaches is left open.
* The file system is modelled as the code relies on it: exclusive creation,
  atomic rename, an open descriptor that outlives its name, bytes that survive a
  power loss once synced, a rename that is certain once the directory is synced
  (before that, a power loss leaves the target as any version since the last
  sync). `Kill` ends one process, `PowerLoss` all of them.

`AtomicReplace` states what callers are promised, with no temp file in sight: a
write is not applied, applied, or applied for good, and its class says which.
`DurableWrite` implements it under the mapping at the end of the module.

### `DraftJournal`

On disk (`disk`): the manifest (`entry`), the bodies, the version of each
backing file (`backing`) and the work preserved in set-aside (`kept`). In the
process (`ui`): what each editor shows (`tab`), the window it is in (`home`),
which editors are dirty, the process-wide `lane`, `wake`, `claim`, the window
that schedules cleanup (`sweeper`, `armed`), and per window (`win`): the manifest
it knows, whether it is trusted, the restores, the queued deletions, their
tombstones (`doomed`), the deletions that must preserve first (`stale`), the
remembered pass (`pending`) and the journal work in flight (`job`). `ghost`
records what was accepted, saved and discarded.

A GTK turn is one operator on `ui`, named after what the code does in it
(`Tick`, `Drive`, `Finish`, `QueueDelete`, `Adopt`, `Reject`); a worker step is
an action on `disk`. So every point where another window, the user or a crash can
come in between is a state of the model, and nothing else is.

* a pass: `Register`, `RegisterDone`, `Capture`, `WriteBody` per candidate,
  `EndCapture`, `Commit`, `CommitDone`;
* a deletion: `Preserve` (a body the user has not seen), `DeleteBody`,
  `RemoveEntry`, `DeleteDone`;
* a restore: `RestoreRead`, `RestoreDone`, `InstallDone`, and `CopyUnrestored`
  for a body that could not be shown;
* cleanup: `StartSweep`, `Sweep`, `SweepDone`;
* timers and wakeups: `AutosaveTick`, `Wake`; launch and crash: `Launch`,
  `OpenWindow`, `Crash`;
* the user and the world: `Edit`, `Save`, `Discard`, `CloseTab`, `OpenFile`,
  `NewTab`, `MoveTab`, `ExternalChange`.

Abstractions. A text is the set of edits in it that its file does not hold. The
modification time of a file is its version: the code records it in seconds, so
two versions within one second are one more way to take a changed file for
unchanged, which the model does not have. A save and a load are one step (input
is locked during a save). `WriteBody` is the worker and its callback. Files too
large to restore are treated like ones that cannot be read. Several restores of
one window end in any order, where the code queues them. The session names the
tabs that are open when a worker reads it. A file whose restore is pending is not
closed and reopened.

### `ReplaceJournal`

`content` is what each file holds: the user's last save and the runs applied to
it, so that bytes are equal when their histories are. `journal` is the journal
directory with its entries, manifest and marker. Whatever touches the directory
holds the journal lock, so one record (`hand`) is the work under way: a run, a
save or shrink of the undo, a deletion, or the startup load. `panel` is per
window: the generation, the undo in memory, the work queued for the lock, the
answers on their way to GTK, and an undo in progress, which takes no lock but the
guard of each file.

Each system call that a crash or a failure can separate from the next one is an
action: the marker (`Mark`), each member removed by `remove_dir_all` in any order
(`Unlink`), the entry (`SaveEntry`), the commit point (`SaveManifest`), the target
(`WriteTarget`), the retained entries of a shrink (`Prune`). `Misread` is a startup
load or a shrink whose read or probe of the journal fails: the load takes an active
journal for a stale one and deletes it, with a member in quarantine perhaps already, the
shrink deletes it and writes it anew, a marker counts as absent; and an old manifest or
marker that cannot be read before it is replaced goes to quarantine (`SaveManifest`,
`Mark`). The runs of such a journal are `forfeited`: `UndoDurable` claims nothing for
them, since the code keeps nothing for them.

Abstractions. The two passes of a run by file size are any order of files, and
`SkipFile` stands for every reason to leave a file alone. Confirming a run,
superseding the undo before it and starting its worker are one GTK turn; a claim
that ends without a run is `RefuseReplace`. The removal of a marker on success is
part of `SaveManifest`: there it is never present, since a deletion succeeded
before. The cancellation and rollback of a run are left out: no window ever
cancels one. Power loss is left to `DurableWrite`, whose guarantees the entry,
manifest and target writes here rely on (a write that fails may or may not have
replaced its file).

### `DocumentSave`

Editors that save, the sidebar that renames and deletes, and other programs, over
a few names. `disk` says which object a name holds, its text and who wrote it;
`tab` what each editor shows and the generations its tickets compare; `queue`,
`active`, `freed`, `drain` are the admission coordinator (`save/admission.rs`,
`policy.rs`); `save` is the one save of an editor from its capture to its answer,
`op` each operation of the sidebar, `guard` the write guards, `lane` the results
on their way back in the order the workers ended, `session` the close-save session.

* `Save`, `SaveAs`, `CloseSave` queue a request; `Drain` drops what is not
  current any more (`Kept`) and admits what fits (`Rounds` repeats `Admit`, the loop
  over `admit_next`, as often as there are requests); the view is locked and the
  text captured in the same turn. `ReleasePermit` is the permit's drop, an idle of its
  own.
* `LockTarget` and `WriteSaved` are the worker: the identity is resolved, the
  guard waited for, the file replaced or not, with the error class of the failure.
* `SaveDone` is the completion: `TicketCurrent`, then `Accept`, `Failed` or, if
  formatting changed the text, the mirror-back that ends in `MirrorDone`, which may
  be overtaken and then leaves either text in the buffer, or an emptied one.
* `AskDelete`/`AnswerDelete` (the inode named by the dialog is compared again under
  the guard: `MayDelete`), `StartRename`, `TakeFirst`/`TakeSecond` (both guards in
  path order, none if both names are one target), `Act` (a rename never replaces:
  `MayRename`) and `OpDone`, which tells the tabs. The look and the call that follows it
  are two steps, `Act` and `TakeName`, and another program may come between (`slipped`):
  a delete reads the inode and then unlinks, and a rename on a file system that cannot
  refuse to replace looks at the new name and then renames, also when the look fails. An
  inode that cannot be read counts as a file that is gone. A rename whose directory sync
  fails has moved the file and tells no tab (`RenameCall`).

A text is a number, `Tidied` its formatted form. A path is a number, so that guards
have an order. A permit is given back when its save ends; in the code that is when the
worker's snapshot is dropped, and nothing compares the two moments.

Two things are exempt from `CleanMeansSaved`, and both are what the code does. A save
accepted at a name whose rename or delete it has not heard of (`raced`, see
`ds_resurrected`). And a formatted save of an unmodified tab that fails after its rename:
the buffer counts as unmodified again, so the tab is clean and its file holds the same
text, formatted (`unconfirmed`); the property then says exactly that. `NothingVanishes`
exempts what `slipped` records, and only for the call that follows the look.

### `DocumentBuffer`

One editor, in one record `ed`: its buffer and modified mark, the marks that say
what the buffer holds (`evicted`, `partial`, `incomplete`, `state`, `failed`), and
the workflows that may own it: `load` (a read, its answer, a sliced installation, a
parked successor), `rep` and `waiting` (a bounded replacement and the newest request
behind it), `save` from its queueing to its answer, `hist` (a restore that is being
prepared) and `held` (typed text). `file` is what is on disk. A text is a sequence
of pieces, those of a body and those the user typed, and a turn of a sliced workflow
takes one of them away or adds one. `DocumentSave` has the queue, the guards and the
names of several tabs, and here their buffer has the detail.

* `BeginLoad`, `LoadRead`, `LoadDeliver` and `InstallTurn` are a load; `Delivered`
  installs directly or in slices, `Published` ends it, `Abort` and `ClearedAway`
  are its cancellation, which empties what it had installed.
* `AcceptRep`, `BeginRep`, `RepTurned`, `CancelRep`, `FinishRep` are the bounded
  replacement, `IsCurrent` the freshness that each of its three workflows asks for,
  `Answered` what each does with the outcome: `RestoreReady` begins a restore,
  `Evict` an eviction, and `SaveAnswered` the mirror-back of a formatted save.
* `RequestSave`, `AdmitSave` and `CaptureDone` have the gates of a save
  (`NoWholeDocument`), asked at the queue and again at admission, after the load was
  cancelled; `Accepted` and `Unaccepted` are its two ends.
* `Type` holds text while somebody owns the buffer (`HoldsInput`); `Settle` replays
  it or rescues it into a tab of its own (`Replays`).
* `Select`, `Deselect`, `Reload`, `ReloadAffected`, `Renamed` are the user, Replace
  All and the sidebar.

Abstractions. Generations are compared for equality only, so a ticket is a flag that
the next advance takes down (`Advance`, `Notify`, `Outdate`). A capture in slices is
one step, torn if the buffer changed since it began. Formatting ends a text in a newline
(`Formatted`), and a save that formats has a text that counts (`text`) and one it writes
(`out`). A memory budget is not kept: any
tab that is eligible may be evicted. `kept` and `stray` observe where typed text went:
into a save that wrote it (from then on it is followed no more: what local history keeps
of a save may fail silently, `save/execution.rs` lines 407-421), into the safety snapshot
a restore took, into a tab opened for it, or given up by the user. A restore whose
snapshot fails is abandoned, and what it would have kept is not counted (`RestoreReady`).

Two owners can meet in one buffer; `fate.crossed` records six such meetings, and
`CleanIsWhole` and `TypedKept` stop there: a restore that answers while a load or a
save is in flight, a rename of a tab that is not loaded, a save of a tab whose load
failed, a save that answers while a load is in flight, a mirror-back that goes stale
half-way, and a load delivered under a replacement. Each of them breaks one of the two
properties in a way listed below. Apart from them `CleanIsWhole` exempts what
`CleanMeansSaved` does, a formatted save of an unmodified tab that failed after its
rename (`bare`), where the file is the formatted text of the tab; nothing else is exempt.

### `MigrationLedger`

`ledger` is the document of `model/migration_ledger.rs`; `side` says under which
path the sidecar of each kind of each document lies; `run` is the work of each
worker (notes and history of each rename, and the startup pass), `holder` the
operation lock. `Track` records the entry under the lock and keeps it until
`Leave`; `Scan`, `WriteSidecar` and `UnlinkSidecar` move a kind sidecar by sidecar
(`move_path_tree`): any of them may fail, a sidecar may be refused (its merge would
lose something), and each is passed over while the others still
move. A scan reads every sidecar of its kind, and one that cannot be read is moved to
quarantine, whichever document it belongs to, or stays if that fails too (`LoadFails`):
neither counts as a failure, and a document can so be left without a sidecar at any path.
`shelved` records it, and `SidecarsNeverLost` says that such a sidecar lies whole in
quarantine. One at the new path that can neither be read nor moved is saved over as if
there were none; what is saved over is in `displaced`. `Mark` is the update of the ledger, `GoOn` the next kind, `Snapshot` and
`Retry` the startup pass, which takes the lock kind by kind; `Relaunch` crashes.

### `LocalHistory`

One lock is held through each operation, so an operation is one step; but it is
made of durable writes, and a failure or a crash leaves any prefix of them. So
each operation is defined as the *sequence of states of the store* it passes
through (`CaptureSteps`, `MoveSteps`, `ReconcileSteps`), built from the steps of
its parts (`MoveBodies`, `StoreTrimmed`, `Prune`, `Drop`), and the action takes the
last of them (`Whole`) or any of them (`Broken`). A lineage is a directory with an
index (none, good, damaged), the owner it names, its list and its bodies.

### `TaskPool`

`spawn_blocking_then` and its lane, one step per access to the slot counter and
per section under the lane's lock: `Spawn`/`Enqueue`, the drains of the queue
(`DrainNext`, `DrainAttempt`), `Deliver` and `Attach` on the worker, `Dispatch`,
`EndCallback`, `AfterCallback` on the main loop, the yield after a run of results
(`ResumeAfterYield`), and a worker that panics (`Panic`, `WakeQueue`). A callback
may spawn tasks. The 16 ms that age a run are a choice of the model; a result
beyond `RunLimit` always yields.

### `Settle`

The `SupersedingTimer`: arms and invalidations that run inside the callback of
the timer, or inside the drop of what an obsolete callback had captured, so that
calls nest and `calls` is their stack. Removing a source that is gone would end
the program, which `crashed` records.

### `SettingsWriter`

The delayed instance (`unapplied`), the backend, the batch of pending values, the
timer and the idle of the flush. `Observed` is the writer's decision on a change
signal, `Flush` the flush, which runs within one turn: the in-flight value of the
code never outlives a step. Another process may store a value, and a process may
start again. `misread` observes the keys whose persisted value the writer has
wrong; see `sw_lost` below.

### `WorkspaceTree`

One section with one folder: `onDisk`, and what the tree shows of it (`expanded`,
`shown`, and `intent`, what it expands again after rows were replaced). `watch` is the
installed watcher with its mailbox, `install` the worker that replaces it, `targets`
what should be watched; `asked` and `due` are the gathered request and its timer,
`dispatch` the scans a refresh has not submitted yet, and `scan` the flight of each
row store: resting, waiting for a permit, reading, read, or half applied, with one
remembered request.

* `Appear` and `Vanish` are other programs; `Told` is what the mailbox makes of an
  event, `Poll` hands it to `ScheduleRefresh`, the timer runs `ApplyRefresh`, which
  plans directories (`DirectoryFor`, `Minimal`) and dispatches their scans;
* `ReadDirectory` is the worker, `ScanDone` its callback with the splice of the rows
  between the common ends (`Common`), in one turn or in two (`Batch`);
* `WantWatched`, `RestartTimer`, `Register` and `Installed` replace the watcher;
* `Expand`, `Collapse`, `RestoreExpansion`, `DeleteFile` and `DeleteShown` are the
  user and what follows.

A change can go unreported: made where nothing was watched, lost with the mailbox of
a watcher that is replaced, or overlooked by the plan of a refresh. `missed` records
the directories this happened to until they are read again, and `TreeKeptCurrent`
exempts them; the ways are listed below under *Noticed while modelling*. Nothing else
is exempt.

Abstractions. The reading of a directory is one step: a change during it is reported
and asks for another. A large splice has two turns, the second with the remaining
rows. Scans of a store that was replaced or collapsed only hold their permit
(`orphans`). Row stores of torn-out directories that are expanded again are new ones.

### `DurableMove`

`RenameProtocol` and `MoveProtocol` with the caller that tries the rename first and
copies across file systems. A disk is the set of names the whole file is found
under, `survivors` what a power loss may leave. Assumed of the file system: a
rename between two directories is one transaction. The copy is one step here; that
it is a whole durable write is `DurableWrite`.

### Instances

`MCDurableWrite`, `MCDraftJournal`, `MCReplaceJournal`, `MCDocumentSave`,
`MCDocumentBuffer`, `MCMigrationLedger`, `MCLocalHistory` and `MCWorkspaceTree` give
constants their values. `MCDurableWorlds`, `MCDocuments` and `MCBackground` check
several instances in one run: a variable (`world`, or `focus`), chosen at the start,
says which; in the first the worlds are instances of one module with different
constants, in the other two each world is a component, and the others stay as they
were.

## The runs

Bounds are constants that only guards mention (`MaxVersion`, `MaxWorkers`, …).
`DraftJournal`, `DocumentSave`, `DocumentBuffer` and `LocalHistory` take a set of records
of bounds (`Bounds`, `Worlds`, `BufferWorlds`, `HistoryBounds`); each behaviour has one of them, so that one
run checks several small worlds.

| run | instance | properties | what it shows |
|---|---|---|---|
| `dw_worlds` | two writers, one kill or power loss: two threads of one process with permissions and an explicit metadata source; two processes that sweep each other's day-old temp files; two processes whose launches drew one identity | `NeverWider`, `CrashAtomic`, `ClassificationSound`, `SweepSparesOwnWrites`, `ModePreserved`, `ImplementsAtomicReplace`, `InstallsOwnBytes`, `WriteAnswered` | the target is never torn, an acknowledged write survives, error classes are true, a sweep spares the writes of its launch, permissions are those of the very file replaced, unsaved bytes are never readable more widely, a rename installs its writer's bytes, every write is answered |
| `dj_worlds` | one window, two edits, a save or an external change, one failing call, one crash; two windows, a file and an untitled document, one edit, one tab moved; one window, a draft from before, one failure among read, install and copy | `TypeOK`, `AcceptedInAll`, `BodiesDescribed`, `CleanInOne`, `TrustedViewsAgree`, `OneJournalWorker`, `HeldBodyPreserved` | accepted text stays on disk through failures and crashes, bodies are described, an editor shown as autosaved is, the lane keeps the windows' work apart and their views together, a body the user has not seen is replaced or deleted only after it was copied |
| `dj_live` | two windows, one edit, no failure | `EditsAutosaved`, `DeletionsEnd` | nothing that waits for the lane is forgotten |
| `documents` | one of three worlds. Saves: two editors, one heavier than the budget, three names, a sidebar: three saves; saves against one operation; Save As against one operation; one save and one operation with a failure or another program, or the operation with both; two operations. Replace All: one window, two files, two runs, one undo or refused run, and any two of a save, a failing call and a crash (`MeetsTwo`). A buffer of two pieces (in one world of one): evicted, looked at and reloaded with a failure; opening, with a save, a rename, a reload and a failure, or two reloads; restored, renamed, and saved once with a failure or twice; evicted, restored, reloaded, renamed and saved; always one typed text | `DocumentsTypeOK`, `CleanMeansSaved`, `WithinBudget`, `NothingVanishes`, `UndoDurable`, `UndoTakesBackOneRun`, `CleanIsWhole`, `TypedKept`, `EverythingEnds` | a clean tab shows what its file holds, and that is a whole document; typed text is kept; admitted bytes stay in the budget; no file goes that nobody named; the latest run stays undoable through a crash at any point, and undo is exact; every save, operation, transaction, lock and held text ends |
| `background` | one of seven worlds: four tasks on two slots; two renames of two documents with a failing call, a refused sidecar and a relaunch; two documents' history with two renames, two broken operations, damage or back-dated snapshots; two settings, four changes, one outside change, one restart; a move with two power losses; five timer calls nested four deep; a folder with two expandable directories, with two changes and an expansion or collapse, a change and a refresh, or a change and a delete, splices of both sizes, mailboxes of two paths, one scan at a time | `BackgroundTypeOK`, `NoneStranded`, `OneSource`, `SidecarsNeverLost`, `OthersStillMove`, `NothingForgotten`, `KindsTogether`, `BodiesKept`, `HistoryFollows`, `FlushOnItsWay`, `MoveKeepsFile`, `NewestArmWins`, `TreeKeptCurrent`, `RenamesEnd` | no task, result, sidecar, snapshot, setting, file or timer is lost or stranded, a tree that calls itself ready shows what was reported, and every rename ends |
| `dj_overtaken` | two windows, two edits, a save, no failure | `AcceptedDurable` (violated) | a finding, below |
| `dj_latetime` | one window, one edit, a save, a crash | `RestoresUnsavedWork` (violated) | a finding, below |
| `rj_revived` | one window, one file, one run, its undo, a crash | `CleanupNeverRevives` (violated) | a finding, below |
| `ds_resurrected` | one save, one delete or rename of its file | `NothingResurrected` (violated) | a finding, below |
| `db_half` | one large tab, an eviction and a reload, no failure | `ShownWhole` (violated) | a finding, below |
| `wt_removed` | a folder with an expanded directory, one removal | `RemovedRowsClear` (violated) | a finding, below |
| `sw_lost` | two settings, four changes, no other process, one launch | `ExactAtExit` (violated) | a finding, below |

Why the bounds are enough. Two writers with two writes cover every pair of
racing steps, and a third adds no relation the properties compare; three launch
identities let a restarted process differ from both live ones; one name or two
attempts exercise the retry and its end. In the draft journal one edit makes a
draft and a second makes it stale while work on the first is in flight; one file
version separates a draft from the file it was written against; two windows are
what the lane tells apart. In the undo journal two runs supersede one another,
two files make a partial undo and a partially armed journal, and one failing call
together with one crash reaches every mixture of members the directory can be
left with. Two editors and two sidebar operations over three names let a save
meet a rename, a rename meet the opposite rename, and the queue hold a save that
does not fit; the heavier editor is admitted only alone. A body of two pieces has a
state in which it is half there, between two turns, and one of one piece takes the
direct way; one typed text is before, during or after each owner; two saves follow one
another, or one meets what a failure of the other left. In the pool, four tasks
on two slots make two wait while two run, and a run of two results yields. The
ledger's two renames are of a folder and then of a file in it, which is a chain
for one document and a bystander for the other. Three or four snapshots exceed the
per-document limit of two and the global one of three. Two power losses let a move
be tried again after the first.

Interchangeable identities are treated as such: windows in `dj_worlds`
(`WindowSymmetry`), launch identities and writers in `dw_worlds` (`FirstIsOurs`,
`FirstIsDrawn`: a state constraint by hand, since that run checks liveness).

The worlds of `dj_worlds` are apart because of what the runs below show: with a
failing copy `AcceptedDurable` is violated (an unkept body, below), and with two
windows and two edits as in `dj_overtaken`; `CleanMeansDurable` fails with two windows for
the second reason too. `AcceptedInAll` and `CleanInOne` say in which worlds each is
claimed. In the history world damage and back-dated snapshots come apart, and
back-dated ones without failures, for reasons given under *Where the code and its
documents disagree*. In the ledger world `calm` renames wait for the moves of the
one before, and `NothingForgotten` is claimed for those.

`CHECK_DEADLOCK FALSE` is set where the process can rightly stop: a crash with no
launch left, all edits typed and saved, all work done. `DurableWrite` has an
explicit step for that, `Quiescent`, so deadlock is checked there: no writer waits
for ever.

Every property of a passing run is listed in `PROJECT.json` with a faulty version
of one definition (a dropped guard, a missing sync, a swapped order) under which
TLC finds it violated. The faulty versions stand in the modules next to the
definitions they spoil, marked as such.

## Fairness

* `DurableWrite!FairSpec`, and `WorldsSpec` of `MCDurableWorlds`: weak fairness
  of each writer's steps. Threads are
  scheduled and system calls return. Weak fairness of `Acquire` would not be
  enough for an arbitrary number of writers that overtake one another for ever;
  a behaviour has a bounded number of writes, so a guard that is always handed on
  is eventually free for good.
* `DraftJournal!LiveSpec`: weak fairness of each window's worker steps, of its
  autosave timer, of the restore steps, and of the idle wakeup. Worker results
  and idle callbacks are dispatched by the main loop, and the autosave timer is
  periodic. The user and other programs are not fair: nothing assumes a save.
* `ReplaceJournal!FairSpec`: weak fairness of the work under the lock, of taking
  the lock, of the delivery of results and of the undo worker. A crash disables
  nothing that has to happen after it: the panel is gone with its transaction.
* `MigrationLedger!LedgerFair`: weak fairness of each worker and of the startup
  pass. Renames are made by hand and a behaviour has a bounded number of them, so
  a lock that is always handed on is eventually free for good.
* `DocumentBuffer!BufferFair`: weak fairness of the machine as a whole: idle sources are
  dispatched, workers return, and a turn that has work left schedules the next.
* `DocumentSave!SaveFair`: weak fairness of the machine as a whole, that is of
  workers, drains, permits and the main loop together: while one of them can take a
  step, one is taken. The user need not answer a dialog.

`EverythingEnds` of `MCDocuments` says that whatever is at work (`SaveWorking`,
`ReplaceWorking`, `BufferWorking`) comes to rest again; the bounds see to it that users
do not keep all of it busy for ever.

The other modules state no liveness: `NoneStranded` and `FlushOnItsWay` say that
what has to happen next is scheduled, which is what the code is responsible for.

## The proofs

| module | theorem | |
|---|---|---|
| `DurableWrite_proofs` | `TypeCorrect` | `Spec => []TypeOK` |
| | `NeverTorn` | `Spec => []CrashAtomic`: no kill, power loss, race or sweep leaves a destination that is neither the old nor a whole, synced new file |
| | `ClassesTrue` | `Spec => []ClassificationSound`: `BeforeRename` means the bytes never were the destination, `AfterRename` and `Success` that they became it |
| | `BytesNeverWider` | `Spec => []NeverWider`: the new bytes are never readable by more than the file they replace |
| | `SweepSpares` | `Spec => []SweepSparesOwnWrites`: no sweep is about to remove a temp file of its own launch |
| | `RenamesOwnBytes` | `Spec => InstallsOwnBytes`: a rename installs the renaming writer's own, whole bytes |
| | `PermissionsKept` | where one process writes, `Spec => ModePreserved`: a save keeps the permissions of the very file it replaces |
| | `Implements` | `Spec => ImplementsAtomicReplace`: the protocol implements the replace a caller is promised |
| | `MoveLosesNothing` | `MoveSpec => []MoveKeepsFile` (of `DurableMove`): the file is under one of its names, and a move reported done stays done |
| | `Inductive` | `Spec => []IndInv`, from which the first three follow; `FullyInductive` is the same for `FullInv` and the rest |
| `ReplaceJournal_proofs` | `TakesBackOneRun` | `Spec => UndoTakesBackOneRun`: undo takes a file back by exactly one run |
| | `UndoableAlways` | with one window, `Spec => []UndoDurable`: what the latest run wrote can be undone, at every moment and after every crash, until a read of its journal fails |
| | `EntriesAlwaysAreRuns` | `Spec => []EntriesAreRuns`: every entry is one run of one file, and every variable has its type; `TakesBackOneRun` follows from it |
| `DraftJournal_proofs` | `EveryBodyDescribed` | `Spec => []BodiesDescribed`: no file's body is on disk without its manifest entry |
| | `OneWorker` | `Spec => []OneJournalWorker`: exactly the window that holds the lane has journal work in flight |
| | `ViewsAreCurrent` | `Spec => []ViewsCurrent`: with no journal work in flight, a trusted window knows no entry the manifest lacks or has otherwise |
| | `DraftTypes` | `Spec => []TypeOK` |
| | `DraftInvariant` | `Spec => []DraftInv`, from which the four above follow |
| `DocumentSave_proofs` | `BudgetKept` | `SaveSpec => []WithinBudget`: admitted saves stay within the byte budget or one is alone, and no permit is lost |
| | `NobodyVanishes` | `SaveSpec => NothingVanishes`: no file goes that nobody named, but one another program put there between a look and a call, or a failed look missed |
| | `CleanIsSaved` | `SaveSpec => []CleanMeansSaved`: a clean tab shows what its file holds, with the two exemptions above |
| | `SaveTypesHold` | `SaveSpec => []SaveTypeOK`, with one holder of each write guard |
| | `SaveInvariant` | `SaveSpec => []SaveInv`, from which the others follow, `CleanIsSaved` with `CleanInv` |
| `DocumentBuffer_proofs` | `CleanTabsShowTheFile` | `BufferSpec => []CleanIsWhole`: a tab at rest that says it has no changes shows its file, which is a whole document, or the text a failed save formatted it from |
| | `NothingTypedIsLost` | `BufferSpec => []TypedKept`: what was typed and no save has written is held, in the buffer or the file, in a safety snapshot, or in the tab it was rescued into |
| | `BufferTypes` | `BufferSpec => []BufferTypeOK`, with one stage of a load and one owner's phase at a time |
| | `BufferInvariant` | `BufferSpec => []BufferInv`, from which the three above follow |
| `MigrationLedger_proofs` | `NoSidecarLost` | `LedgerSpec => []SidecarsNeverLost`: each document keeps its sidecar of each kind at some path or in quarantine, or another one was saved over it |
| | `LeavesOnlyRefused` | `LedgerSpec => []OthersStillMove`: a pass leaves behind only what was refused or unreadable |
| | `KindsStayTogether` | `LedgerSpec => []KindsTogether`: between renames the kinds of a document's notes lie at one path |
| | `NothingIsForgotten` | `LedgerSpec => []NothingForgotten`: at rest, a sidecar that is not with its document is still owed, but for one in quarantine or passed over as unreadable |
| | `LedgerTypes` | `LedgerSpec => []LedgerTypeOK` |
| | `LedgerInvariant` | `LedgerSpec => []LedgerInv`, from which the five above follow |
| `Documents_proofs` | `DocumentsTypes` | `DocumentsSpec => []DocumentsTypeOK`, for the composition that the run `documents` checks |
| | `DocumentsKeepPromises` | the same for `CleanMeansSaved`, `WithinBudget`, `CleanIsWhole`, `TypedKept`, `NothingVanishes` and `UndoTakesBackOneRun`, each with what it exempts |
| `Background_proofs` | `NoTaskStranded` | `PoolSpec => []NoneStranded`: a task waits only while every slot is held or a drain is on its way |
| | `LaneHasOneSource` | `PoolSpec => []OneSource`: a result in the lane has exactly one source that will deliver it |
| | `SettingsReachTheBackend` | `SettingsSpec => []FlushOnItsWay`: what readers see and the backend lacks is pending, and its flush comes |
| | `NewestWins` | `TimerSpec => []NewestArmWins` (of `Settle`): a source waits exactly if the newest call was an arm, and no source is removed twice |

### The durable write

`DurableWrite_proofs` proves, for every set of processes, writers and launches,
every umask and metadata source, and every number of writes and crashes, from
the assumptions of `DurableWrite` alone, the theorems above.

None of the properties is inductive. That `rename` installs a whole, synced file
depends on who may have created, removed or renamed the name it is called on, so
`IndInv` adds:

* `AttemptsLeft`: a name is tried only while an attempt is left;
* `VersionsDistinct`: a version names one running write;
* `TempsDrawn`: a writer's temp name was drawn by its own launch, before the
  launch's next draw – so two writers of one launch never share a name;
* `TempsOwn`: what a writer finds under its temp name, if anything, is its own
  file, brought as far as its phase says – this is what `CrashAtomic` needs at
  `Rename`;
* `TempsKept`: where no file turns old, nobody frees a name but its owner – so
  exclusive creation protects launches that share an identity;
* `PhaseTellsRename`: a version was renamed exactly when the phase of its running
  write says so – this is what `ClassificationSound` needs at `Finish`.

The argument has one lemma per action (`CreateTempIndInv`, `RenameIndInv`,
`PowerLossIndInv`, …), each with one step per conjunct the action can disturb,
and lemmas for what several actions share: `StepTable` (the protocol's table),
`OwnersDiffer` (two writers never own one file), `FreedIndInv` (a name that is
freed was nobody else's), `DropIndInv` (the locals of a write that is gone).

The permissions, the sweep and the refinement need more. `FullInv` adds to
`IndInv`:

* `TempsNarrow`: a temp file is never wider than the permissions the write has
  planned, and has exactly those once the metadata is applied – this is
  `NeverWider`, with what makes it true of the file that `Rename` installs;
* `DoomedForeign`: the name a sweep has chosen was drawn by another launch;
* `GuardHeld`: inside a write, the guard of the process is the writer's;
* `ProbeHolds`: where one process writes, the permissions that were probed are
  still the destination's – between two processes nothing protects that, which is
  why `PermissionsKept` has that hypothesis and `dw_worlds` one world for it;
* `PhaseTellsHardened` and `IdleHasNone`: the bookkeeping that lets a crash in
  `DurableWrite` be a crash of `AtomicReplace`.

Each has a lemma over all actions (`GuardHeldStep`, `TempsNarrowStep`, …); the
lemma `StepSorts` says what an action may do at all, so that those lemmas need not
open each of them. `StepImplements` takes the actions one by one: a rename is the
promise's installation, the sync of the directory its hardening, a power loss its
crash, and everything about temp files, guards and sweeps a stutter.

`LaunchAssumption` is the one assumption about the world: either no two live
launches draw the same identity (a pid and a random nonce), or no temp file
grows a day old while it is being written. A third process that sweeps a day-old
live temp file of one of two launches with one identity would free its name for
the other; the code has no defence against that coincidence and needs none.

### The durable move

`MoveInv` adds to `MoveKeepsFile` that the disk as it is may survive, and `Reached`:
what each pending action may rely on. Its centre is that a source is removed only
when every disk that may survive has the destination.

### The Replace All journal

`ReplaceJournal_proofs` holds for any set of files and windows and any number of
runs, undos, saves, crashes and failing calls; what `UndoableAlways` claims of a run ends
with a failed read of its journal (`forfeited`). `SentinelAssumption` says only that
`NoFile` is no file.

`UndoTakesBackOneRun` speaks of one step of an undo, but which entry that step uses
was decided long before. `SoundInv` says of every entry, wherever it is – in the
journal, in the hand of the worker, in a panel, in its queued work and in its
answers – that it is one run of one file: what was read of the file, and that with
one run on top. What an undo then takes off is the run that is last. `EntriesAreRuns`
is `SoundInv` with the types of `retired` and `forfeited`; it is the part of
Replace All in `DocumentsTypeOK`.

`UndoDurable` relates the files on disk to the journal on disk, and both change
under a lock while panels queue further work. `DurableInv` adds:

* `RunsInOrder`: runs are numbered in the order in which they write a file, in
  every entry – so an entry of an earlier run is never taken for one of the latest;
* `ApplyJournals`: a run under way is the latest, writes a file only after its
  entry is in an active journal, and clears the journal only before its first file;
* `OthersSpare`: other work under the lock finds nothing to protect (`Load`,
  `Delete`) or leaves the entries of the latest run (`Save`);
* `PanelDurable`, of each panel: `RunTicket` (a run is queued, under way or
  reported, once, and meanwhile the panel owns no undo), `CurrentWork` (journal work
  whose generation is current is what the panel wants now; the rest is ignored when
  it arrives), `PanelCovers` (what the panel offers to undo covers the latest run).

`UndoableAlways` has the hypothesis `OneWindow`. With two windows the journal is
shared and the invariant is false: the clear of one window's undo deletes the
entries of the other's run, which the hazard at `journal.rs:494` describes.

### The draft journal

`DraftJournal_proofs` holds for any documents, any finite set of windows and any
bounds on edits, file versions, tab moves, crashes and failing calls.
`WindowAssumption` says the set of windows is finite (a wakeup gives each of them
its turn), `SentinelAssumption` that the markers (no entry, no body, no window, …)
are none of the values they stand beside, `DocAssumption` and `BoundsAssumption`
what the constants are.

`OneJournalWorker` is about the lane, `BodiesDescribed` about the disk, and neither
is inductive: whether a pass may write a body depends on what its window knew of the
manifest when it registered, possibly several commits of other windows and one crash
of a command earlier. `DraftInv`, at the end of `DraftJournal`, adds:

* `OnlyRunning`: only running windows show editors, restore or work, and one of them
  schedules cleanup – so a worker's answer finds the window that asked;
* `Orderly`: the lane's holder is the worker (`OneJournalWorker`), its work is in a
  step of its kind, and what it is to commit bears versions that files have had;
* `ViewsFollow`: a trusted window knows nothing that the manifest does not say
  (`ViewsTrue`), unless the answer of a command (`Untold`) or of a cleanup
  (`SweepUntold`) is under way, which will tell it or revoke its trust. Those need
  the lane, so no window starts a pass on a view that lags – this is
  `ViewsAreCurrent`;
* `JobGrounded`: once a pass has registered, every file it still writes has its entry,
  or the answer that drops the file from the pass is under way; once a deletion is
  about to remove an entry, its body is gone;
* `Described`, which is `BodiesDescribed`.

Of a process `u` over a disk `k`, `Sane(u, k)` is all of this but the counters. A GTK
turn is a chain of the operators of `DraftJournal` (`Finish` releases the lane and
drives what is queued, which may start a deletion or a pass, …), so there is one lemma
for each operator, *sane before, sane after* (`TickSane`, `DriveSane`, `FinishSane`,
`QueueDeleteSane`, …), over lemmas for what several share: `QuietChange` (a turn that
starts no work), `WorkStarts` (one that takes the free lane), `WorkStep` (a worker's
step). Above them, one lemma per action (`RegisterInv`, `CommitDoneInv`, `SweepInv`,
`LaunchInv`, …), and `NextInv` puts them together. `AdoptViews`, `AddedViews` and
`RejectViews` are the heart of `ViewsFollow`: a commit tells every window what the
manifest says, an unconfirmed registration adds to what each knows and revokes trust,
a failure revokes trust; `CommandEnds` says what a command may leave on disk.

`Wake` gives the windows their turns in any order, one after the other. Its turns are a
recursive function of the position in that order (`Turns`), and that they are what their
definition says (`TurnsDef`) and keep the process sane (`TurnsSane`) is shown by the
least position at which they would not: what an induction over the order would give
comes from the well-foundedness of the naturals (`LeastNatural`).

### The document save

`DocumentSave_proofs` holds for any editors, names, weights and budget, and any number
of edits, saves, operations of the sidebar, failures and changes by other programs.
`WithinBudget` speaks of admitted saves and permits, which depend on what is queued,
on what workers return and on who holds the guards. `SaveInv` adds:

* `GuardsOwned`, part of the type invariant: a save at work owns its editor, and a
  guard is held by the save that writes its name or by the operation that acts on it;
* `QueuedOnce`: a queued request is the newest of its editor, which has no other and
  no save at work – so a drain begins at most one save of each editor;
* `IdsApart`: requests, saves at work and freed permits have ids of their own – so a
  release frees the permit of a save that has ended;
* `OpsPlaced`: what an operation names, and that a rename which waits for its second
  guard holds the first;
* `LaneOnce`: a result is in the lane once and its owner waits for it – so no save
  ends twice.

`CleanMeansSaved` compares a tab with a file, and a save compares neither: its worker
wrote what the tab showed when the save was admitted, to the name the tab had then, and
its completion arrives after other saves, renames and deletes. `CleanInv` follows the
text of each tab:

* `SaveFits`: a save at work was admitted for the tab as it is, or the tab has moved on
  (`pathGen`), and it has a result only once its worker has run;
* `Shown`: an unmodified tab with no successful write under way shows what its file
  holds, or holds the text its formatted file was made from (`MayHold`: `unconfirmed`, or
  a failed save that is about to say so);
* `Written`: a write that succeeded and whose ticket is still current left its text at
  the name it wrote, unless an operation overtook it.

`NothingVanishes` needs `StillSeen` besides `SaveInv`: what an operation saw when it looked
is there until its call, since the guard of the name keeps every save and every other
operation away – all but another program, or a look that failed.

In earlier form `CleanMeansSaved` was false for more than one operation: a tab is saved as a
third name while that name is deleted and the tab's old file is renamed to it, all before
the completion; it then passes for the clean owner of a file it never wrote. A tab
such a save was accepted in is in `raced` (`Overtaking`), as with the single rename of
`ds_resurrected`, and a save's tab owns no other name than the one it wrote (`Owns`).
`CleanKeeps` and the lemmas under it take one step of the protocol at a time.

The budget is a sum over a set, `Charge`, a fold of the community modules. That it does
not depend on the order (`ChargeAdds`) and grows with the set (`ChargeShrinks`) is shown
by a smallest set for which it would not (`SmallestSet`), from the well-foundedness of
the naturals. `Kept` and `Rounds`, the two loops of the drain, are recursive functions of
the position, and `KeptFacts` and `RoundsKeep` say what they have done at each: the
requests that are left and those that were admitted are current, of different editors,
and together no more than `FitsAllowed` grants. `SameSavesKeep` and `SaveEnds` are shared
by the actions: the first by all that begin and end no save, the second by every way to
end one. A permit whose release is on its way still counts, as it does in the code.

### The document buffer

`DocumentBuffer_proofs` holds for bodies of any size and any number of typed texts, looks,
reloads, renames, evictions, restores, saves and failing calls. `BufferAssumption` says
only that these bounds are numbers and a body is not empty. Both properties say nothing
once two owners of a buffer met (`fate.crossed`): those meetings are what `db_half` and
the hazards show, and there the code keeps neither.

What a tab shows at rest was brought there in slices, by whoever owned the buffer last,
from a text that was read or captured many turns earlier. `BufferInv` is the types and,
until two owners meet, `Sound` and `LooseShown`. `Sound` says of the editor and its file:

* `TextWhole`: unless it is being changed, was given up or was evicted (`Elsewhere`), the
  buffer holds a whole document, or none came yet, or it was emptied and nothing was typed
  since, and no save begins on that – so no save captures a half;
* `LoadBrings`: what a load read, and what it has installed together with what it still has
  to install, is the file – but for a save that wrote meanwhile and whose answer will make
  the load or the save stale;
* `RepBrings`: the same of a restore or a mirror-back; an eviction installs nothing;
  a replacement and an installation do not both own the buffer, and only a restore waits;
* `SaveHolds`: what a save captured is whole, the tab still shows it as long as its ticket
  is current, what it writes is that text or its formatted form, and a write that reached
  the name is what the file holds;
* `CleanShows`: what calls itself clean shows the file, also in the moments before
  `CleanIsWhole` asks, or is one of the texts (`bare`) a failed save of the formatted text
  left in a clean tab.

`LooseShown` is about typed text that nobody holds and nothing keeps (`Loose`): it is in the
buffer, the tab is modified, not evicted and not incomplete, nobody but a save owns the
buffer, a restore that was asked for and is current has it in the text of its snapshot, and
a save that succeeds has it in what it writes. So an
owner that throws the buffer away finds no such text.

`EditorOK` in the type invariant keeps the phases apart. Each action changes an editor by a
chain of operators (`FinishRep` ends one replacement and begins the next, `CancelLoad` aborts
an installation and may begin a parked load, …). For each there are up to three lemmas:
what it changes (`...Is`), that the editor stays well formed (`...OK`, `...Plain`), and that
it stays sound (`...Sound`); above them one for each action (`...Keeps`).

### The documents together

`Documents_proofs` takes the composition that `documents` checks: a world leaves the
components it has not chosen as they begin, so a step of `DocumentsSpec` is a step or a
stutter of each component (`WorldsAreComponents`), and what is proved of each for any
constants holds of all three.

### The migration ledger

`MigrationLedger_proofs` holds for any documents, paths and renames, any sets of refused
documents, and any number of failing calls and launches. `LedgerInv` adds to the properties:

* `LockHeld` and `JobsFit`: who holds the operation lock in which step, and that a worker's
  jobs are of one rename and have the generation of its entry;
* `AllPassedOver`: how far a pass is – what it left at the paths it is through with was
  refused, unreadable or failed, and a sidecar leaves its old path only when the
  new one has it, or has another one (`displaced`), or for quarantine (`shelved`);
* `OneRename` and `AllPending`, in the worlds where the user waits (`calm`): what is pending
  is of one rename, no document is at a path it leaves, and a sidecar that is not with its
  document is owed by the ledger or by a worker that has not recorded its entry yet;
* `HastyWorld` and `KindsMeet`, in the others: the kinds of a document would be together
  if the pass under the lock had ended.

That `NothingForgotten` needs `calm` and `KindsTogether` its opposite is not an artifact of
the proof: *Noticed while modelling* says what happens otherwise.

### The pool

Of the pool, `Background_proofs` holds for any finite or infinite set of tasks, any number of
slots and any run limit. `NoneStranded` speaks of the queue, the counter and the
drains; it is kept by a release on the main loop only because the counter counts
exactly the holders, and by a panic only because the worker still owes a wake. So
`PoolInv` adds:

* `SlotsCounted`: `slots` is the number of tasks that hold one, which are finitely
  many – without it a release could free a slot that was not taken;
* `WaitersKnown`: the queue and the hand of the main thread hold each waiting task
  once, and no other;
* `ResultsKnown`: the lane and the callback under way hold each finished result
  once;
* `SourceKnown`: the sources of the lane are counted through arming, dispatch,
  yield and re-attachment – this is `OneSource` with the moments in between;
* `WaitersServed`: `NoneStranded` with the moments in which the main thread holds a
  task in its hand.

There is one lemma for each of them over all actions (`SlotsStep`, `WaitersStep`,
…), since each is disturbed by other actions.

### The settings writer

`SettingsInv` is the types, `ReadRight` for every key that is not in `misread` (the
writer's pending value is what readers see exactly when the backend lacks it, and
the value it takes for persisted is the persisted one) and `FlushComes` (after the
first frame, something pending means a timer or an idle). `FlushOnItsWay` is their
consequence. The exemption of `misread` is needed: it is what `sw_lost` shows.

### The settle timers

`NewestArmWins` says nothing while a call is under way, and calls nest: the closure
that an arm drops may arm again. `TimerInv` adds `CallsNest` (a dispatch is the
outermost of the calls, and an inner call has the newer token) and `NewestDecides`
(what exists besides a source that is being dispatched is what is scheduled, and
that is what the newest call leaves). The proof is by the depth of the stack: a
call that returns has the newest token or it does nothing.

### Only model-checked

* Liveness under fairness (`EverythingEnds`, `dj_live`): neither fairness nor
  ENABLED is within the provers' reach.
* `TrustedViewsAgree`, in one direction. `ViewsAreCurrent` proves that trusted windows
  claim nothing the manifest does not say. The converse, that a trusted window knows
  every entry no deletion is pending for, holds in the worlds of `dj_worlds` and not
  for any number of failures. TLC finds it broken with two: a body that could not be
  deleted leaves the entry on disk, the next pass of that id drops its tombstone, and
  the copy of the superseded body fails, so the registration is given up (`Unkept`)
  and no answer tells the window of the entry.
* `AcceptedInAll` and `CleanInOne`, which are true of the worlds they are checked in and
  are no theorems for arbitrary constants: the runs that expect a violation show the
  worlds that are left out. `HeldBodyPreserved` of the journal depends on the same worlds:
  a tab that moves while its restore is pending leaves its hold behind.
* `BodiesKept` and `HistoryFollows` of local history speak of folds over sequences,
  `TreeKeptCurrent` of paths walked by recursion and of scans by folds. What these compute
  for every input is an induction over data, which the provers cannot apply; where the
  definition is a recursive function or a fold over a finite set, as the turns of `Wake`
  and the budget of the save are, a least counterexample stands in for it.
* `BackgroundTypeOK`, as a whole: `LedgerTypes` proves its part of the ledger, and the
  invariants of the pool, the settings writer and the move contain theirs; those of
  local history and of the tree are only checked.

## Where the code and its documents disagree

Seven runs show a behaviour of the code that one of its own documents or comments
excludes; `PROJECT.json` quotes the lines.

* `dj_overtaken`. A deletion waits while another window holds the lane. The lane
  is freed, and before the idle wakeup runs, an autosave tick of the waiting
  window writes and accepts newer text of the same draft. The deletion then runs
  and deletes that text: the queue is driven without asking whether the deletion
  is still the draft's latest intent.
* `dj_latetime`. The time of the file is read after the body was written. A save
  in between is recorded as the version the draft belongs to, and after a crash
  the older draft is restored over the saved file.
* `rj_revived`. The marker that says a journal is being cleaned up lies inside the
  directory that is then removed member by member. If it goes first and the
  process dies, the next launch offers the finished undo again.

* `ds_resurrected`. A save resolves its target and waits for the guard that a
  delete or a rename holds. When it gets the guard it writes, and the name that was
  taken away exists again. The guard orders the two; a comment in
  `file_execution.rs` says that it keeps the save from landing afterwards. If such a
  save is accepted before the news of the rename arrives, the tab goes to the new
  path as a clean one, with the old text there (`raced`, exempted in
  `CleanMeansSaved`).
* `db_half`. A reload asks whether an installation of its own is under way, and not
  whether a bounded replacement is. A run of Replace All reloads a tab that an eviction
  is clearing; the load makes the eviction stale, so the eviction goes on to clear the
  buffer, between the turns of the installation, and deletes the head of what was just
  installed. The load then publishes a clean document without its head.
* `wt_removed`. A directory that is expanded in the sidebar is removed by another
  program. The watcher reports its path, and the plan of the refresh maps a path to
  itself if it is an expanded directory: the directory that is gone is scanned, which
  fails and keeps the rows, and its parent is not listed. The row stays, with its
  actions, until a full refresh. The test of this case queues the parent's path.
* `sw_lost`. A setting is toggled and toggled back within one persistence window.
  The second toggle equals the stored value, so the writer records that value as
  persisted and leaves the first one pending; the flush acknowledges the pending one
  as persisted although the backend holds the other. When the user then chooses the
  first value again, it equals what the writer takes for persisted and is dropped,
  and the flush of the close reverts it. An outside change under a pending value
  leads to the same.

Noticed while modelling, without a run:

* The user discards a file whose draft was never shown, and the copy that must precede
  its deletion fails (`ui/window/drafts/journal.rs`, line 804). The body stays, but
  neither the hold nor the entry does, so the next edit's pass overwrites it, where
  `ui/window/drafts/mod.rs` (lines 97-98) says autosave keeps holding the id. With
  `Bounds <- MCUnkept` TLC finds `AcceptedDurable` violated.
* Six more meetings of two owners of one buffer. (1) `update_tab_path` makes a tab
  Loaded whose load is in flight; the next save passes the gate that
  `save/admission.rs` (lines 122-127) says every save is refused by, cancels the read,
  and writes the empty or the old buffer. (2) A mirror-back that goes stale half-way
  leaves the buffer emptied and marked modified, and the next save writes it. (3) A
  restore that answers while a save is in flight is marked clean when the save is
  accepted, where `src/openspec/specs/local-history/spec.md` (line 117) has the editor
  modified. (4) A load that failed or was cancelled leaves an empty buffer in a tab no
  gate of a save refuses. (5) A document reloaded while its save is in flight may show
  the bytes from before the save as clean. (6) The safety snapshot of a restore may be
  taken while a mirror-back has replaced a part of the buffer. With the exemption of
  any one of the first five taken out of `DocumentBuffer`, TLC finds `CleanIsWhole`
  violated; the sixth is why typed text is followed only until a save has written it.
* A formatted save of an unmodified tab that fails after its rename leaves a clean tab
  whose file holds other bytes: `save/execution.rs` (lines 546-552) restores the modified
  mark of before the save. The comment of `save/policy.rs` (lines 379-381) has a clean
  tab only where the file holds its text. The text is the same up to formatting, so
  nothing the user typed is lost.
* One failed read is enough to lose what was kept for later: a startup load that cannot
  read one member of the undo journal deletes the journal (`search_panel/journal.rs`,
  lines 435-444), and a scan of a rename that cannot read one sidecar, of any document,
  moves it to quarantine, from where nothing brings it back
  (`services/recovery_metadata.rs`, lines 1031-1060). The models follow the code in both;
  the properties say what is left.
* A file renamed in the sidebar whose directory sync fails has its new name, but the
  sidebar reports a failure and no tab hears of it, so the next save creates the old name
  again (`services/durable_write.rs`, lines 554-578).
* Text typed into an evicted tab whose reload failed is dropped by the next reload; the
  model does not count it as the document's (`stray`).
* The tree misses a change in four ways, which `missed` records. While the watcher is
  replaced nothing is watched, the mailbox of the old one is dropped, and no refresh
  follows the installation. A scan whose rows were changed by a delete in the sidebar
  is dropped and not repeated. A targeted refresh drops a directory if one above it is
  in the plan, which is scanned without it, though `src/openspec/specs/workspace-tree-refresh/spec.md`
  (lines 6-7) wants the visible trees kept aligned; and it forgets what an earlier
  refresh had not dispatched yet. A directory that is removed and comes back is not
  watched any more, since the wanted directories did not change.
* The hold of a restore belongs to a window, and `adopt_transferred_tab` leaves it
  behind. A tab dragged to another window while its restore is pending is not held
  there: a discard deletes the unseen body without the copy that
  `ui/window/drafts/mod.rs` (lines 82-83) promises. With `Bounds <- MCHeldMoves` TLC
  finds `AcceptedDurable` violated; no other world moves a held tab.
* `src/openspec/specs/search-replace-safety/spec.md` (lines 63-64) has the undo
  journal cleared when the search panel closes and at a later launch, while
  `src/docs/recovery-reliability.md` (lines 37-40) and the code keep an active
  journal through both. The model follows the code.
* The operation lock does not order two renames that wait for it: the second hop of
  a chain may run first and find nothing to move, against what
  `services/migration_ledger.rs` (lines 60-66) says of chained renames.
  `ChainedRenamesFollow` states it; with `Refusals = {{}}`, `MaxFaults = 0` and
  `LedgerSpec` TLC finds it violated, and `NothingForgotten` is claimed for
  renames that wait for one another.
* The startup pass works from a snapshot of the ledger: an entry that was completed
  and retired, and whose rename was undone, while the pass waited for the lock is
  carried out once more, and takes the sidecars away from their document again.
  `RenamedNotesFollow` states that they stay; with the two renames of
  `MCThereAndBack` and no failing call TLC finds it violated.
* The startup pass takes the lock kind by kind, so a rename that comes in between can split the kinds of a document.
  A rename whose record failed is retried by nothing, which
  `src/docs/next/persistent-format-hardening.md` (lines 181-186) knows.
* A scan of all histories (`local_history_service.rs`, lines 923-929) quarantines an
  index it cannot read. The document's own load then finds none and does not rebuild
  it from the bodies, and the next capture writes an index with only the new
  snapshot, where `src/openspec/specs/local-history/spec.md` (lines 254-256) has the
  index rebuilt. `RepairedWhole` states it; with `HistoryBounds <- MCDamaged` TLC
  finds it violated.
* Trimming a lineage removes bodies before it saves the index that no longer lists
  them, so a crash in between leaves the metadata that points at a missing body which
  lines 770-771 mean to avoid. A snapshot that a broken merge left
  listed in two lineages counts twice in global retention (`Outlived` allows for
  it). Global retention removes a whole lineage directory, with bodies its index
  does not list yet because a merge was interrupted: that takes back-dated
  snapshots, which is why they come without failures. A rebuilt index dates a
  back-dated snapshot by its name, which is why damage and back-dating come apart.

## What is not modelled

In the modelled components: directory creation, extended attributes and ownership
of saved files; the sweep's budgets; draft size limits, corrupt manifests and
record budgets; the flush of drafts when a window closes, a window that leaves
while others stay, Save As, and reading drafts ahead of their tabs; in Replace
All the preview, size and memory limits and their deferred load, malformed
entries, the retired single-file backup, and programs that write a file between
a run's read and its rename. Two windows with an undo each share one journal on
disk: the clear of one window's undo deletes what the other armed, so
`UndoDurable` is claimed for one window. `SweepSparesOwnWrites` says nothing of a sweep
that meets a day-old file which another process still writes: that write fails, and what
holds then is that its destination stays whole (`CrashAtomic`, where sweeps of other
processes take place).

In the buffer: protected views, highlighting, encodings and the byte budget of loads,
input methods, removals and the cap of held text, drafts restored into it, selections,
the close of a tab that is owned, which tab the memory budget chooses, and disposal.

In document saves: protected views, consent to
lossy encodings, the pressure of loads on the budget, `refresh_queued`, byte-exact
copies, a Close by the user, the canonical refresh after a rename, reloads,
symbolic links, directories, the creation of items and the cleanup of a refused
first name. In the ledger: what a merged sidecar contains, edits of sidecars during
a move, a ledger that cannot be read. In local history: captures queued with an old
path, documents that others delete or replace, a quarantine that fails,
de-duplication of captures, cancellation, read limits of a repair, a directory
removed in part, the cap on attempts; a reconciliation that goes on with the next lineage
after one failed (`local_history_service.rs`, lines 862-873: the model stops there, which
leaves the others as another order of the lineages would); the move a rename owes is recorded in the
turn of the rename, and a migration does not repair a damaged target index (the
code does not either). In the pool: freshness tokens, weak targets, callbacks that
panic; a task whose worker panicked has no callback, and what its client makes of
that is the client's. In the timers: `Debounce`, `SettleBurst` (whose pending flag
stays set when its target dies) and the wrap of the 32-bit generation. In the
durable move: the creation of directories. In the tree: several folders and their
reordering, focus on one folder, creation and rename in the sidebar, the probes for
empty directories, the caches of rows, selection, listings cut off by the budget, a
watcher whose backend fails, and a section that is closed.

The components without a model are in `PROJECT.json` with the reason. Most are
planned; rendering, theming, printing and search itself have no protocol to
check.

## Plan

Done: `AtomicReplace`, `DurableWrite`, `DraftJournal`, `ReplaceJournal`,
`DocumentSave`, `DocumentBuffer`, `MigrationLedger`, `LocalHistory`, `TaskPool`, `Settle`,
`SettingsWriter`, `DurableMove`, `WorkspaceTree`, and the proofs of all of them but
`LocalHistory` and `WorkspaceTree`. In this order:

1. Proofs: local history (`BodiesKept`, `HistoryFollows`), whose folds first have to
   become recursive functions that a least counterexample can be taken of.
2. The rest of the draft windows: close flush, window leave, Save As; with the
   property that a window that closes leaves no dirty text behind unasked.
3. `SingleFlight` (the latest request is answered), `SessionRestore`, `FormatUpgrade`,
   `Disposal`, the set-aside area: as worlds of `MCBackground` or components of their
   own.
4. Composition: `LocalHistory` under `MigrationLedger` instead of beside it;
   `DurableWrite` under the `WriteSaved` of `DocumentSave`;
   `DocumentBuffer` as the buffer of each tab of `DocumentSave`.

## Running it

    tlc -workers 2 -config dj_worlds.cfg MCDraftJournal
    tlapm DurableWrite_proofs.tla

The runs take from seconds to about three minutes each; the module of each run is
in `PROJECT.json`.
