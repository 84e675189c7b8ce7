---------------------------- MODULE WorkspaceTree ----------------------------
(***************************************************************************)
(* One section of the sidebar, showing one workspace folder: the rows of   *)
(* the expanded directories, the watcher that hears of changes on disk,    *)
(* the refresh it asks for, and the directory scans that carry it out.     *)
(*                                                                         *)
(* A watcher is bound to the directories that were expanded when it was    *)
(* started; when they change it is replaced, off the main thread.  Its     *)
(* mailbox is polled; paths and full refreshes gather until a timer fires. *)
(* A refresh submits one scan for each directory, a few in a turn; each    *)
(* row store has one scan under way and remembers one more, and            *)
(* ScanLimit scans run in the process.                                     *)
(*                                                                         *)
(* The main thread runs one callback at a time: an action is a callback,   *)
(* the reading of a directory, a step of the watcher's worker, or a change *)
(* made by another program.  Rows are the names of a directory; whether a  *)
(* directory is empty is left out (a look-ahead of 0 is a setting).        *)
(***************************************************************************)
EXTENDS Naturals, FiniteSets, SequencesExt

CONSTANTS
    Path,       \* the folder and what can be in it
    Root,       \* the workspace folder, which stays on disk
    Dir,        \* the directories a user may expand, Root among them
    Within,     \* Within[p]: the directory of p
    Rank,       \* Rank[p]: the place of p in the order of a listing
    PathCap,    \* WORKSPACE_WATCH_PATH_CAP
    BatchSize,  \* REFRESH_SCAN_DISPATCH_BATCH
    ScanLimit,  \* WORKSPACE_SCAN_TASK_LIMIT
    TreeBounds, \* what may happen: a set of records, see TreeInit
    Sizes,      \* whether a splice may be large
    Blurs       \* whether the mailbox may lose the paths of a change

ASSUME TreeAssumption ==
    /\ Dir \subseteq Path /\ Root \in Dir
    /\ Within \in [Path \ {Root} -> Dir] /\ Rank \in [Path -> Nat]
    /\ PathCap \in Nat /\ BatchSize \in Nat \ {0} /\ ScanLimit \in Nat \ {0}

VARIABLES
    onDisk,     \* the paths that exist
    expanded,   \* the directories whose rows the tree shows
    intent,     \* expanded_paths: those that a refresh expands again
    shown,      \* the rows of each row store, and its mirror
    restoring,  \* the timer of schedule_child_state_restore is set
    scan,       \* the flight of each row store and the scan under way
    orphans,    \* scans on workers whose store the tree gave up
    dispatch,   \* scan_dispatch_queue
    asked,      \* pending_paths and pending_full_reload
    due,        \* the refresh timer is set
    watch,      \* the installed watcher and its mailbox
    install,    \* the worker that replaces it
    targets,    \* what the tree wants watched
    current,    \* the installed or failed watcher is of these targets
    restart,    \* the timer of a replacement is set
    retarget,   \* rows whose idle call to update targets is queued
    deleting,   \* a file a dialog of the sidebar deletes, and how far it is
    missed,     \* directories with a change that nobody will report
    left        \* what may still happen

tree == <<expanded, intent, shown, restoring>>
scans == <<scan, orphans, dispatch>>
request == <<asked, due>>
watching == <<watch, install, targets, current, restart, retarget>>
treeVars == <<onDisk, tree, scans, request, watching, deleting, missed, left>>

(* -------------------------------- paths -------------------------------- *)

\* A path and what it lies in, up to the workspace folder.
Line[p \in Path] == IF p = Root THEN <<Root>> ELSE <<p>> \o Line[Within[p]]
Beneath(d) == {p \in Path : d \in ToSet(Line[p])}
Listing(d) == {p \in onDisk \ {Root} : Within[p] = d}

\* A row can be expanded when its own directory shows it.
Visible(d) == d # Root => Within[d] \in expanded /\ d \in shown[Within[d]]

Spend(what) == /\ left[what] > 0
               /\ left' = [left EXCEPT ![what] = @ - 1]

(* -------------------------------- scans -------------------------------- *)

Resting == [phase |-> "resting", again |-> FALSE, cancelled |-> FALSE,
            moved |-> FALSE, rows |-> {}]
OnWorker == {"reading", "read", "unreadable"}
Working(sc) == {d \in Dir : sc[d].phase \in OnWorker}

\* start_child_scan: with a permit the mirror is captured and the worker
\* reads; without one the request waits for a retry.
Begin(sc, others, d) ==
    [sc EXCEPT ![d] = [Resting EXCEPT !.phase =
        IF others + Cardinality(Working(sc)) < ScanLimit THEN "reading" ELSE "waiting"]]

\* The request that came meanwhile is forgotten.
DropsLatest(sc, others, d) == [sc EXCEPT ![d] = Resting]

\* finish_child_scan: the latest request of the store follows.  The permit of
\* a scan is still held when its callback ends in here.
Finish(sc, others, d) ==
    IF sc[d].again THEN Begin(sc, others, d) ELSE [sc EXCEPT ![d] = Resting]

\* A scan under way is taken to answer a new request.
JoinsScan(sc, others, d) == IF sc[d] = Resting THEN Begin(sc, others, d) ELSE sc

\* populate_child_store: a scan on a worker is cancelled and this request
\* becomes its latest; a waiting or half-applied one ends at once.
Populate(sc, others, d) ==
    IF sc[d].phase \in OnWorker
    THEN [sc EXCEPT ![d].again = TRUE, ![d].cancelled = TRUE]
    ELSE Begin(sc, others, d)

PopulateAll(sc, others, ds) ==
    FoldLeft(LAMBDA now, d : Populate(now, others, d), sc, ds)

(* The row stores of some directories leave the tree: what runs on a worker  *)
(* for them ends unheard, and everything else of theirs is forgotten.        *)
WithoutStores(sc, gone) == [d \in Dir |-> IF d \in gone THEN Resting ELSE sc[d]]
OrphansOf(gone) == orphans + Cardinality(Working(scan) \cap gone)
WithoutRows(gone) == [d \in Dir |-> IF d \in gone THEN {} ELSE shown[d]]
Undispatched(gone) == SelectSeq(dispatch, LAMBDA d : d \notin gone)

(* ------------------------------- targets ------------------------------- *)

\* A change of the targets makes the watcher and a running replacement stale.
WantWatched(new) ==
    /\ targets' = new
    /\ IF new = targets
       THEN UNCHANGED <<current, restart, install>>
       ELSE /\ current' = FALSE
            /\ restart' = TRUE
            /\ install' = [install EXCEPT !.stale = install.phase # "idle"]

(* ------------------------------ the tree ------------------------------- *)

\* Directories are expanded, each with a new store and a scan for it.
Open(ds) ==
    /\ expanded' = expanded \cup ds
    /\ intent' = intent \cup ds
    /\ shown' = WithoutRows(ds)
    /\ scan' = PopulateAll(scan, orphans, SetToSeq(ds))
    /\ retarget' = retarget \cup ds

Expand(d) ==
    /\ d \notin expanded /\ Visible(d)
    /\ Spend("toggles")
    /\ Open({d})
    /\ UNCHANGED <<onDisk, restoring, orphans, dispatch, request, watch, install,
                   targets, current, restart, deleting, missed>>

\* A collapse takes the expansions beneath it with it.  Their rows leave the
\* targets at once, the row itself in an idle call.
Collapse(d) ==
    /\ d \in expanded
    /\ Spend("toggles")
    /\ LET gone == Beneath(d) \cap Dir IN
       /\ expanded' = expanded \ gone
       /\ intent' = intent \ gone
       /\ shown' = WithoutRows(gone)
       /\ scan' = WithoutStores(scan, gone)
       /\ orphans' = OrphansOf(gone)
       /\ dispatch' = Undispatched(gone)
       /\ WantWatched(targets \ (gone \ {d}))
       /\ retarget' = (retarget \ gone) \cup {d}
    /\ UNCHANGED <<onDisk, restoring, request, watch, deleting, missed>>

\* The idle call of a row that was expanded or collapsed.
UpdateTarget(d) ==
    /\ d \in retarget
    /\ retarget' = retarget \ {d}
    /\ WantWatched(IF d = Root \/ d \in expanded THEN targets \cup {d} ELSE targets \ {d})
    /\ UNCHANGED <<onDisk, tree, scans, request, watch, deleting, missed, left>>

\* The timer expands again what should be expanded and has a row.
RestoreExpansion ==
    /\ restoring
    /\ restoring' = FALSE
    /\ Open({d \in intent \ expanded : Visible(d)})
    /\ UNCHANGED <<onDisk, orphans, dispatch, request, watch, install, targets,
                   current, restart, deleting, missed, left>>

(* ------------------------------ a refresh ------------------------------ *)

Nothing == [paths |-> {}, full |-> FALSE]

\* schedule_refresh
ScheduleRefresh(full, paths, manual) ==
    IF full
    THEN /\ asked' = [paths |-> {}, full |-> TRUE]
         /\ due' = (due \/ ~asked.full \/ manual)
    ELSE IF asked.full THEN UNCHANGED request
    ELSE /\ asked' = IF Cardinality(asked.paths \cup paths) > PathCap
                     THEN [paths |-> {}, full |-> TRUE]
                     ELSE [asked EXCEPT !.paths = @ \cup paths]
         /\ due' = TRUE

\* The user presses Refresh, or comes back to the window.
AskRefresh(manual) ==
    /\ Spend("asks")
    /\ ScheduleRefresh(TRUE, {}, manual)
    /\ UNCHANGED <<onDisk, tree, scans, watching, deleting, missed>>

\* refresh_directory_for_path: the nearest expanded directory, the path itself
\* among them.  None is left when the folder itself is collapsed.
Nearest(p) == SelectInSeq(Line[p], LAMBDA d : d \in expanded)
DirectoryFor(p) == Line[p][Nearest(p)]

\* minimize_refresh_directories
Minimal(ds) == {d \in ds : \A e \in ds \ {d} : d \notin Beneath(e)}

\* Shallow directories first.
Ordered(ds) == SetToSortSeq(ds, LAMBDA d, e : Len(Line[d]) < Len(Line[e]))

\* dispatch_refresh_scan_batch: the first few now, the others in idle calls.
DispatchScans(queue) ==
    LET now == IF Len(queue) < BatchSize THEN Len(queue) ELSE BatchSize IN
    /\ scan' = PopulateAll(scan, orphans, SubSeq(queue, 1, now))
    /\ dispatch' = SubSeq(queue, now + 1, Len(queue))

DispatchMore ==
    /\ dispatch # <<>>
    /\ DispatchScans(dispatch)
    /\ UNCHANGED <<onDisk, tree, orphans, request, watching, deleting, missed, left>>

(* A targeted refresh overlooks what it asks nobody to read: a directory with  *)
(* an expanded one above it in the plan, and the directory of an expanded path *)
(* that was itself reported.                                                   *)
Overlooked(ds, reported) ==
    (ds \cup {Within[p] : p \in reported \cap expanded}) \ Minimal(ds)

\* queue_refresh_directories: what an earlier refresh had left is forgotten.
RefreshDirectories(ds, overlooked) ==
    /\ DispatchScans(Ordered(ds))
    /\ missed' = missed \cup overlooked \cup (ToSet(dispatch) \ ds)
    /\ UNCHANGED <<tree, orphans, watching>>

\* load_folder_model, with the folder collapsed: the tree starts over.
Reload ==
    /\ WantWatched({Root})
    /\ dispatch' = <<>>
    /\ retarget' = {}
    /\ UNCHANGED <<tree, scan, orphans, watch, missed>>

\* apply_queued_refresh.  A full one finds the folder's own row in place.
ApplyRefresh ==
    /\ due
    /\ due' = FALSE
    /\ asked' = Nothing
    /\ IF asked.full THEN RefreshDirectories(expanded, {})
       ELSE IF \E p \in asked.paths : Nearest(p) = 0 THEN Reload
       ELSE LET ds == {DirectoryFor(p) : p \in asked.paths} IN
            RefreshDirectories(Minimal(ds), Overlooked(ds, asked.paths))
    /\ UNCHANGED <<onDisk, deleting, left>>

(* -------------------------- a directory is read ------------------------ *)

\* The worker lists the directory; the result waits for the main thread.
ReadDirectory(d) ==
    /\ scan[d].phase = "reading"
    /\ IF d \in onDisk
       THEN /\ scan' = [scan EXCEPT ![d].phase = "read", ![d].rows = Listing(d)]
            /\ missed' = missed \ {d}
       ELSE /\ scan' = [scan EXCEPT ![d].phase = "unreadable"]
            /\ UNCHANGED missed
    /\ UNCHANGED <<onDisk, tree, orphans, dispatch, request, watching, deleting, left>>

\* A scan whose store is gone ends, and frees its permit.
OrphanEnds ==
    /\ orphans > 0
    /\ orphans' = orphans - 1
    /\ restoring' \in {restoring, TRUE}
    /\ UNCHANGED <<onDisk, expanded, intent, shown, scan, dispatch, request, watching, deleting, missed, left>>

\* retry_workspace_scan_admission, every 16 ms
Admit(d) ==
    /\ scan[d].phase = "waiting"
    /\ scan' = Begin(scan, orphans, d)
    /\ scan'[d].phase = "reading"
    /\ UNCHANGED <<onDisk, tree, orphans, dispatch, request, watching, deleting, missed, left>>

\* plan_directory_reconciliation replaces the rows between what the old and
\* the new listing have in common at their two ends.
Common(old, new) == {p \in old \cap new :
    \/ \A q \in (old \cup new) \ (old \cap new) : Rank[p] < Rank[q]
    \/ \A q \in (old \cup new) \ (old \cap new) : Rank[p] > Rank[q]}

\* The directories whose rows are in between leave the tree with what they
\* hold; the intent to expand goes only with what is no longer listed.
Torn(d, rows) == (shown[d] \ Common(shown[d], rows)) \cap Dir
Holding(ds) == UNION {Beneath(e) \cap Dir : e \in ds}
TakeOut(gone, dead) ==
    /\ expanded' = expanded \ gone
    /\ intent' = intent \ dead
    /\ orphans' = OrphansOf(gone)
    /\ dispatch' = Undispatched(gone)
    /\ retarget' = retarget \ gone
    /\ WantWatched(targets \ gone)

\* The splice of a few rows is one turn.  A large one takes several: here the
\* old rows and the first of the new ones are replaced in the first, and the
\* rest in another.
Splice(d, rows, large) ==
    LET gone == Holding(Torn(d, rows))
        keep == Common(shown[d], rows)
        others == WithoutStores(scan, gone)
        still == OrphansOf(gone) IN
    /\ TakeOut(gone, Holding(Torn(d, rows) \ rows))
    /\ \/ /\ ~large
          /\ shown' = [WithoutRows(gone) EXCEPT ![d] = rows]
          /\ scan' = Finish(others, still, d)
          /\ restoring' = TRUE
       \/ /\ large
          /\ \E last \in rows \ keep :
                shown' = [WithoutRows(gone) EXCEPT
                            ![d] = keep \cup {p \in rows : Rank[p] < Rank[last]}]
          /\ scan' = [others EXCEPT ![d].phase = "batching"]
          /\ UNCHANGED restoring

\* The callback of a scan, with apply_scanned_children.  It ends without effect
\* when a newer request cancelled it, when the directory could not be read (an
\* error is shown), and when a row was removed since it captured the rows.
ScanDone(d) ==
    /\ scan[d].phase \in {"read", "unreadable"}
    /\ LET rows == scan[d].rows
           useless == scan[d].cancelled \/ scan[d].phase = "unreadable" IN
       IF useless \/ scan[d].moved \/ rows = shown[d]
       THEN /\ scan' = Finish(scan, orphans, d)
            /\ restoring' = (restoring \/ ~(useless \/ scan[d].moved))
            /\ missed' = IF ~useless /\ scan[d].moved THEN missed \cup {d} ELSE missed
            /\ UNCHANGED <<expanded, intent, shown, orphans, dispatch, targets,
                           current, restart, install, retarget>>
       ELSE /\ \E large \in (IF rows \subseteq shown[d] THEN {FALSE} ELSE Sizes) :
                  Splice(d, rows, large)
            /\ UNCHANGED missed
    /\ UNCHANGED <<onDisk, request, watch, deleting, left>>

\* The other batches of a large splice, unless a row was removed in between.
Batch(d) ==
    /\ scan[d].phase = "batching"
    /\ scan' = [scan EXCEPT ![d] = Resting]
    /\ IF scan[d].moved
       THEN missed' = missed \cup {d} /\ UNCHANGED <<shown, restoring>>
       ELSE /\ shown' = [shown EXCEPT ![d] = scan[d].rows]
            /\ restoring' = TRUE
            /\ UNCHANGED missed
    /\ UNCHANGED <<onDisk, expanded, intent, orphans, dispatch, request, watching,
                   deleting, left>>

(* ------------------------------ the watcher ---------------------------- *)

\* A watcher: its directories, and its mailbox of paths or one full refresh.
NoWatch == [on |-> FALSE, covers |-> {}, paths |-> {}, full |-> FALSE]
Heard(w) == w.full \/ w.paths # {}

NoInstall == [phase |-> "idle", wants |-> {}, new |-> NoWatch, stale |-> FALSE]

\* merge_change, with the paths of one event.  A rename reported in halves, a
\* mailbox that is being read, or too many paths ask for a full refresh.
Told(w, paths, blurred) ==
    LET heard == {p \in paths : Within[p] \in w.covers \/ p \in w.covers} IN
    IF heard = {} \/ w.full THEN w
    ELSE IF blurred \/ Cardinality(w.paths \cup heard) > PathCap
    THEN [w EXCEPT !.full = TRUE, !.paths = {}]
    ELSE [w EXCEPT !.paths = @ \cup heard]

\* What nobody reports once a mailbox is dropped.
LostWith(w) == IF w.full THEN Dir ELSE {Within[p] : p \in w.paths}

\* Paths come or go on disk.  A watched directory that is removed is not
\* watched any more, should it come back.
Changed(paths, removed, blurred) ==
    LET after(w) == [Told(w, paths, blurred) EXCEPT !.covers = @ \ removed] IN
    /\ onDisk' = (onDisk \ removed) \cup (paths \ removed)
    /\ watch' = after(watch)
    /\ install' = [install EXCEPT !.new = after(@)]
    /\ missed' = missed \cup ({Within[p] : p \in paths}
                                \ (watch.covers \cup install.new.covers))

ElsewhereChanged(paths, removed) ==
    /\ Spend("changes")
    /\ \E blurred \in Blurs : Changed(paths, removed, blurred)
    /\ UNCHANGED <<tree, scans, request, targets, current, restart, retarget, deleting>>

Appear(p) == /\ p \notin onDisk /\ Within[p] \in onDisk
             /\ ElsewhereChanged({p}, {})
Vanish(p) == /\ p \in onDisk
             /\ ElsewhereChanged(Beneath(p) \cap onDisk, Beneath(p) \cap onDisk)

\* start_current_workspace_watch: the watcher in use goes to a worker, and its
\* mailbox with it; a running worker is left to find out that it is stale.
RestartTimer ==
    /\ restart
    /\ restart' = FALSE
    /\ IF install.phase # "idle"
       THEN UNCHANGED <<watch, install, current, missed>>
       ELSE /\ missed' = missed \cup LostWith(watch)
            /\ watch' = NoWatch
            /\ current' = FALSE
            /\ install' = [phase |-> "starting", wants |-> targets, new |-> NoWatch,
                           stale |-> FALSE]
    /\ UNCHANGED <<onDisk, tree, scans, request, targets, retarget, deleting, left>>

\* WorkspaceWatcher::start fails when one directory is gone.
Register ==
    /\ install.phase = "starting"
    /\ install' = [install EXCEPT !.phase = "done", !.new =
        IF install.wants \subseteq onDisk
        THEN [NoWatch EXCEPT !.on = TRUE, !.covers = install.wants] ELSE NoWatch]
    /\ UNCHANGED <<onDisk, tree, scans, request, watch, targets, current, restart,
                   retarget, deleting, missed, left>>

\* The worker's callback: stale, it starts over with the new targets; else
\* the watcher is installed, or known to be unavailable.
Installed ==
    /\ install.phase = "done"
    /\ IF install.stale
       THEN /\ restart' = FALSE
            /\ missed' = missed \cup LostWith(install.new)
            /\ install' = [phase |-> "starting", wants |-> targets, new |-> NoWatch,
                           stale |-> FALSE]
            /\ UNCHANGED <<watch, current>>
       ELSE /\ watch' = install.new
            /\ install' = NoInstall
            /\ current' = TRUE
            /\ UNCHANGED <<restart, missed>>
    /\ UNCHANGED <<onDisk, tree, scans, request, targets, retarget, deleting, left>>

\* poll_workspace_watch
Poll ==
    /\ watch.on /\ Heard(watch)
    /\ ScheduleRefresh(watch.full, watch.paths, FALSE)
    /\ watch' = [watch EXCEPT !.paths = {}, !.full = FALSE]
    /\ UNCHANGED <<onDisk, tree, scans, install, targets, current, restart, retarget,
                   deleting, missed, left>>

(* --------------------------- a delete in the sidebar ------------------- *)

\* The worker removes the file the user confirmed; then its row goes.
DeleteFile(p) ==
    /\ deleting = {} /\ p \in onDisk \ Dir
    /\ Within[p] \in expanded /\ p \in shown[Within[p]]
    /\ Spend("deletes")
    /\ deleting' = {p}
    /\ Changed({p}, {p}, FALSE)
    /\ UNCHANGED <<tree, scans, request, targets, current, restart, retarget>>

\* remove_from_model.  A scan that captured the rows before is now stale.  The
\* row of a file that is there again is removed all the same.
DeleteShown(p) ==
    /\ p \in deleting
    /\ deleting' = {}
    /\ LET d == Within[p] IN
       IF p \in shown[d]
       THEN /\ shown' = [shown EXCEPT ![d] = @ \ {p}]
            /\ scan' = [scan EXCEPT ![d].moved =
                            scan[d].phase \in OnWorker \cup {"batching"}]
            /\ missed' = IF p \in onDisk THEN missed \cup {d} ELSE missed
       ELSE UNCHANGED <<shown, scan, missed>>
    /\ UNCHANGED <<onDisk, expanded, intent, restoring, orphans, dispatch, request,
                   watching, left>>

(* ---------------------------- the behaviours --------------------------- *)

\* A folder at rest, with some directories expanded and watched.
TreeInit ==
    /\ left \in TreeBounds
    /\ onDisk = Path \ left.absent
    /\ expanded = left.open /\ intent = expanded
    /\ shown = [d \in Dir |-> IF d \in expanded THEN Listing(d) ELSE {}]
    /\ restoring = FALSE
    /\ scan = [d \in Dir |-> Resting] /\ orphans = 0 /\ dispatch = <<>>
    /\ asked = Nothing /\ due = FALSE
    /\ targets = expanded \cup {Root} /\ current = TRUE /\ restart = FALSE
    /\ watch = [NoWatch EXCEPT !.on = TRUE, !.covers = targets]
    /\ install = NoInstall /\ retarget = {}
    /\ deleting = {} /\ missed = {}

TreeNext ==
    \/ \E d \in Dir : \/ Expand(d) \/ Collapse(d) \/ UpdateTarget(d)
                      \/ ReadDirectory(d) \/ Admit(d) \/ ScanDone(d) \/ Batch(d)
    \/ \E p \in Path \ {Root} : \/ Appear(p) \/ Vanish(p) \/ DeleteFile(p) \/ DeleteShown(p)
    \/ RestoreExpansion \/ OrphanEnds
    \/ \E manual \in BOOLEAN : AskRefresh(manual)
    \/ ApplyRefresh \/ DispatchMore \/ Poll
    \/ RestartTimer \/ Register \/ Installed

TreeSpec == TreeInit /\ [][TreeNext]_treeVars

(* ----------------------------- the properties -------------------------- *)

TreeTypeOK ==
    /\ onDisk \subseteq Path /\ expanded \subseteq Dir /\ intent \subseteq Dir
    /\ \A d \in Dir : shown[d] \subseteq {p \in Path \ {Root} : Within[p] = d}
    /\ \A d \in Dir : scan[d].phase \in OnWorker \cup {"resting", "waiting", "batching"}
    /\ orphans \in Nat /\ ToSet(dispatch) \subseteq Dir
    /\ {restoring, due, current, restart, asked.full, watch.on} \subseteq BOOLEAN
    /\ asked.paths \subseteq Path /\ watch.paths \subseteq Path
    /\ watch.covers \subseteq Dir /\ targets \subseteq Dir /\ retarget \subseteq Dir
    /\ install.phase \in {"idle", "starting", "done"}
    /\ Cardinality(deleting) <= 1 /\ missed \subseteq Dir

\* workspace_refresh_blocks_readiness is false: nothing is under way or owed.
Ready ==
    /\ asked = Nothing /\ dispatch = <<>>
    /\ \A d \in Dir : scan[d] = Resting
    /\ install.phase = "idle" /\ current /\ ~Heard(watch)

(* When the section calls itself ready, each expanded directory shows what is  *)
(* on disk, but for changes that were not reported: made where nothing was     *)
(* watched, in a mailbox a replaced watcher took along, or overlooked by the   *)
(* refresh.  What the user expanded is expanded again if its row is there,     *)
(* whatever was asked or changed is owed to a timer, and the wish of what to   *)
(* watch is what is expanded.  The code: cancelled and coalesced       *)
(* scans, admission, batches, the mailbox's limit, the watcher's replacement.  *)
TreeKeptCurrent ==
    /\ Ready => \A d \in (expanded \cap onDisk) \ missed : shown[d] = Listing(d)
    /\ Ready /\ ~restoring =>
         \A d \in intent \ expanded : Visible(d) => Within[d] \in missed
    /\ asked # Nothing => due
    /\ current \/ restart \/ install.phase # "idle"
    /\ retarget = {} => targets = expanded \cup {Root}

(* "External removal clears stale rows": once a refresh has settled no row     *)
(* names a path that is gone (openspec/specs/workspace-tree-refresh/spec.md).  *)
RemovedRowsClear ==
    Ready => \A d \in expanded \cap onDisk : shown[d] \subseteq onDisk
===============================================================================
