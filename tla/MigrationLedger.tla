--------------------------- MODULE MigrationLedger ---------------------------
(***************************************************************************)
(* Sidecars after a rename in the sidebar.  Bookmarks, notes and local     *)
(* history of a document lie in sidecar files named after its path, so a   *)
(* rename owes a move of each kind.  The moves run on worker threads after *)
(* the file itself was renamed: the notes worker and the history worker of *)
(* each rename (ui/window/notes/journal.rs, local_history/journal.rs), and *)
(* the startup pass that retries what an earlier launch left pending.      *)
(*                                                                         *)
(* The ledger on disk says what is owed.  One mutex, the operation lock,   *)
(* is held by a rename from the record of its entry to its last kind, and  *)
(* by the startup pass for one kind at a time.                             *)
(***************************************************************************)
EXTENDS Naturals, Sequences, FiniteSets, SequencesExt, Functions

CONSTANTS
  Paths,        \* names a document or a sidecar can have
  Docs,         \* documents, each with one sidecar of each kind at first
  Home,         \* where each document is at first
  Moves,        \* the renames the user may do: maps of old to new paths
  NoteKinds,    \* the kinds of the notes worker, in its order
  HistoryKinds, \* the kinds of the history worker
  MergedKinds,  \* the kinds that merge with what is at the new path
  Refusals,     \* sets of documents, whose sidecars are refused in one behaviour
  MaxAttempts,  \* failures after which the startup pass skips a kind
  MaxRenames,   \* bound on renames
  MaxFaults,    \* bound on calls that fail
  MaxLaunches   \* bound on launches

KindsOf == [notes |-> NoteKinds, history |-> HistoryKinds]
Kinds   == ToSet(NoteKinds) \cup ToSet(HistoryKinds)

\* A rename takes the name of an item to a free one beside it, and with it the
\* paths of what is in the item: no path is an old and a new one of it.
ASSUME LedgerAssumption ==
  /\ Home \in [Docs -> Paths]
  /\ \A m \in Moves : DOMAIN m \subseteq Paths /\ m \in [DOMAIN m -> Paths \ DOMAIN m]
  /\ ToSet(NoteKinds) \cap ToSet(HistoryKinds) = {}
  /\ Refusals \subseteq SUBSET Docs
  /\ MaxAttempts \in Nat /\ MaxRenames \in Nat

VARIABLES
  place,   \* where each document is
  side,    \* side[k][p]: whose notes of kind k the sidecar of path p holds
  ledger,  \* on disk: next generation, and the pending entry of each
  holder,  \* who holds the operation lock
  run,     \* the workers
  used,    \* renames, faults and launches so far
  dropped, \* documents nobody will retry: renamed with no entry, passed over as
           \* unreadable, or moved for an entry that was retired meanwhile
  displaced, \* kinds and documents: sidecars that gave way to one of another
             \* document at the new path, a newer one, or any where the one
             \* there could neither be read nor moved to quarantine
  shelved,   \* kinds and documents: sidecars that could not be read once and
             \* were moved to quarantine as they are
  refused, \* documents whose sidecars cannot be rewritten
  calm     \* whether the user waits for all moves before the next rename

ledgerVars == <<place, side, ledger, holder, run, used, dropped, displaced, shelved, refused, calm>>

Nobody    == <<0, "nobody">>
Reconcile == <<0, "reconcile">>
Workers   == (1 .. MaxRenames) \X {"notes", "history"}
Runners   == Workers \cup {Reconcile}

\* A move of one kind, for the entry of a generation.
Jobs(gen, m, kinds) == {[gen |-> gen, move |-> m, kind |-> k] : k \in kinds}
NoJob == [gen |-> 0, move |-> <<>>, kind |-> "none"]

\* A worker's locals.  job is at hand and queue still to do; todo is the
\* sidecars its scan found, item the one at hand.
NoWork == [step |-> "idle", job |-> NoJob, queue |-> {}, todo |-> {}, item |-> {}, failed |-> FALSE]

RunnerSteps == {"idle", "start", "wait", "scan", "items", "unlink", "mark"}
Moving  == {"scan", "items", "unlink"}
AtWork  == Moving \cup {"mark"}
JobType == [gen : 1 .. ledger.next - 1, move : Moves, kind : Kinds]
Locals  == [step : RunnerSteps,
            job : [gen : Nat, move : Moves \cup {<<>>}, kind : Kinds \cup {"none"}],
            queue : SUBSET JobType, todo : SUBSET Paths, item : SUBSET Paths, failed : BOOLEAN]

\* One state of each variable: entries by their generations, and a worker's
\* sidecars are among the old paths of its job.
LedgerTypeOK ==
  /\ place \in [Docs -> Paths]
  /\ side \in [Kinds -> [Paths -> SUBSET Docs]]
  /\ ledger = [next |-> ledger.next, entries |-> ledger.entries]
  /\ ledger.next \in Nat \ {0} /\ DOMAIN ledger.entries \subseteq 1 .. ledger.next - 1
  /\ \A g \in DOMAIN ledger.entries :
        LET e == ledger.entries[g]
        IN  /\ e = [move |-> e.move, kinds |-> e.kinds] /\ e.move \in Moves
            /\ DOMAIN e.kinds \subseteq Kinds
            /\ e.kinds \in [DOMAIN e.kinds -> [done : BOOLEAN, attempts : Nat]]
  /\ holder \in Runners \cup {Nobody}
  /\ run \in [Runners -> Locals]
  /\ \A r \in Runners :
        /\ run[r].step \in AtWork =>
             run[r].job \in JobType /\ run[r].todo \cup run[r].item \subseteq DOMAIN run[r].job.move
        /\ run[r].step = "wait" /\ r # Reconcile => run[r].job.move \in Moves
        /\ run[r].step = "unlink" => \E p \in Paths : run[r].item = {p}
        /\ run[r].step # "unlink" => run[r].item = {}
  /\ used \in [renames : 0 .. MaxRenames, faults : Nat, launches : Nat]
  /\ dropped \subseteq Docs /\ displaced \subseteq Kinds \X Docs /\ shelved \subseteq Kinds \X Docs
  /\ refused \in Refusals \cup {{}} /\ calm \in BOOLEAN

\* In a hasty world no call fails, so that what goes wrong there is the
\* order of the renames alone.
SidecarCallFails ==
  /\ calm /\ used.faults < MaxFaults
  /\ used' = [used EXCEPT !.faults = @ + 1]

-----------------------------------------------------------------------------
(* The ledger document: model/migration_ledger.rs. *)

Owed == [done |-> FALSE, attempts |-> 0]

\* A faulty version: one finished kind retires the entry.
CompleteByOne(entry) == \E k \in DOMAIN entry.kinds : entry.kinds[k].done

IsComplete(entry) == \A k \in DOMAIN entry.kinds : entry.kinds[k].done

RemoveCompleted(entries) == RestrictValues(entries, LAMBDA e : ~IsComplete(e))

\* A kind the entry already has keeps its state, completed or not.
EnsureKinds(kinds, new) ==
  [k \in DOMAIN kinds \cup new |-> IF k \in DOMAIN kinds THEN kinds[k] ELSE Owed]

\* record_pending: the generation it returns, and the ledger after it.  An
\* entry of the same paths takes the new kinds in.
RecordAs(m) ==
  LET kept == RemoveCompleted(ledger.entries)
      same == {g \in DOMAIN kept : kept[g].move = m}
  IN  IF same = {} THEN ledger.next ELSE CHOOSE g \in same : TRUE

RecordPending(gen, m, new) ==
  LET kept == RemoveCompleted(ledger.entries)
      had  == IF gen \in DOMAIN kept THEN kept[gen].kinds ELSE <<>>
  IN  [next    |-> IF gen = ledger.next THEN gen + 1 ELSE ledger.next,
       entries |-> [g \in DOMAIN kept \cup {gen} |->
                      IF g = gen THEN [move |-> m, kinds |-> EnsureKinds(had, new)] ELSE kept[g]]]

\* update_kind_state: nothing, when the entry is gone or never had the kind.
Tracked(job) ==
  job.gen \in DOMAIN ledger.entries /\ job.kind \in DOMAIN ledger.entries[job.gen].kinds
UpdateKind(job, done, tries) ==
  IF ~Tracked(job) THEN ledger
  ELSE [ledger EXCEPT !.entries =
          RemoveCompleted([ledger.entries EXCEPT ![job.gen].kinds[job.kind] =
                             [done |-> done, attempts |-> @.attempts + tries]])]

MarkCompleted(job) == UpdateKind(job, TRUE, 0)
MarkFailed(job)    == UpdateKind(job, FALSE, 1)

-----------------------------------------------------------------------------
(* A rename, and the workers it starts. *)

Job(r) == run[r].job

\* Entries in the order of their generations, kinds in their fixed order.
KindOrder == NoteKinds \o HistoryKinds
Precedes(k1, k2) ==
  \E i, j \in DOMAIN KindOrder : i < j /\ KindOrder[i] = k1 /\ KindOrder[j] = k2
Before(a, b) == a.gen < b.gen \/ (a.gen = b.gen /\ Precedes(a.kind, b.kind))

\* The first of some jobs is begun.
TakeFirst(r, jobs) ==
  \E job \in jobs :
    /\ \A other \in jobs : ~Before(other, job)
    /\ run' = [run EXCEPT ![r] = [NoWork EXCEPT !.step = "scan", !.job = job,
                                                !.queue = jobs \ {job}]]

\* The file is renamed, never over another; both workers are spawned.
Rename(m) ==
  LET n == used.renames + 1
      moved == {d \in Docs : place[d] \in DOMAIN m}
  IN  /\ used.renames < MaxRenames
      /\ moved # {}
      /\ \A d \in Docs \ moved : place[d] \notin {m[p] : p \in DOMAIN m}
      /\ calm => DOMAIN ledger.entries = {} /\ \A w \in Workers : run[w].step = "idle"
      /\ place' = [d \in Docs |-> IF d \in moved THEN m[place[d]] ELSE place[d]]
      /\ run' = [r \in Runners |->
           IF r[1] = n /\ KindsOf[r[2]] # <<>>
           THEN [NoWork EXCEPT !.step = "wait", !.job = [NoJob EXCEPT !.move = m]]
           ELSE run[r]]
      /\ used' = [used EXCEPT !.renames = n]
      /\ UNCHANGED <<side, ledger, holder, dropped, displaced, shelved, refused, calm>>

\* The documents a rename moved, if they are where it took them.
MovedBy(m) == {d \in Docs : \E p \in DOMAIN m : place[d] = m[p]}

\* run_tracked_rename takes the lock and records the entry; the lock stays
\* taken until the worker ends.  When the record fails there is no entry.
Track(w) ==
  /\ run[w].step = "wait" /\ holder = Nobody
  /\ LET m     == Job(w).move
         kinds == ToSet(KindsOf[w[2]])
         gen   == RecordAs(m)
     IN  \/ /\ holder' = w
            /\ ledger' = RecordPending(gen, m, kinds)
            /\ TakeFirst(w, Jobs(gen, m, kinds))
            /\ UNCHANGED <<used, dropped>>
         \/ /\ SidecarCallFails
            /\ run' = [run EXCEPT ![w] = NoWork]
            /\ dropped' = dropped \cup MovedBy(m)
            /\ UNCHANGED <<holder, ledger>>
  /\ UNCHANGED <<place, side, displaced, shelved, refused, calm>>

\* What an entry still owes, without the kinds that failed too often.
Owing(e) == {k \in DOMAIN e.kinds : ~e.kinds[k].done /\ e.kinds[k].attempts < MaxAttempts}

\* The startup pass reads the ledger once, with no lock, and takes what is
\* incomplete and below the attempt cap.
Snapshot ==
  UNION {Jobs(g, ledger.entries[g].move, Owing(ledger.entries[g])) : g \in DOMAIN ledger.entries}

StartReconcile ==
  /\ run[Reconcile].step = "start"
  /\ run' = [run EXCEPT ![Reconcile] =
               IF Snapshot = {} THEN NoWork
               ELSE [NoWork EXCEPT !.step = "wait", !.queue = Snapshot]]
  /\ UNCHANGED <<place, side, ledger, holder, used, dropped, displaced, shelved, refused, calm>>

\* The lock, for one kind of one entry.
Retry ==
  /\ run[Reconcile].step = "wait" /\ holder = Nobody
  /\ holder' = Reconcile
  /\ TakeFirst(Reconcile, run[Reconcile].queue)
  /\ UNCHANGED <<place, side, ledger, used, dropped, displaced, shelved, refused, calm>>

-----------------------------------------------------------------------------
(* The move of one kind: move_path_tree of the sidecar services. *)

\* The scan finds the sidecars at the old paths, or fails as a whole.
Scan(r) ==
  /\ run[r].step = "scan"
  /\ \/ /\ run' = [run EXCEPT ![r].step = "items",
                     ![r].todo = {p \in DOMAIN Job(r).move : side[Job(r).kind][p] # {}}]
        /\ UNCHANGED used
     \/ /\ SidecarCallFails
        /\ run' = [run EXCEPT ![r].step = "items", ![r].failed = TRUE]
  /\ UNCHANGED <<place, side, ledger, holder, dropped, displaced, shelved, refused, calm>>

\* What a save at the new path leaves there: both, or the newer note.
Merged(kind, from, to) ==
  IF to = {} THEN {from}
  ELSE IF kind \in MergedKinds THEN {from \cup to} ELSE {from, to}

\* The sidecar of p is saved at its new path, over one that is there and can
\* neither be read nor moved to quarantine as if there were none.  A startup
\* pass whose entry was retired since its snapshot moves what is there now.
SaveAtNewPath(r, p) ==
  LET k     == Job(r).kind
      q     == Job(r).move[p]
      both  == Merged(k, side[k][p], side[k][q])
      stale == Job(r).gen \notin DOMAIN ledger.entries
  IN  /\ side[k][p] \cap refused = {}
      /\ \E m \in both \cup {side[k][p]} :
           /\ IF m \in both THEN UNCHANGED used ELSE SidecarCallFails
           /\ side' = [side EXCEPT ![k][q] = m]
           /\ displaced' = displaced \cup ({k} \X ((side[k][p] \cup side[k][q]) \ m))
      /\ run' = [run EXCEPT ![r].todo = @ \ {p}, ![r].item = {p}, ![r].step = "unlink"]
      /\ dropped' = IF stale THEN dropped \cup side[k][p] ELSE dropped

\* It cannot be rewritten, or the save fails.
SaveFails(r, p) ==
  \/ side[Job(r).kind][p] \cap refused # {} /\ UNCHANGED used
  \/ SidecarCallFails

\* A faulty version: a sidecar that could not be saved is removed all the same.
WriteUnheeded(r, p) ==
  /\ run[r].step = "items" /\ p \in run[r].todo
  /\ \/ SaveAtNewPath(r, p)
     \/ /\ SaveFails(r, p)
        /\ run' = [run EXCEPT ![r].todo = @ \ {p}, ![r].item = {p}, ![r].step = "unlink"]
        /\ UNCHANGED <<side, dropped, displaced>>
  /\ UNCHANGED <<place, ledger, holder, shelved, refused, calm>>

\* A faulty version: the first refused sidecar ends the scan.
WriteOrAbandon(r, p) ==
  /\ run[r].step = "items" /\ p \in run[r].todo
  /\ \/ SaveAtNewPath(r, p)
     \/ /\ SaveFails(r, p)
        /\ run' = [run EXCEPT ![r].todo = {}, ![r].failed = TRUE]
        /\ UNCHANGED <<side, dropped, displaced>>
  /\ UNCHANGED <<place, ledger, holder, shelved, refused, calm>>

\* One sidecar is written at its new path.  A failure to write it is tallied
\* and the next one gets its turn.
WriteSidecar(r, p) ==
  /\ run[r].step = "items" /\ p \in run[r].todo
  /\ \/ SaveAtNewPath(r, p)
     \/ /\ SaveFails(r, p)
        /\ run' = [run EXCEPT ![r].todo = @ \ {p}, ![r].failed = TRUE]
        /\ UNCHANGED <<side, dropped, displaced>>
  /\ UNCHANGED <<place, ledger, holder, shelved, refused, calm>>

\* The scan reads every sidecar of the kind, of other documents too, and a save
\* reads the one at the new path.  One that cannot be read is moved to
\* quarantine and then counts as none; when that fails as well it stays where it
\* is, and an old path is passed over.  Neither counts as a failure of the pass.
LoadFails(r, p) ==
  LET k == Job(r).kind
  IN  /\ run[r].step = "items" /\ side[k][p] # {}
      /\ p \in run[r].todo \cup (Paths \ DOMAIN Job(r).move)
      /\ SidecarCallFails
      /\ run' = [run EXCEPT ![r].todo = @ \ {p}]
      /\ \/ /\ side' = [side EXCEPT ![k][p] = {}]
            /\ shelved' = shelved \cup ({k} \X side[k][p])
            /\ UNCHANGED dropped
         \/ /\ p \in run[r].todo
            /\ dropped' = dropped \cup side[k][p]
            /\ UNCHANGED <<side, shelved>>
      /\ UNCHANGED <<place, ledger, holder, displaced, refused, calm>>

\* remove_obsolete_sidecar, only after the save succeeded.
UnlinkSidecar(r) ==
  /\ run[r].step = "unlink"
  /\ \/ /\ side' = [side EXCEPT ![Job(r).kind] =
                      [p \in Paths |-> IF p \in run[r].item THEN {} ELSE @[p]]]
        /\ run' = [run EXCEPT ![r].step = "items", ![r].item = {}]
        /\ UNCHANGED used
     \/ /\ SidecarCallFails
        /\ run' = [run EXCEPT ![r].step = "items", ![r].item = {}, ![r].failed = TRUE]
        /\ UNCHANGED side
  /\ UNCHANGED <<place, ledger, holder, dropped, displaced, shelved, refused, calm>>

\* The kind is through.  The startup pass gives the lock back before it
\* marks the kind; a rename keeps it.
EndKind(r) ==
  /\ run[r].step = "items" /\ run[r].todo = {}
  /\ run' = [run EXCEPT ![r].step = "mark"]
  /\ holder' = IF r = Reconcile THEN Nobody ELSE holder
  /\ UNCHANGED <<place, side, ledger, used, dropped, displaced, shelved, refused, calm>>

\* A faulty version: a worker that ends early keeps the lock.
LeaveLocked(r) ==
  /\ run' = [run EXCEPT ![r] = NoWork]
  /\ holder' = IF holder = r /\ ~run[r].failed THEN Nobody ELSE holder

\* The worker ends, and with a rename its lock.
Leave(r) ==
  /\ run' = [run EXCEPT ![r] = NoWork]
  /\ holder' = IF holder = r THEN Nobody ELSE holder

\* A faulty version: a rename takes the lock once per kind.
GoOnPerKind(r) ==
  IF run[r].queue = {} THEN Leave(r)
  ELSE /\ TakeFirst(r, run[r].queue)
       /\ holder' = Nobody

\* The next kind, or the end.
GoOn(r) ==
  IF run[r].queue = {} THEN Leave(r)
  ELSE /\ IF r = Reconcile
          THEN run' = [run EXCEPT ![r] = [NoWork EXCEPT !.step = "wait", !.queue = run[r].queue]]
          ELSE TakeFirst(r, run[r].queue)
       /\ UNCHANGED holder

\* The result of the kind is recorded.  The first kind of a rename that
\* fails ends the rename; the startup pass goes on to its next kind.  Both
\* end when a completion cannot be recorded, and the pass also when a
\* failure cannot.
Mark(r) ==
  /\ run[r].step = "mark"
  /\ \/ /\ ~run[r].failed /\ ledger' = MarkCompleted(Job(r)) /\ GoOn(r)
        /\ UNCHANGED used
     \/ /\ run[r].failed /\ ledger' = MarkFailed(Job(r))
        /\ IF r = Reconcile THEN GoOn(r) ELSE Leave(r)
        /\ UNCHANGED used
     \/ /\ SidecarCallFails /\ Leave(r)
        /\ UNCHANGED ledger
  /\ UNCHANGED <<place, side, dropped, displaced, shelved, refused, calm>>

-----------------------------------------------------------------------------
\* The process dies and is launched again.  A rename that was not recorded
\* yet is known to nobody.
Relaunch ==
  /\ calm /\ used.launches < MaxLaunches
  /\ used' = [used EXCEPT !.launches = @ + 1]
  /\ holder' = Nobody
  /\ dropped' = dropped \cup UNION {MovedBy(Job(w).move) : w \in {v \in Workers : run[v].step = "wait"}}
  /\ run' = [r \in Runners |-> IF r = Reconcile THEN [NoWork EXCEPT !.step = "start"] ELSE NoWork]
  /\ UNCHANGED <<place, side, ledger, displaced, shelved, refused, calm>>

LedgerInit ==
  /\ place = Home
  /\ side = [k \in Kinds |-> [p \in Paths |-> {d \in Docs : Home[d] = p}]]
  /\ ledger = [next |-> 1, entries |-> <<>>]
  /\ holder = Nobody
  /\ dropped = {} /\ displaced = {} /\ shelved = {} /\ calm \in BOOLEAN
  /\ run = [r \in Runners |-> IF calm /\ r = Reconcile
                             THEN [NoWork EXCEPT !.step = "start"] ELSE NoWork]
  /\ used = [renames |-> 0, faults |-> 0, launches |-> 1]
  /\ refused \in IF calm THEN Refusals ELSE {{}}

RunnerStep(r) ==
  \/ Scan(r)
  \/ \E p \in Paths : WriteSidecar(r, p)
  \/ \E p \in Paths : LoadFails(r, p)
  \/ UnlinkSidecar(r)
  \/ EndKind(r)
  \/ Mark(r)

LedgerNext ==
  \/ \E m \in Moves : Rename(m)
  \/ \E w \in Workers : Track(w)
  \/ StartReconcile
  \/ Retry
  \/ \E r \in Runners : RunnerStep(r)
  \/ Relaunch

LedgerSpec == LedgerInit /\ [][LedgerNext]_ledgerVars

\* Worker threads run, the mutex is not withheld from a waiting one for
\* ever, and system calls return.
LedgerFair ==
  /\ \A w \in Workers : WF_ledgerVars(Track(w)) /\ WF_ledgerVars(RunnerStep(w))
  /\ WF_ledgerVars(StartReconcile) /\ WF_ledgerVars(Retry)
  /\ WF_ledgerVars(RunnerStep(Reconcile))
LedgerFairSpec == LedgerSpec /\ LedgerFair

-----------------------------------------------------------------------------
(* Properties *)

At(k, d) == {p \in Paths : d \in side[k][p]}

\* A move is a save at the new path and then a removal at the old one, so at
\* every moment, whatever fails or dies, each document still has its sidecar of
\* each kind at some path, or it could not be read and lies whole in quarantine,
\* unless another one was saved over it at the new path.
SidecarsNeverLost ==
  \A d \in Docs, k \in Kinds : At(k, d) # {} \/ <<k, d>> \in displaced \cup shelved

\* The operation lock spans a rename, so that a second rename "observes
\* either none of the first rename's moves or all of them": whenever the
\* lock is free and no call failed, the kinds of the notes worker of a
\* document lie at one path.
KindsTogether ==
  holder = Nobody /\ ~calm =>
    \A d \in Docs : \A k1, k2 \in {k \in ToSet(NoteKinds) : <<k, d>> \notin displaced} :
      At(k1, d) = At(k2, d)

\* A pass over a tree leaves behind only sidecars that were refused, and a
\* kind is about to be marked completed only when nothing is left to move
\* that could be read.
OthersStillMove ==
  \A w \in Workers :
    run[w].step = "mark" =>
      \A p \in DOMAIN Job(w).move :
        LET rest == side[Job(w).kind][p]
        IN  /\ used.faults = 0 => rest = {} \/ rest \cap refused # {}
            /\ ~run[w].failed => rest \subseteq dropped

\* A document's sidecar of a kind is where the document is, or the ledger
\* still owes the move that brings it there.
Accounted(d, k) ==
  \/ At(k, d) = {place[d]}
  \/ \E g \in DOMAIN ledger.entries :
       LET e == ledger.entries[g]
       IN  /\ k \in DOMAIN e.kinds /\ ~e.kinds[k].done
           /\ \E p \in At(k, d) \cap DOMAIN e.move : e.move[p] = place[d]

AtRest == \A r \in Runners : run[r].step = "idle"

\* When each rename waits for the moves of the one before, no failure and no
\* crash strands a sidecar: once the workers rest, what has not arrived is
\* owed.  The exceptions are a rename that was never recorded, a sidecar that
\* could not be read and was passed over or lies in quarantine and nowhere else,
\* one that was moved for an entry retired meanwhile, and one that another was
\* saved over.
NothingForgotten ==
  calm /\ AtRest =>
    \A d \in Docs \ dropped, k \in Kinds :
      \/ <<k, d>> \in displaced \/ Accounted(d, k)
      \/ <<k, d>> \in shelved /\ At(k, d) = {}

\* "WHEN the user renames a saved document [...] THEN the persisted document
\* note is migrated to the renamed identity": when nothing fails and nobody
\* hurries, the sidecars are where the documents are once the workers rest.
RenamedNotesFollow ==
  calm /\ used.faults = 0 /\ used.launches = 1 /\ AtRest =>
    \A d \in Docs, k \in Kinds : At(k, d) = {place[d]}

\* Serialising renames is meant to close the window in which a note is
\* stranded at a path in between with nothing left to retry.
ChainedRenamesFollow ==
  ~calm /\ AtRest => \A d \in Docs, k \in Kinds : Accounted(d, k)

\* Every worker that waits for the lock gets it and ends, with the lock free.
\* (The bounds end renames and launches, so all workers come to rest at one time.)
RenamesEnd ==
  (\E w \in Workers : run[w].step # "idle") ~> (\A w \in Workers : run[w].step = "idle" /\ holder # w)
-----------------------------------------------------------------------------
(* The inductive invariant *)

\* Only the holder of the operation lock moves sidecars; a rename keeps it until
\* its kind is marked, the startup pass does not.
LockHeld ==
  \A r \in Runners :
    /\ run[r].step \in Moving => holder = r
    /\ run[r].step = "mark" /\ r # Reconcile => holder = r
    /\ holder = r => run[r].step \in AtWork
    /\ holder = Reconcile => run[Reconcile].step # "mark"

\* The workers of a rename that is still to come are idle, and what a worker
\* has to do is for one entry; nobody's job has the generation of another move.
JobsOf(r) == run[r].queue \cup (IF run[r].step \in AtWork THEN {Job(r)} ELSE {})
JobsFit ==
  /\ \A w \in Workers : w[1] > used.renames => run[w].step = "idle"
  /\ \A w \in Workers : run[w].step \in {"idle", "wait"} => run[w].queue = {}
  /\ \A w \in Workers : \A j \in run[w].queue : j.gen = Job(w).gen /\ j.move = Job(w).move
  /\ \A w \in Workers : \A j \in JobsOf(w) : j.kind \in ToSet(KindsOf[w[2]])
  /\ \A w \in Workers : run[w].step # "start"
  /\ \A r \in Runners : \A j \in JobsOf(r) :
        j.gen \in DOMAIN ledger.entries => ledger.entries[j.gen].move = j.move

\* What a pass left at an old path it is through with was refused, could not be
\* read, or a call failed.
Left(k, p, failed) ==
  /\ used.faults = 0 => side[k][p] = {} \/ side[k][p] \cap refused # {}
  /\ ~failed => side[k][p] \subseteq dropped

\* How far each pass is.  When the startup pass has given the lock back, it can
\* vouch for the old paths only while its entry is pending.
PassedOver(r) ==
  LET k == Job(r).kind
      m == Job(r).move
  IN  /\ run[r].step \in {"items", "unlink"} =>
           \A p \in DOMAIN m \ (run[r].todo \cup run[r].item) : Left(k, p, run[r].failed)
      /\ run[r].step = "unlink" =>
           \A p \in run[r].item : \A d \in side[k][p] :
             d \in side[k][m[p]] \/ <<k, d>> \in displaced
      /\ run[r].step = "mark" /\ r # Reconcile =>
           \A p \in DOMAIN m : Left(k, p, run[r].failed)
      /\ run[r].step = "mark" /\ Job(r).gen \in DOMAIN ledger.entries /\ ~run[r].failed =>
           \A p \in DOMAIN m : side[k][p] \subseteq dropped
AllPassedOver == \A r \in Runners : PassedOver(r)

\* In a hasty world nothing fails, and there is no startup pass.
HastyWorld ==
  ~calm => /\ refused = {} /\ used.faults = 0 /\ run[Reconcile].step = "idle"
           /\ \A r \in Runners : ~run[r].failed

\* In a calm one there is one rename at a time, which all that is pending is of,
\* and no document is at an old path of it.
Busy == {w \in Workers : run[w].step # "idle"}
OneRename ==
  calm =>
    /\ \A w \in Busy : w[1] = used.renames
    /\ \A v, w \in Busy : Job(v).move = Job(w).move
    /\ \A g, h \in DOMAIN ledger.entries : g = h
    /\ \A g \in DOMAIN ledger.entries :
         /\ \A w \in Busy : Job(w).move = ledger.entries[g].move
         /\ \A w \in Busy : run[w].step = "wait" =>
              ToSet(KindsOf[w[2]]) \cap DOMAIN ledger.entries[g].kinds = {}
         /\ \A d \in Docs : place[d] \notin DOMAIN ledger.entries[g].move
    /\ \A w \in Busy, d \in Docs : place[d] \notin DOMAIN Job(w).move

\* A sidecar at p is still to be moved to q: an entry owes it, or a worker that
\* has not recorded its own yet.
Pending(k, p, q) ==
  \/ \E g \in DOMAIN ledger.entries :
       LET e == ledger.entries[g]
       IN  /\ k \in DOMAIN e.kinds /\ ~e.kinds[k].done
           /\ p \in DOMAIN e.move /\ e.move[p] = q
  \/ \E w \in Workers :
       /\ run[w].step = "wait" /\ k \in ToSet(KindsOf[w[2]])
       /\ p \in DOMAIN Job(w).move /\ Job(w).move[p] = q

AllPending ==
  calm =>
    \A d \in Docs \ dropped, k \in Kinds :
      <<k, d>> \in displaced \/ \A p \in At(k, d) : p = place[d] \/ Pending(k, p, place[d])

\* The kinds of the notes worker, once its rename is through with all of them,
\* are together; those it is through with are at no old path.
Moved(m, ps) == {IF p \in DOMAIN m THEN m[p] ELSE p : p \in ps}
StillToMove(w) == {j.kind : j \in run[w].queue} \cup (IF run[w].step = "mark" THEN {} ELSE {Job(w).kind})
Unmoved(d) == {k \in ToSet(NoteKinds) : <<k, d>> \notin displaced}

KindsMeet ==
  ~calm =>
    IF holder \in Workers /\ holder[2] = "notes"
    THEN LET m == Job(holder).move
         IN  /\ \A d \in Docs : \A k1, k2 \in Unmoved(d) :
                  Moved(m, At(k1, d)) = Moved(m, At(k2, d))
             /\ \A k \in ToSet(NoteKinds) \ StillToMove(holder) :
                  \A p \in DOMAIN m : side[k][p] = {}
    ELSE \A d \in Docs : \A k1, k2 \in Unmoved(d) : At(k1, d) = At(k2, d)

LedgerInv ==
  /\ LedgerTypeOK /\ LockHeld /\ JobsFit /\ AllPassedOver
  /\ SidecarsNeverLost /\ HastyWorld /\ OneRename /\ AllPending /\ KindsMeet
=============================================================================
