---------------------------- MODULE LocalHistory ----------------------------
(***************************************************************************)
(* Local history: snapshots of saved documents, in one directory for each  *)
(* document (services/local_history_service.rs).  The directory is named   *)
(* after the path the document had when it was made; it holds the bodies   *)
(* and an index that lists them and says whose they are.                   *)
(*                                                                         *)
(* One process-wide lock is held from the first read of an operation to    *)
(* its last write, so an operation is one step here.  What it writes is a  *)
(* sequence of durable writes, and a failure or a crash leaves what some   *)
(* of them wrote: each operation is defined as the sequence of the states  *)
(* of the store it passes through.                                         *)
(***************************************************************************)
EXTENDS Naturals, Sequences, FiniteSets, SequencesExt

CONSTANTS
  Files,        \* documents
  HistoryHome,  \* the path of each at first
  ScanOrder,    \* paths a document can have, in the order of their directories
  Cap,          \* snapshots kept of one document
  GlobalCap,    \* snapshots kept of all
  HistoryBounds \* bounds, one record of them in each behaviour: the
                \* snapshots, renames, broken operations, damaged indexes and
                \* relaunches, and whether a snapshot may be back-dated

Spots == ToSet(ScanOrder)

ASSUME HistoryAssumption ==
  /\ IsInjective(ScanOrder)
  /\ HistoryHome \in [Files -> Spots] /\ IsInjective(HistoryHome)
  /\ Cap \in Nat \ {0} /\ GlobalCap \in Nat \ {0}

VARIABLES
  at,      \* where each document is
  line,    \* the store: the lineage directory of each path
  move,    \* the move a rename still owes, if any, and who is to do it
  boot,    \* what the startup pass still has to do
  made,    \* snapshots made, and whether each was reported as stored
  damaged, \* snapshots an index of which was damaged
  twice,   \* snapshots that were ever listed in two lineages
  spent,   \* what was used of the bounds
  bounds   \* the bounds of this behaviour

historyVars == <<at, line, move, boot, made, damaged, twice, spent, bounds>>

\* index is missing, damaged or good; a good one says whose it is and lists
\* snapshots: a number, of which the body is named, and a time.
NoLineage == [here |-> FALSE, index |-> "none", owner |-> 0, list |-> {}, bodies |-> {}]
NoMove    == [old |-> 0, new |-> 0, by |-> "nobody"]

\* The state of each variable.  Without damage or failure no lineage lists
\* more than its share.
HistoryTypeOK ==
  /\ at \in [Files -> Spots] /\ IsInjective(at)
  /\ \A p \in Spots :
        /\ line[p].index \in {"none", "bad", "good"}
        /\ line[p].index # "good" => line[p].list = {}
        /\ line[p].index = "good" => line[p].owner \in Spots
        /\ ~line[p].here => line[p] = NoLineage
        /\ bounds.damage + bounds.breaks = 0 => Cardinality(line[p].list) <= Cap
  /\ move.by \in {"nobody", "worker", "ledger"}
  /\ boot \in {"ledger", "lineages", "done"}

-----------------------------------------------------------------------------
(* Snapshots in their order. *)

Newer(a, b) == a.t > b.t \/ (a.t = b.t /\ a.n > b.n)

\* The newest snapshots of a list; one more, in a faulty version.
NewestAndOne(list, count) == {s \in list : Cardinality({u \in list : Newer(u, s)}) <= count}
Newest(list, count) == {s \in list : Cardinality({u \in list : Newer(u, s)}) < count}

-----------------------------------------------------------------------------
(* Steps of the store.  tr is a sequence of its states. *)

\* load_history_index quarantines an index it cannot read.
LoadIndex(store, p) ==
  IF store[p].index = "bad" THEN [store EXCEPT ![p].index = "none"] ELSE store

LoadAll(store) == FoldLeft(LoadIndex, store, ScanOrder)

WriteIndex(store, p, owner, list) ==
  [store EXCEPT ![p] = [here |-> TRUE, index |-> "good", owner |-> owner, list |-> list,
                        bodies |-> store[p].bodies]]

Drop(store, p) == [store EXCEPT ![p] = NoLineage]

\* load_document_for_identity_recovering: an index found damaged by this very
\* load is rebuilt from the bodies, with the times in their names.
Recover(tr, p) ==
  LET found == Last(tr)
      clear == LoadIndex(found, p)
  IN  IF found[p].index # "bad" THEN tr
      ELSE IF found[p].bodies = {} THEN Append(tr, clear)
      ELSE tr \o <<clear, WriteIndex(clear, p, p, {[n |-> b, t |-> b] : b \in found[p].bodies})>>

\* trim_document_to_retention and save_document_index: the bodies first.
StoreTrimmed(tr, p, list) ==
  LET kept  == Newest(list, Cap)
      clear == [Last(tr) EXCEPT ![p].bodies = @ \ {s.n : s \in list \ kept}]
  IN  tr \o <<clear, WriteIndex(clear, p, p, kept)>>

\* What global retention does to one lineage of which it keeps some: the
\* index first.
Prune(tr, p, keep) ==
  LET store == Last(tr)
      wrote == WriteIndex(store, p, store[p].owner, keep)
  IN  IF keep = {} THEN Append(tr, Drop(store, p))
      ELSE IF keep = store[p].list THEN tr
      ELSE tr \o <<wrote, [wrote EXCEPT ![p].bodies = @ \ {s.n : s \in store[p].list \ keep}]>>

\* enforce_global_retention_locked.  A snapshot listed in two lineages counts
\* twice, the lineage scanned first before the other.
Retain(tr) ==
  LET store == LoadAll(Last(tr))
      pairs == UNION {{i} \X store[ScanOrder[i]].list : i \in DOMAIN ScanOrder}
      before(x, y) == Newer(x[2], y[2]) \/ (x[2] = y[2] /\ x[1] < y[1])
      kept == {x \in pairs : Cardinality({y \in pairs : before(y, x)}) < GlobalCap}
      keep(p) == {x[2] : x \in {y \in kept : ScanOrder[y[1]] = p}}
  IN  IF Cardinality(pairs) <= GlobalCap THEN Append(tr, store)
      ELSE FoldLeft(LAMBDA steps, p : Prune(steps, p, keep(p)),
                    Append(tr, store),
                    SelectSeq(ScanOrder, LAMBDA p : store[p].index = "good"))

\* capture_snapshot_for_identity_at_locked.
CaptureSteps(p, s) ==
  LET read == Recover(<<line>>, p)
      dir  == [Last(read) EXCEPT ![p].here = TRUE]
      body == [dir EXCEPT ![p].bodies = @ \cup {s.n}]
  IN  Retain(StoreTrimmed(read \o <<dir, body>>, p, dir[p].list \cup {s}))

\* Faulty versions: the directory is moved and its index is not written
\* again; and what is at the new path makes way.
MigrateBare(tr, p, q, list) ==
  LET store == Last(tr)
  IN  Append(tr, IF p = q THEN store ELSE [store EXCEPT ![q] = store[p], ![p] = NoLineage])

MigrateOver(tr, p, q, list) ==
  LET store == Last(tr)
      moved == IF p = q THEN store ELSE [store EXCEPT ![q] = store[p], ![p] = NoLineage]
  IN  tr \o <<moved, WriteIndex(moved, q, q, list)>>

\* The bodies of list from p to q, where not there already, newest first.
MoveBodies(tr, p, q, list) ==
  FoldLeft(LAMBDA steps, s :
             LET store == Last(steps)
             IN  IF s.n \in store[q].bodies THEN steps
                 ELSE Append(steps, [store EXCEPT ![p].bodies = @ \ {s.n}, ![q].bodies = @ \cup {s.n}]),
           tr, SetToSortSeq(list, Newer))

\* migrate_loaded_document: the lineage at p, with the list a scan found,
\* becomes the lineage of q or is merged into it.
Migrate(tr, p, q, list) ==
  LET store   == Last(tr)
      renamed == [store EXCEPT ![q] = store[p], ![p] = NoLineage]
      target  == LoadIndex(store, q)
      present == {s \in list : s.n \in target[p].bodies \cup target[q].bodies}
      merged  == target[q].list
                   \cup {s \in present : \A u \in target[q].list : u.n # s.n}
      written == StoreTrimmed(MoveBodies(Append(tr, target), p, q, present), q, merged)
  IN  IF p = q THEN Append(tr, WriteIndex(store, p, p, list))
      ELSE IF ~store[q].here THEN tr \o <<renamed, WriteIndex(renamed, q, q, list)>>
      ELSE Append(written, Drop(Last(written), p))

\* remove_empty_lineage_dir_if_exists
DropEmpty(tr, p) ==
  LET store == Last(tr)
  IN  IF store[p].here /\ store[p].index = "none" /\ store[p].bodies = {}
      THEN Append(tr, Drop(store, p)) ELSE tr

\* move_path_tree: every lineage that says it is of the old path.
MoveSteps(old, new) ==
  LET store == LoadAll(line)
      mine  == SelectSeq(ScanOrder, LAMBDA p : store[p].index = "good" /\ store[p].owner = old)
      moved == FoldLeft(LAMBDA steps, p : Migrate(steps, p, new, store[p].list), <<line, store>>, mine)
  IN  Retain(DropEmpty(moved, old))

\* reconcile_lineages_locked: empty directories go, and a lineage in another
\* directory than that of its owner moves there.  The budget may stop it.
ReconcileSteps ==
  LET store   == LoadAll(line)
      cleared == FoldLeft(DropEmpty, <<line, store>>, ScanOrder)
      astray  == SelectSeq(ScanOrder, LAMBDA p : store[p].index = "good" /\ store[p].owner # p)
  IN  FoldLeft(LAMBDA steps, p : Migrate(steps, p, store[p].owner, store[p].list), cleared, astray)

-----------------------------------------------------------------------------
(* Operations. *)

\* Snapshots listed in two lineages.
Doubled(store) ==
  {n \in 1 .. bounds.snaps :
     Cardinality({p \in Spots : \E s \in store[p].list : s.n = n}) > 1}

\* All of the writes, or those that a failure or a crash left.
Whole(tr, used) ==
  /\ line' = Last(tr)
  /\ spent' = used
  /\ UNCHANGED twice
Broken(tr, used) ==
  /\ used.breaks < bounds.breaks
  /\ \E k \in DOMAIN tr : line' = tr[k]
  /\ spent' = [used EXCEPT !.breaks = @ + 1]
  /\ twice' = twice \cup Doubled(line')

\* A snapshot of a document: of now, or of the time of a stale draft, which is
\* reported as stored only if retention kept it.
Capture(f, dated) ==
  LET n    == spent.snaps + 1
      s    == [n |-> n, t |-> IF dated THEN 0 ELSE n]
      used == [spent EXCEPT !.snaps = n]
      tr   == CaptureSteps(at[f], s)
  IN  /\ n <= bounds.snaps
      /\ dated => bounds.dated
      /\ \E ok \in BOOLEAN :
           /\ made' = made \cup {[n |-> n, t |-> s.t, file |-> f, ok |-> ok]}
           /\ \/ Whole(tr, used) /\ ok = (s \in line'[at[f]].list)
              \/ Broken(tr, used) /\ ~ok
      /\ UNCHANGED <<at, move, boot, damaged, bounds>>

\* A listing or a preview, which writes only to repair.
Browse(f) ==
  LET tr == Recover(<<line>>, at[f])
  IN  /\ Whole(tr, spent) \/ Broken(tr, spent)
      /\ UNCHANGED <<at, move, boot, made, damaged, bounds>>

\* A rename in the sidebar.  The move it owes is recorded; the user waits for
\* the one before.
RenameFile(f, q) ==
  /\ spent.renames < bounds.renames
  /\ move = NoMove /\ \A g \in Files : at[g] # q
  /\ spent' = [spent EXCEPT !.renames = @ + 1]
  /\ at' = [at EXCEPT ![f] = q]
  /\ move' = [old |-> at[f], new |-> q, by |-> "worker"]
  /\ UNCHANGED <<line, boot, made, damaged, twice, bounds>>

\* The move, by the worker of the rename or by the startup pass.  One that
\* does not succeed is for the startup pass of a later launch.
MoveTree ==
  LET tr == MoveSteps(move.old, move.new)
  IN  \/ Whole(tr, spent) /\ move' = NoMove
      \/ Broken(tr, spent) /\ move' = [move EXCEPT !.by = "ledger"]

WorkerMoves ==
  /\ move.by = "worker" /\ MoveTree
  /\ UNCHANGED <<at, boot, made, damaged, bounds>>

\* The startup pass: first what the ledger holds, then the lineages.
RetryMove ==
  /\ boot = "ledger" /\ boot' = "lineages"
  /\ IF move.by = "ledger" THEN MoveTree ELSE UNCHANGED <<line, move, twice, spent>>
  /\ UNCHANGED <<at, made, damaged, bounds>>

ReconcileLineages ==
  /\ boot = "lineages" /\ boot' = "done"
  /\ Whole(ReconcileSteps, spent) \/ Broken(ReconcileSteps, spent)
  /\ UNCHANGED <<at, move, made, damaged, bounds>>

\* The process ends and another starts; a worker that had not moved anything
\* yet leaves the record of its rename.
LaunchAgain ==
  /\ spent.launches < bounds.launches
  /\ spent' = [spent EXCEPT !.launches = @ + 1]
  /\ boot' = "ledger"
  /\ move' = IF move = NoMove THEN NoMove ELSE [move EXCEPT !.by = "ledger"]
  /\ UNCHANGED <<at, line, made, damaged, twice, bounds>>

\* An index is damaged from outside: it can no longer be read.
Damage(p) ==
  /\ spent.damage < bounds.damage /\ line[p].index = "good"
  /\ spent' = [spent EXCEPT !.damage = @ + 1]
  /\ line' = [line EXCEPT ![p].index = "bad", ![p].owner = 0, ![p].list = {}]
  /\ damaged' = damaged \cup line[p].bodies \cup {s.n : s \in line[p].list}
  /\ UNCHANGED <<at, move, boot, made, twice, bounds>>

HistoryInit ==
  /\ at = HistoryHome
  /\ line = [p \in Spots |-> NoLineage]
  /\ move = NoMove /\ boot = "ledger"
  /\ made = {} /\ damaged = {} /\ twice = {}
  /\ spent = [snaps |-> 0, renames |-> 0, breaks |-> 0, damage |-> 0, launches |-> 0]
  /\ bounds \in HistoryBounds

HistoryNext ==
  \/ \E f \in Files, dated \in BOOLEAN : Capture(f, dated)
  \/ \E f \in Files : Browse(f)
  \/ \E f \in Files, q \in Spots : RenameFile(f, q)
  \/ WorkerMoves
  \/ RetryMove
  \/ ReconcileLineages
  \/ LaunchAgain
  \/ \E p \in Spots : Damage(p)

HistorySpec == HistoryInit /\ [][HistoryNext]_historyVars

-----------------------------------------------------------------------------
(* Properties *)

\* Retention may have taken a snapshot: Cap newer ones were made of its
\* document, or GlobalCap newer ones of all, those counted twice that a broken
\* merge left listed twice.
Outlived(a) ==
  LET newer == {s \in made : Newer(s, a)}
  IN  \/ Cardinality({s \in newer : s.file = a.file}) >= Cap
      \/ Cardinality(newer) + Cardinality({s \in newer \cup {a} : s.n \in twice}) >= GlobalCap

\* A snapshot that was reported as stored keeps its body, whatever renames,
\* merges, failures and crashes follow, until retention takes it in its turn.
BodiesKept ==
  \A a \in made :
    a.ok => a.n \in damaged \/ Outlived(a) \/ \E p \in Spots : a.n \in line[p].bodies

\* History follows its document: once no move is owed, the lineage of the
\* path a document has lists its snapshots, each with its body there.
HistoryFollows ==
  move = NoMove =>
    \A a \in {m \in made : m.ok} :
      \/ a.n \in damaged \/ Outlived(a)
      \/ LET own == line[at[a.file]]
         IN  own.owner = at[a.file] /\ a.n \in own.bodies /\ \E s \in own.list : s.n = a.n

\* "WHEN snapshot files contain enough deterministic metadata to rebuild the
\* lineage index THEN the system writes a repaired index": when nothing but
\* the damage to an index goes wrong, an index lists every body beside it.
RepairedWhole ==
  bounds.breaks = 0 =>
    \A p \in Spots : line[p].index = "good" => line[p].bodies = {s.n : s \in line[p].list}
=============================================================================
