------------------------- MODULE MigrationLedger_proofs -------------------------
(***************************************************************************)
(* Theorems about the migration ledger: for any documents, renames, kinds, *)
(* failures and launches, no sidecar is lost, a pass leaves behind only    *)
(* what it may, the kinds of a document stay together, and what has not    *)
(* arrived is owed.                                                        *)
(***************************************************************************)
EXTENDS MigrationLedger, TLAPS

-----------------------------------------------------------------------------
(* The ledger document *)

\* Reconcile is no worker and nobody is a runner.
LEMMA Apart == Reconcile \notin Workers /\ Nobody \notin Runners /\ Reconcile \in Runners
BY DEF Reconcile, Workers, Nobody, Runners

\* The entries that stay are as they were.
LEMMA KeptEntries ==
    ASSUME NEW es
    PROVE  /\ DOMAIN RemoveCompleted(es) = {g \in DOMAIN es : ~IsComplete(es[g])}
           /\ \A g \in DOMAIN RemoveCompleted(es) : RemoveCompleted(es)[g] = es[g]
BY DEF RemoveCompleted, RestrictValues, Restrict

\* What the type says of an entry.
EntryOK(e) ==
  /\ e = [move |-> e.move, kinds |-> e.kinds] /\ e.move \in Moves
  /\ DOMAIN e.kinds \subseteq Kinds
  /\ e.kinds \in [DOMAIN e.kinds -> [done : BOOLEAN, attempts : Nat]]

BookOK(book) ==
  /\ book = [next |-> book.next, entries |-> book.entries]
  /\ book.next \in Nat \ {0} /\ DOMAIN book.entries \subseteq 1 .. book.next - 1
  /\ \A g \in DOMAIN book.entries : EntryOK(book.entries[g])

LEMMA BookTyped == LedgerTypeOK => BookOK(ledger)
BY DEF LedgerTypeOK, BookOK, EntryOK

\* The generation of a record is that of an entry with the same move which is
\* still pending, or a new one.
LEMMA RecordGeneration ==
    ASSUME BookOK(ledger), NEW m \in Moves
    PROVE  LET kept == RemoveCompleted(ledger.entries)
               gen  == RecordAs(m)
           IN  \/ gen = ledger.next /\ gen \notin DOMAIN kept
                  /\ \A g \in DOMAIN kept : kept[g].move # m
               \/ gen \in DOMAIN kept /\ kept[gen].move = m
<1> DEFINE kept == RemoveCompleted(ledger.entries)
           same == {g \in DOMAIN kept : kept[g].move = m}
<1>1. DOMAIN kept \subseteq 1 .. ledger.next - 1
  BY KeptEntries DEF BookOK
<1>2. CASE same = {}
  BY <1>1, <1>2 DEF RecordAs, BookOK
<1>3. CASE same # {}
  <2>1. RecordAs(m) \in same
    BY <1>3 DEF RecordAs
  <2> QED BY <2>1
<1> QED BY <1>2, <1>3

\* The ledger after a record: entries that were not complete stay, and one has
\* the new kinds besides its own.
LEMMA AfterRecord ==
    ASSUME BookOK(ledger), NEW m \in Moves, NEW kinds \in SUBSET Kinds
    PROVE  LET gen == RecordAs(m)
               new == RecordPending(gen, m, kinds)
           IN  /\ BookOK(new)
               /\ gen \in DOMAIN new.entries /\ new.entries[gen].move = m
               /\ ledger.next <= new.next
               /\ DOMAIN new.entries \subseteq DOMAIN ledger.entries \cup {gen}
               /\ \A g \in DOMAIN ledger.entries :
                    \/ g \in DOMAIN new.entries
                    \/ IsComplete(ledger.entries[g])
               /\ \A g \in DOMAIN ledger.entries \cap DOMAIN new.entries :
                    /\ new.entries[g].move = ledger.entries[g].move
                    /\ \A k \in DOMAIN ledger.entries[g].kinds :
                         /\ k \in DOMAIN new.entries[g].kinds
                         /\ new.entries[g].kinds[k] = ledger.entries[g].kinds[k]
                    /\ g # gen => new.entries[g] = ledger.entries[g]
                    /\ DOMAIN new.entries[g].kinds \subseteq DOMAIN ledger.entries[g].kinds \cup kinds
               /\ gen \notin DOMAIN ledger.entries => DOMAIN new.entries[gen].kinds = kinds
               /\ \A k \in kinds :
                    /\ k \in DOMAIN new.entries[gen].kinds
                    /\ \/ ~new.entries[gen].kinds[k].done
                       \/ gen \in DOMAIN ledger.entries /\ k \in DOMAIN ledger.entries[gen].kinds
               /\ gen = ledger.next \/ gen \in DOMAIN ledger.entries
               /\ gen \notin DOMAIN ledger.entries =>
                    \A g \in DOMAIN new.entries \ {gen} : new.entries[g].move # m
<1> DEFINE kept == RemoveCompleted(ledger.entries)
           gen  == RecordAs(m)
           new  == RecordPending(gen, m, kinds)
           had  == IF gen \in DOMAIN kept THEN kept[gen].kinds ELSE <<>>
<1>1. /\ DOMAIN kept = {g \in DOMAIN ledger.entries : ~IsComplete(ledger.entries[g])}
      /\ \A g \in DOMAIN kept : kept[g] = ledger.entries[g]
  BY KeptEntries
<1>2. \/ gen = ledger.next /\ gen \notin DOMAIN kept /\ \A g \in DOMAIN kept : kept[g].move # m
      \/ gen \in DOMAIN kept /\ kept[gen].move = m
  BY RecordGeneration
<1>3. /\ new.next = IF gen = ledger.next THEN gen + 1 ELSE ledger.next
      /\ new = [next |-> new.next, entries |-> new.entries]
      /\ DOMAIN new.entries = DOMAIN kept \cup {gen}
      /\ \A g \in DOMAIN new.entries :
           new.entries[g] = IF g = gen THEN [move |-> m, kinds |-> EnsureKinds(had, kinds)] ELSE kept[g]
  BY DEF RecordPending
<1>4. had \in [DOMAIN had -> [done : BOOLEAN, attempts : Nat]] /\ DOMAIN had \subseteq Kinds
  BY <1>1, <1>2 DEF BookOK, EntryOK
<1>5. LET ks == EnsureKinds(had, kinds)
      IN  /\ ks \in [DOMAIN ks -> [done : BOOLEAN, attempts : Nat]]
          /\ DOMAIN ks = DOMAIN had \cup kinds
          /\ \A k \in DOMAIN had : ks[k] = had[k]
          /\ \A k \in kinds \ DOMAIN had : ~ks[k].done
  BY <1>4 DEF EnsureKinds, Owed
<1>6. BookOK(new)
  BY <1>1, <1>2, <1>3, <1>4, <1>5 DEF BookOK, EntryOK
<1>7. new.entries[gen] = [move |-> m, kinds |-> EnsureKinds(had, kinds)]
  BY <1>3
<1>8. gen \in DOMAIN ledger.entries => gen \in DOMAIN kept
  BY <1>1, <1>2 DEF BookOK
<1>9. gen \notin DOMAIN ledger.entries => DOMAIN had = {}
  BY <1>1
<1> HIDE DEF kept, gen, new, had
<1>10. \A g \in DOMAIN ledger.entries \cap DOMAIN new.entries :
         /\ g = gen => had = ledger.entries[g].kinds /\ ledger.entries[g].move = m
         /\ g # gen => new.entries[g] = ledger.entries[g]
  BY <1>1, <1>2, <1>3, <1>8 DEF had
<1>11. gen \notin DOMAIN ledger.entries =>
         \A g \in DOMAIN new.entries \ {gen} : new.entries[g].move # m
  BY <1>1, <1>2, <1>3
<1> QED BY <1>1, <1>2, <1>3, <1>5, <1>6, <1>7, <1>8, <1>9, <1>10, <1>11 DEF BookOK, kept, gen, new

\* The ledger after a mark: only the kind of the job is changed, and only an
\* entry that is complete then goes.
BookAfter(new, job, done) ==
  /\ BookOK(new) /\ new.next = ledger.next
  /\ DOMAIN new.entries \subseteq DOMAIN ledger.entries
  /\ \A g \in DOMAIN new.entries :
       /\ new.entries[g].move = ledger.entries[g].move
       /\ DOMAIN new.entries[g].kinds = DOMAIN ledger.entries[g].kinds
  /\ \A g \in DOMAIN ledger.entries : \A k \in DOMAIN ledger.entries[g].kinds :
       ~ledger.entries[g].kinds[k].done =>
         \/ g \in DOMAIN new.entries /\ ~new.entries[g].kinds[k].done
         \/ done /\ g = job.gen /\ k = job.kind

LEMMA AfterMark ==
    ASSUME BookOK(ledger), NEW job, NEW done \in BOOLEAN, NEW tries \in Nat
    PROVE  BookAfter(UpdateKind(job, done, tries), job, done)
<1> DEFINE new == UpdateKind(job, done, tries)
           es  == [ledger.entries EXCEPT ![job.gen].kinds[job.kind] =
                             [done |-> done, attempts |-> @.attempts + tries]]
<1>1. CASE ~Tracked(job)
  BY <1>1 DEF UpdateKind, BookOK, BookAfter
<1>2. CASE Tracked(job)
  <2>1. new = [next |-> ledger.next, entries |-> RemoveCompleted(es)]
    BY <1>2 DEF UpdateKind, BookOK
  <2>2. DOMAIN es = DOMAIN ledger.entries /\ \A g \in DOMAIN es \ {job.gen} : es[g] = ledger.entries[g]
    OBVIOUS
  <2>3. /\ EntryOK(es[job.gen])
        /\ es[job.gen].move = ledger.entries[job.gen].move
        /\ DOMAIN es[job.gen].kinds = DOMAIN ledger.entries[job.gen].kinds
        /\ es[job.gen].kinds[job.kind].done = done
        /\ \A k \in DOMAIN ledger.entries[job.gen].kinds \ {job.kind} :
             es[job.gen].kinds[k] = ledger.entries[job.gen].kinds[k]
    <3>1. EntryOK(ledger.entries[job.gen]) /\ job.kind \in DOMAIN ledger.entries[job.gen].kinds
      BY <1>2 DEF Tracked, BookOK
    <3> DEFINE e  == ledger.entries[job.gen]
               st == [done |-> done, attempts |-> e.kinds[job.kind].attempts + tries]
    <3>2. st \in [done : BOOLEAN, attempts : Nat] /\ st.done = done
      BY <3>1 DEF EntryOK
    <3>3. es[job.gen] = [e EXCEPT !.kinds = [e.kinds EXCEPT ![job.kind] = st]]
      BY <1>2, Zenon DEF Tracked
    <3> HIDE DEF es, st
    <3> QED BY <3>1, <3>2, <3>3 DEF EntryOK
  <2>4. /\ DOMAIN RemoveCompleted(es) = {g \in DOMAIN es : ~IsComplete(es[g])}
        /\ \A g \in DOMAIN RemoveCompleted(es) : RemoveCompleted(es)[g] = es[g]
    BY KeptEntries
  <2> HIDE DEF es
  <2>5. \A g \in DOMAIN es : EntryOK(es[g])
    BY <2>2, <2>3 DEF BookOK
  <2>6. BookOK(new)
    BY <2>1, <2>2, <2>4, <2>5 DEF BookOK
  <2>7. \A g \in DOMAIN ledger.entries : \A k \in DOMAIN ledger.entries[g].kinds :
          ~ledger.entries[g].kinds[k].done =>
            ~es[g].kinds[k].done \/ (done /\ g = job.gen /\ k = job.kind)
    BY <2>2, <2>3
  <2>8. \A g \in DOMAIN es : \A k \in DOMAIN es[g].kinds : ~es[g].kinds[k].done => g \in DOMAIN RemoveCompleted(es)
    BY <2>4 DEF IsComplete
  <2> QED BY <2>1, <2>2, <2>3, <2>4, <2>6, <2>7, <2>8 DEF BookAfter
<1> QED BY <1>1, <1>2

-----------------------------------------------------------------------------
(* The workers: types, the lock and the jobs *)

Control == LedgerTypeOK /\ LockHeld /\ JobsFit

\* A worker's locals, field by field.
LEMMA RunOf ==
    ASSUME LedgerTypeOK, NEW r \in Runners
    PROVE  /\ DOMAIN run = Runners
           /\ run[r] = [step |-> run[r].step, job |-> run[r].job, queue |-> run[r].queue,
                        todo |-> run[r].todo, item |-> run[r].item, failed |-> run[r].failed]
           /\ run[r].step \in RunnerSteps
           /\ run[r].job \in [gen : Nat, move : Moves \cup {<<>>}, kind : Kinds \cup {"none"}]
           /\ run[r].queue \in SUBSET JobType
           /\ run[r].todo \in SUBSET Paths /\ run[r].item \in SUBSET Paths
           /\ run[r].failed \in BOOLEAN
BY DEF LedgerTypeOK, Locals

LEMMA NoWorkFields ==
    /\ NoWork \in [step : RunnerSteps,
                   job : [gen : Nat, move : Moves \cup {<<>>}, kind : Kinds \cup {"none"}],
                   queue : {{}}, todo : {{}}, item : {{}}, failed : BOOLEAN]
    /\ NoWork.step = "idle" /\ ~NoWork.failed
    /\ NoWork.queue = {} /\ NoWork.todo = {} /\ NoWork.item = {}
BY DEF NoWork, NoJob, RunnerSteps

\* The first of some jobs is begun: what the worker's locals then are.
LEMMA Begun ==
    ASSUME LedgerTypeOK, NEW r \in Runners, NEW jobs, TakeFirst(r, jobs)
    PROVE  \E job \in jobs :
             run' = [run EXCEPT ![r] = [step |-> "scan", job |-> job, queue |-> jobs \ {job},
                                        todo |-> {}, item |-> {}, failed |-> FALSE]]
BY DEF TakeFirst, NoWork, NoJob

\* Later generations only add jobs.
LEMMA Later ==
    ASSUME BookOK(ledger), BookOK(ledger'), ledger.next <= ledger'.next
    PROVE  /\ JobType \subseteq JobType' /\ Locals \subseteq Locals'
           /\ \A j \in JobType : j.gen \in Nat /\ j.gen < ledger.next /\ j.move \in Moves /\ j.kind \in Kinds
           /\ JobType \subseteq [gen : Nat, move : Moves \cup {<<>>}, kind : Kinds \cup {"none"}]
<1>1. 1 .. ledger.next - 1 \subseteq 1 .. ledger'.next - 1 /\ 1 .. ledger.next - 1 \subseteq Nat
  BY DEF BookOK
<1>2. JobType \subseteq JobType'
  BY <1>1 DEF JobType
<1>3. Locals \subseteq Locals'
  BY <1>2 DEF Locals
<1> QED BY <1>1, <1>2, <1>3 DEF JobType, BookOK

\* What the type says of one worker.
WorkerOK(r, v) ==
  /\ v.step \in AtWork => v.todo \cup v.item \subseteq DOMAIN v.job.move
  /\ v.step = "wait" /\ r # Reconcile => v.job.move \in Moves
  /\ v.step = "unlink" => \E p \in Paths : v.item = {p}
  /\ v.step # "unlink" => v.item = {}

\* A step of one worker that leaves the documents alone keeps the types.
LEMMA WorkerTyped ==
    ASSUME LedgerTypeOK, NEW r \in Runners, NEW v \in Locals',
           run' = [run EXCEPT ![r] = v], WorkerOK(r, v), v.step \in AtWork => v.job \in JobType',
           BookOK(ledger'), ledger.next <= ledger'.next,
           place' = place, side' \in [Kinds -> [Paths -> SUBSET Docs]],
           holder' \in Runners \cup {Nobody},
           used' \in [renames : 0 .. MaxRenames, faults : Nat, launches : Nat],
           dropped' \subseteq Docs, displaced' \subseteq Kinds \X Docs, shelved' \subseteq Kinds \X Docs,
           refused' = refused, calm' = calm
    PROVE  LedgerTypeOK'
<1>1. Locals \subseteq Locals' /\ JobType \subseteq JobType'
  BY BookTyped, Later
<1>2. run' \in [Runners -> Locals']
  BY <1>1 DEF LedgerTypeOK
<1>3. \A q \in Runners :
        /\ run'[q].step \in AtWork =>
             run'[q].job \in JobType' /\ run'[q].todo \cup run'[q].item \subseteq DOMAIN run'[q].job.move
        /\ run'[q].step = "wait" /\ q # Reconcile => run'[q].job.move \in Moves
        /\ run'[q].step = "unlink" => \E p \in Paths : run'[q].item = {p}
        /\ run'[q].step # "unlink" => run'[q].item = {}
  <2> SUFFICES ASSUME NEW q \in Runners
               PROVE  /\ run'[q].step \in AtWork =>
                           run'[q].job \in JobType' /\ run'[q].todo \cup run'[q].item \subseteq DOMAIN run'[q].job.move
                      /\ run'[q].step = "wait" /\ q # Reconcile => run'[q].job.move \in Moves
                      /\ run'[q].step = "unlink" => \E p \in Paths : run'[q].item = {p}
                      /\ run'[q].step # "unlink" => run'[q].item = {}
    OBVIOUS
  <2>1. CASE q = r
    <3>1. run'[q] = v
      BY <2>1 DEF LedgerTypeOK
    <3> QED BY <2>1, <3>1 DEF WorkerOK
  <2>2. CASE q # r
    <3>1. run'[q] = run[q]
      BY <2>2 DEF LedgerTypeOK
    <3> QED BY <3>1, <1>1 DEF LedgerTypeOK
  <2> QED BY <2>1, <2>2
<1>4. /\ ledger' = [next |-> ledger'.next, entries |-> ledger'.entries]
      /\ ledger'.next \in Nat \ {0} /\ DOMAIN ledger'.entries \subseteq 1 .. ledger'.next - 1
      /\ \A g \in DOMAIN ledger'.entries : EntryOK(ledger'.entries[g])
  BY DEF BookOK
<1>5. /\ place' \in [Docs -> Paths] /\ refused' \in Refusals \cup {{}} /\ calm' \in BOOLEAN
  BY DEF LedgerTypeOK
<1> QED BY <1>2, <1>3, <1>4, <1>5 DEF LedgerTypeOK, EntryOK

\* A step of one worker that records nothing and takes no new job keeps the
\* jobs in order.
LEMMA WorkerFits ==
    ASSUME Control, NEW r \in Runners, NEW v, run' = [run EXCEPT ![r] = v],
           used'.renames = used.renames,
           DOMAIN ledger'.entries \subseteq DOMAIN ledger.entries,
           \A g \in DOMAIN ledger'.entries : ledger'.entries[g].move = ledger.entries[g].move,
           v.queue \cup (IF v.step \in AtWork THEN {v.job} ELSE {}) \subseteq JobsOf(r),
           r # Reconcile => /\ v.step # "wait" /\ v.step # "start"
                            /\ v.step = "idle" => v.queue = {}
                            /\ run[r].step \in AtWork
                            /\ \A j \in v.queue : j.gen = v.job.gen /\ j.move = v.job.move
    PROVE  JobsFit'
<1>1. run'[r] = v /\ \A q \in Runners \ {r} : run'[q] = run[q]
  BY DEF Control, LedgerTypeOK
<1>2. \A q \in Runners : JobsOf(q)' \subseteq JobsOf(q)
  BY <1>1 DEF JobsOf, Job
<1>3. \A w \in Workers : w \in Runners /\ w # Reconcile
  BY Apart DEF Runners
<1>4. /\ \A w \in Workers : w[1] > used'.renames => run'[w].step = "idle"
      /\ \A w \in Workers : run'[w].step \in {"idle", "wait"} => run'[w].queue = {}
      /\ \A w \in Workers : run'[w].step # "start"
      /\ \A w \in Workers : \A j \in run'[w].queue : j.gen = run'[w].job.gen /\ j.move = run'[w].job.move
  BY <1>1, <1>3 DEF Control, JobsFit, Job, AtWork, Moving
<1>5. \A w \in Workers : \A j \in JobsOf(w)' : j.kind \in ToSet(KindsOf[w[2]])
  BY <1>2, <1>3 DEF Control, JobsFit
<1>6. \A q \in Runners : \A j \in JobsOf(q)' :
        j.gen \in DOMAIN ledger'.entries => ledger'.entries[j.gen].move = j.move
  BY <1>2 DEF Control, JobsFit
<1> QED BY <1>4, <1>5, <1>6 DEF JobsFit, Job

\* Stuttering, and a document that stays the same.
LEMMA SameBook ==
    ASSUME LedgerTypeOK, UNCHANGED ledger
    PROVE  /\ BookOK(ledger) /\ BookOK(ledger') /\ ledger.next <= ledger'.next
           /\ DOMAIN ledger'.entries \subseteq DOMAIN ledger.entries
           /\ \A g \in DOMAIN ledger'.entries : ledger'.entries[g].move = ledger.entries[g].move
BY BookTyped DEF BookOK

LEMMA RenameControl ==
    ASSUME Control, NEW m \in Moves, Rename(m)
    PROVE  Control'
<1> DEFINE n == used.renames + 1
<1>1. /\ used.renames < MaxRenames /\ used' = [used EXCEPT !.renames = n]
      /\ UNCHANGED <<side, ledger, holder, dropped, displaced, shelved, refused, calm>>
      /\ run' = [r \in Runners |->
           IF r[1] = n /\ KindsOf[r[2]] # <<>>
           THEN [NoWork EXCEPT !.step = "wait", !.job = [NoJob EXCEPT !.move = m]]
           ELSE run[r]]
      /\ place' \in [Docs -> Paths]
  <2>1. DOMAIN m \subseteq Paths /\ \A p \in DOMAIN m : m[p] \in Paths
    BY LedgerAssumption
  <2> QED BY <2>1 DEF Rename, Control, LedgerTypeOK
<1>2. [NoWork EXCEPT !.step = "wait", !.job = [NoJob EXCEPT !.move = m]] \in
        [step : {"wait"}, job : [gen : {0}, move : {m}, kind : {"none"}],
         queue : {{}}, todo : {{}}, item : {{}}, failed : {FALSE}]
  BY DEF NoWork, NoJob
<1>3. \A r \in Runners :
        \/ run'[r] = run[r]
        \/ /\ run'[r] \in Locals' /\ run'[r].step = "wait" /\ run'[r].job.move = m
           /\ run'[r].queue = {} /\ run'[r].item = {} /\ r \in Workers /\ r[1] = n
           /\ run[r].step = "idle"
  <2> SUFFICES ASSUME NEW r \in Runners, run'[r] # run[r]
               PROVE  /\ run'[r] \in Locals' /\ run'[r].step = "wait" /\ run'[r].job.move = m
                      /\ run'[r].queue = {} /\ run'[r].item = {} /\ r \in Workers /\ r[1] = n
                      /\ run[r].step = "idle"
    OBVIOUS
  <2>1. r[1] = n /\ run'[r] = [NoWork EXCEPT !.step = "wait", !.job = [NoJob EXCEPT !.move = m]]
    BY <1>1
  <2>2. r # Reconcile
    BY <2>1 DEF Reconcile, Control, LedgerTypeOK
  <2>3. r \in Workers /\ r[1] > used.renames
    BY <2>1, <2>2 DEF Runners, Control, LedgerTypeOK
  <2>4. run[r].step = "idle"
    BY <2>3 DEF Control, JobsFit
  <2>5. run'[r] = [step |-> "wait", job |-> [gen |-> 0, move |-> m, kind |-> "none"],
                   queue |-> {}, todo |-> {}, item |-> {}, failed |-> FALSE]
    BY <2>1, <1>2
  <2>6. run'[r] \in Locals'
    BY <2>5 DEF Locals, RunnerSteps
  <2>7. run'[r].step = "wait" /\ run'[r].job.move = m /\ run'[r].queue = {} /\ run'[r].item = {}
    BY <2>5
  <2>8. r[1] = n
    BY <2>1
  <2> QED BY <2>3, <2>4, <2>6, <2>7, <2>8
<1>4. LedgerTypeOK'
  <2>1. BookOK(ledger) /\ BookOK(ledger') /\ ledger.next <= ledger'.next
    BY <1>1, SameBook DEF Control
  <2>2. JobType' = JobType /\ Locals' = Locals
    BY <1>1 DEF JobType, Locals
  <2>3. run' \in [Runners -> Locals']
    <3>1. \A r \in Runners : run'[r] \in Locals'
      BY <1>3, <2>2 DEF Control, LedgerTypeOK
    <3> QED BY <3>1, <1>1
  <2>4. \A r \in Runners :
        /\ run'[r].step \in AtWork =>
             run'[r].job \in JobType' /\ run'[r].todo \cup run'[r].item \subseteq DOMAIN run'[r].job.move
        /\ run'[r].step = "wait" /\ r # Reconcile => run'[r].job.move \in Moves
        /\ run'[r].step = "unlink" => \E p \in Paths : run'[r].item = {p}
        /\ run'[r].step # "unlink" => run'[r].item = {}
    BY <1>3, <2>2 DEF Control, LedgerTypeOK, AtWork, Moving
  <2>5. used' \in [renames : 0 .. MaxRenames, faults : Nat, launches : Nat]
    BY <1>1, LedgerAssumption DEF Control, LedgerTypeOK
  <2> QED BY <1>1, <2>3, <2>4, <2>5 DEF Control, LedgerTypeOK
<1>5. LockHeld'
  <2>1. holder' = holder /\ LockHeld
    BY <1>1 DEF Control
  <2>2. \A r \in Runners :
          run'[r] = run[r] \/ (run'[r].step = "wait" /\ run[r].step = "idle")
    BY <1>3
  <2>3. Reconcile \in Runners
    BY Apart
  <2>4. run'[Reconcile].step # run[Reconcile].step => run'[Reconcile].step = "wait"
    BY <2>2, <2>3
  <2>5. ASSUME NEW r \in Runners
        PROVE  /\ run'[r].step \in Moving => holder' = r
               /\ run'[r].step = "mark" /\ r # Reconcile => holder' = r
               /\ holder' = r => run'[r].step \in AtWork
    BY <2>1, <2>2 DEF LockHeld, AtWork, Moving
  <2>6. holder' = Reconcile => run'[Reconcile].step # "mark"
    BY <2>1, <2>3, <2>4 DEF LockHeld
  <2> QED BY <2>5, <2>6 DEF LockHeld
<1>6. JobsFit'
  <2>1. used'.renames = n /\ used.renames \in Nat
    BY <1>1 DEF Control, LedgerTypeOK
  <2>2. \A r \in Runners : JobsOf(r)' \subseteq JobsOf(r)
    BY <1>3 DEF JobsOf, Job, AtWork, Moving
  <2>3. \A w \in Workers : w \in Runners /\ w[1] \in Nat
    BY DEF Runners, Workers
  <2>4. \A w \in Workers :
          /\ w[1] > used'.renames => run'[w].step = "idle"
          /\ run'[w].step \in {"idle", "wait"} => run'[w].queue = {}
          /\ \A j \in run'[w].queue : j.gen = run'[w].job.gen /\ j.move = run'[w].job.move
          /\ run'[w].step # "start"
    BY <1>3, <2>1, <2>3 DEF Control, JobsFit, Job
  <2>5. /\ \A w \in Workers : \A j \in JobsOf(w)' : j.kind \in ToSet(KindsOf[w[2]])
        /\ \A r \in Runners : \A j \in JobsOf(r)' :
             j.gen \in DOMAIN ledger'.entries => ledger'.entries[j.gen].move = j.move
    BY <1>1, <2>2, <2>3 DEF Control, JobsFit
  <2> QED BY <2>4, <2>5 DEF JobsFit, Job
<1> QED BY <1>4, <1>5, <1>6 DEF Control

LEMMA TrackControl ==
    ASSUME Control, NEW w \in Workers, Track(w)
    PROVE  Control'
<1> DEFINE m     == Job(w).move
           kinds == ToSet(KindsOf[w[2]])
           gen   == RecordAs(m)
<1> w \in Runners /\ w # Reconcile
  BY Apart DEF Runners
<1>1. BookOK(ledger) /\ m \in Moves /\ kinds \in SUBSET Kinds
  <2>1. m \in Moves
    BY DEF Track, Control, LedgerTypeOK, Job
  <2>2. kinds \in SUBSET Kinds
    BY DEF Workers, KindsOf, Kinds
  <2> QED BY <2>1, <2>2, BookTyped DEF Control
<1>2. CASE /\ holder' = w /\ ledger' = RecordPending(gen, m, kinds)
           /\ TakeFirst(w, Jobs(gen, m, kinds)) /\ UNCHANGED <<used, dropped>>
  <2> DEFINE jobs == Jobs(gen, m, kinds)
  <2>0. UNCHANGED <<place, side, displaced, shelved, refused, calm>>
    BY DEF Track
  <2>1. /\ BookOK(ledger') /\ gen \in DOMAIN ledger'.entries /\ ledger'.entries[gen].move = m
        /\ ledger.next <= ledger'.next
        /\ DOMAIN ledger'.entries \subseteq DOMAIN ledger.entries \cup {gen}
        /\ \A g \in DOMAIN ledger.entries \cap DOMAIN ledger'.entries :
             ledger'.entries[g].move = ledger.entries[g].move
        /\ gen = ledger.next \/ gen \in DOMAIN ledger.entries
    BY <1>1, <1>2, AfterRecord
  <2>2. \A j \in jobs : j = [gen |-> gen, move |-> m, kind |-> j.kind] /\ j.kind \in kinds
    BY DEF Jobs
  <2>3. jobs \subseteq JobType'
    <3>1. gen \in 1 .. ledger'.next - 1
      BY <2>1 DEF BookOK
    <3> QED BY <3>1, <2>2, <1>1 DEF JobType
  <2>4. PICK job \in jobs :
          run' = [run EXCEPT ![w] = [step |-> "scan", job |-> job, queue |-> jobs \ {job},
                                     todo |-> {}, item |-> {}, failed |-> FALSE]]
    BY <1>2, Begun DEF Control
  <2> DEFINE v == [step |-> "scan", job |-> job, queue |-> jobs \ {job},
                   todo |-> {}, item |-> {}, failed |-> FALSE]
  <2>5. v \in Locals' /\ WorkerOK(w, v) /\ v.job \in JobType'
    <3>1. job \in JobType' /\ job \in [gen : Nat, move : Moves \cup {<<>>}, kind : Kinds \cup {"none"}]
      BY <2>3, <2>1 DEF BookOK, JobType
    <3>2. jobs \ {job} \in SUBSET JobType'
      BY <2>3
    <3> HIDE DEF jobs
    <3>3. v \in Locals'
      BY <3>1, <3>2 DEF Locals, RunnerSteps
    <3> QED BY <3>1, <3>3 DEF WorkerOK
  <2> HIDE DEF jobs, v
  <2>6. LedgerTypeOK'
    <3>1. /\ side' \in [Kinds -> [Paths -> SUBSET Docs]]
          /\ used' \in [renames : 0 .. MaxRenames, faults : Nat, launches : Nat]
          /\ dropped' \subseteq Docs /\ displaced' \subseteq Kinds \X Docs /\ shelved' \subseteq Kinds \X Docs
      BY <1>2, <2>0 DEF Control, LedgerTypeOK
    <3>2. run' = [run EXCEPT ![w] = v]
      BY <2>4 DEF v
    <3> HIDE DEF m, gen
    <3> QED BY <1>2, <2>0, <2>1, <2>5, <3>1, <3>2, WorkerTyped DEF Control
  <2>7. run'[w] = v /\ \A q \in Runners \ {w} : run'[q] = run[q]
    BY <2>4 DEF Control, LedgerTypeOK, v
  <2>8. /\ v.step = "scan" /\ v.job = job /\ v.queue = jobs \ {job}
    BY DEF v
  <2>9. LockHeld'
    <3>1. \A q \in Runners \ {w} : run[q].step \notin Moving /\ (q # Reconcile => run[q].step # "mark")
      BY Apart DEF Track, Control, LockHeld
    <3> QED BY <1>2, <2>7, <2>8, <3>1, Apart DEF Control, LockHeld, AtWork, Moving
  <2>10. JobsFit'
    <3>1. JobsOf(w)' \subseteq jobs /\ \A q \in Runners \ {w} : JobsOf(q)' = JobsOf(q)
      BY <2>4, <2>7, <2>8 DEF JobsOf, Job
    <3>2. \A x \in Workers : x \in Runners
      BY DEF Runners
    <3>3. run[w].step = "wait"
      BY DEF Track
    <3>4. \A x \in Workers :
            /\ x[1] > used'.renames => run'[x].step = "idle"
            /\ run'[x].step \in {"idle", "wait"} => run'[x].queue = {}
            /\ \A j \in run'[x].queue : j.gen = run'[x].job.gen /\ j.move = run'[x].job.move
            /\ run'[x].step # "start"
      BY <1>2, <2>2, <2>4, <2>7, <2>8, <3>2, <3>3 DEF Control, JobsFit, Job
    <3>5. \A x \in Workers : \A j \in JobsOf(x)' : j.kind \in ToSet(KindsOf[x[2]])
      BY <2>2, <3>1, <3>2 DEF Control, JobsFit
    <3>6. \A r \in Runners : \A j \in JobsOf(r)' :
             j.gen \in DOMAIN ledger'.entries => ledger'.entries[j.gen].move = j.move
      <4> SUFFICES ASSUME NEW r \in Runners, NEW j \in JobsOf(r)', j.gen \in DOMAIN ledger'.entries
                   PROVE  ledger'.entries[j.gen].move = j.move
        OBVIOUS
      <4>1. CASE r = w
        BY <4>1, <3>1, <2>1, <2>2
      <4>2. CASE r # w
        <5>1. j \in JobsOf(r)
          BY <4>2, <3>1
        <5>2. j \in JobType /\ j.gen < ledger.next
          <6>1. j \in JobType
            BY <5>1, RunOf DEF JobsOf, Job, Control, LedgerTypeOK
          <6> QED BY <6>1, <1>1, SameBook DEF JobType, BookOK
        <5>3. j.gen \in DOMAIN ledger.entries
          BY <5>2, <2>1, <1>1 DEF BookOK
        <5> QED BY <5>1, <5>3, <2>1 DEF Control, JobsFit
      <4> QED BY <4>1, <4>2
    <3> QED BY <3>4, <3>5, <3>6 DEF JobsFit, Job
  <2> QED BY <2>6, <2>9, <2>10 DEF Control
<1>3. CASE /\ SidecarCallFails /\ run' = [run EXCEPT ![w] = NoWork]
           /\ dropped' = dropped \cup MovedBy(m) /\ UNCHANGED <<holder, ledger>>
  <2>0. UNCHANGED <<place, side, displaced, shelved, refused, calm>>
    BY DEF Track
  <2>1. NoWork \in Locals' /\ WorkerOK(w, NoWork) /\ NoWork.step = "idle"
    BY NoWorkFields DEF Locals, WorkerOK, AtWork, Moving
  <2>2. used' \in [renames : 0 .. MaxRenames, faults : Nat, launches : Nat] /\ used'.renames = used.renames
    BY <1>3 DEF SidecarCallFails, Control, LedgerTypeOK
  <2>3. side' \in [Kinds -> [Paths -> SUBSET Docs]] /\ dropped' \subseteq Docs /\ displaced' \subseteq Kinds \X Docs /\ shelved' \subseteq Kinds \X Docs
    BY <1>3, <2>0 DEF Control, LedgerTypeOK, MovedBy
  <2>4. LedgerTypeOK'
    <3>1. BookOK(ledger') /\ ledger.next <= ledger'.next
      BY <1>3, SameBook DEF Control
    <3>2. holder' \in Runners \cup {Nobody}
      BY <1>3 DEF Control, LedgerTypeOK
    <3> QED BY <1>3, <2>0, <2>1, <2>2, <2>3, <3>1, <3>2, WorkerTyped DEF Control, AtWork, Moving
  <2>5. run'[w] = NoWork /\ \A q \in Runners \ {w} : run'[q] = run[q]
    BY <1>3 DEF Control, LedgerTypeOK
  <2>6. LockHeld'
    BY <1>3, <2>5, NoWorkFields, Apart DEF Control, LockHeld, Track, AtWork, Moving
  <2>7. JobsFit'
    <3>1. \A q \in Runners : JobsOf(q)' \subseteq JobsOf(q)
      BY <2>5, NoWorkFields DEF JobsOf, Job, AtWork, Moving
    <3>2. \A x \in Workers : x \in Runners
      BY DEF Runners
    <3>3. \A x \in Workers :
            /\ x[1] > used'.renames => run'[x].step = "idle"
            /\ run'[x].step \in {"idle", "wait"} => run'[x].queue = {}
            /\ \A j \in run'[x].queue : j.gen = run'[x].job.gen /\ j.move = run'[x].job.move
            /\ run'[x].step # "start"
      BY <2>2, <2>5, <3>2, NoWorkFields DEF Control, JobsFit, Job
    <3>4. /\ \A x \in Workers : \A j \in JobsOf(x)' : j.kind \in ToSet(KindsOf[x[2]])
          /\ \A r \in Runners : \A j \in JobsOf(r)' :
               j.gen \in DOMAIN ledger'.entries => ledger'.entries[j.gen].move = j.move
      BY <1>3, <3>1, <3>2 DEF Control, JobsFit
    <3> QED BY <3>3, <3>4 DEF JobsFit, Job
  <2> QED BY <2>4, <2>6, <2>7 DEF Control
<1> QED BY <1>2, <1>3 DEF Track

LEMMA StartControl ==
    ASSUME Control, StartReconcile
    PROVE  Control'
<1>0. UNCHANGED <<place, side, ledger, holder, used, dropped, displaced, shelved, refused, calm>>
  BY DEF StartReconcile
<1>1. BookOK(ledger) /\ BookOK(ledger') /\ ledger.next <= ledger'.next
      /\ DOMAIN ledger'.entries \subseteq DOMAIN ledger.entries
      /\ \A g \in DOMAIN ledger'.entries : ledger'.entries[g].move = ledger.entries[g].move
  BY <1>0, SameBook DEF Control
<1>2. \A j \in Snapshot : j \in JobType /\ ledger.entries[j.gen].move = j.move
  <2> SUFFICES ASSUME NEW j \in Snapshot
               PROVE  j \in JobType /\ ledger.entries[j.gen].move = j.move
    OBVIOUS
  <2>1. PICK g \in DOMAIN ledger.entries : j \in Jobs(g, ledger.entries[g].move, Owing(ledger.entries[g]))
    BY DEF Snapshot
  <2>2. PICK k \in Owing(ledger.entries[g]) : j = [gen |-> g, move |-> ledger.entries[g].move, kind |-> k]
    BY <2>1 DEF Jobs
  <2>3. g \in 1 .. ledger.next - 1 /\ ledger.entries[g].move \in Moves /\ k \in Kinds
    BY <1>1, <2>2 DEF BookOK, EntryOK, Owing
  <2> QED BY <2>2, <2>3 DEF JobType
<1>3. PICK v : /\ run' = [run EXCEPT ![Reconcile] = v]
               /\ v = NoWork \/ v = [step |-> "wait", job |-> NoWork.job, queue |-> Snapshot,
                                     todo |-> {}, item |-> {}, failed |-> FALSE]
  <2>1. [NoWork EXCEPT !.step = "wait", !.queue = Snapshot] =
          [step |-> "wait", job |-> NoWork.job, queue |-> Snapshot,
           todo |-> {}, item |-> {}, failed |-> FALSE]
    <3> DEFINE u == [NoWork EXCEPT !.step = "wait", !.queue = Snapshot]
    <3>1. u \in [step : {"wait"}, job : {NoWork.job}, queue : {Snapshot},
                 todo : {{}}, item : {{}}, failed : {FALSE}]
      BY DEF NoWork
    <3> HIDE DEF u
    <3>2. u = [step |-> "wait", job |-> NoWork.job, queue |-> Snapshot,
               todo |-> {}, item |-> {}, failed |-> FALSE]
      BY <3>1
    <3> QED BY <3>2, Zenon DEF u
  <2>2. CASE Snapshot = {}
    BY <2>2 DEF StartReconcile
  <2>3. CASE Snapshot # {}
    BY <2>1, <2>3 DEF StartReconcile
  <2> QED BY <2>2, <2>3
<1>4. v \in Locals' /\ WorkerOK(Reconcile, v) /\ v.step \notin AtWork /\ v.queue \subseteq Snapshot
  <2>1. NoWork.job \in [gen : Nat, move : Moves \cup {<<>>}, kind : Kinds \cup {"none"}]
    BY NoWorkFields
  <2>2. Snapshot \in SUBSET JobType'
    BY <1>0, <1>2 DEF JobType
  <2>3. CASE v = NoWork
    BY <2>3, NoWorkFields DEF Locals, RunnerSteps, WorkerOK, AtWork, Moving
  <2>4. CASE v = [step |-> "wait", job |-> NoWork.job, queue |-> Snapshot,
                  todo |-> {}, item |-> {}, failed |-> FALSE]
    <3>1. v \in Locals'
      BY <2>1, <2>2, <2>4 DEF Locals, RunnerSteps
    <3> QED BY <2>4, <3>1 DEF WorkerOK, AtWork, Moving
  <2> QED BY <1>3, <2>3, <2>4
<1>5. run'[Reconcile] = v /\ \A q \in Runners \ {Reconcile} : run'[q] = run[q]
  BY <1>3, Apart DEF Control, LedgerTypeOK
<1>6. LedgerTypeOK'
  <2>1. /\ side' \in [Kinds -> [Paths -> SUBSET Docs]] /\ holder' \in Runners \cup {Nobody}
        /\ used' \in [renames : 0 .. MaxRenames, faults : Nat, launches : Nat]
        /\ dropped' \subseteq Docs /\ displaced' \subseteq Kinds \X Docs /\ shelved' \subseteq Kinds \X Docs
    BY <1>0 DEF Control, LedgerTypeOK
  <2> QED BY <1>0, <1>1, <1>3, <1>4, <2>1, WorkerTyped, Apart DEF Control
<1>7. LockHeld'
  <2>1. run[Reconcile].step = "start"
    BY DEF StartReconcile
  <2> QED BY <1>0, <1>4, <1>5, <2>1, Apart DEF Control, LockHeld, AtWork, Moving
<1>8. JobsFit'
  <2>1. \A w \in Workers : run'[w] = run[w]
    BY <1>5, Apart DEF Runners
  <2>2. /\ \A w \in Workers : JobsOf(w)' = JobsOf(w)
        /\ JobsOf(Reconcile)' \subseteq Snapshot
    BY <1>4, <1>5, <2>1 DEF JobsOf, Job
  <2>3. \A r \in Runners : \A j \in JobsOf(r)' :
           j.gen \in DOMAIN ledger'.entries => ledger'.entries[j.gen].move = j.move
    BY <1>0, <1>2, <2>2 DEF Control, JobsFit, Runners
  <2> QED BY <1>0, <2>1, <2>2, <2>3 DEF Control, JobsFit, Job
<1> QED BY <1>6, <1>7, <1>8 DEF Control

LEMMA RetryControl ==
    ASSUME Control, Retry
    PROVE  Control'
<1> DEFINE jobs == run[Reconcile].queue
<1>0. /\ UNCHANGED <<place, side, ledger, used, dropped, displaced, shelved, refused, calm>>
      /\ run[Reconcile].step = "wait" /\ holder = Nobody /\ holder' = Reconcile
  BY DEF Retry
<1>1. BookOK(ledger) /\ BookOK(ledger') /\ ledger.next <= ledger'.next
      /\ DOMAIN ledger'.entries \subseteq DOMAIN ledger.entries
      /\ \A g \in DOMAIN ledger'.entries : ledger'.entries[g].move = ledger.entries[g].move
  BY <1>0, SameBook DEF Control
<1>2. PICK job \in jobs :
        run' = [run EXCEPT ![Reconcile] = [step |-> "scan", job |-> job, queue |-> jobs \ {job},
                                           todo |-> {}, item |-> {}, failed |-> FALSE]]
  BY Begun, Apart DEF Retry, Control
<1> DEFINE v == [step |-> "scan", job |-> job, queue |-> jobs \ {job},
                 todo |-> {}, item |-> {}, failed |-> FALSE]
<1>3. v \in Locals' /\ WorkerOK(Reconcile, v) /\ v.job \in JobType'
  <2>1. jobs \in SUBSET JobType'
    BY <1>0, Apart, RunOf DEF Control, JobType
  <2>2. job \in JobType' /\ job \in [gen : Nat, move : Moves \cup {<<>>}, kind : Kinds \cup {"none"}]
    <3>1. job \in JobType'
      BY <2>1
    <3> QED BY <3>1, <1>1 DEF JobType, BookOK
  <2> QED BY <2>1, <2>2 DEF Locals, RunnerSteps, WorkerOK
<1> HIDE DEF v
<1>4. run' = [run EXCEPT ![Reconcile] = v] /\ run'[Reconcile] = v
      /\ \A q \in Runners \ {Reconcile} : run'[q] = run[q]
  BY <1>2, Apart DEF Control, LedgerTypeOK, v
<1>5. v.step = "scan" /\ v.job = job /\ v.queue = jobs \ {job}
  BY DEF v
<1>6. LedgerTypeOK'
  <2>1. /\ side' \in [Kinds -> [Paths -> SUBSET Docs]] /\ holder' \in Runners \cup {Nobody}
        /\ used' \in [renames : 0 .. MaxRenames, faults : Nat, launches : Nat]
        /\ dropped' \subseteq Docs /\ displaced' \subseteq Kinds \X Docs /\ shelved' \subseteq Kinds \X Docs
    BY <1>0, Apart DEF Control, LedgerTypeOK
  <2> QED BY <1>0, <1>1, <1>3, <1>4, <2>1, WorkerTyped, Apart DEF Control
<1>7. LockHeld'
  <2>1. \A q \in Runners \ {Reconcile} : run[q].step \notin Moving /\ run[q].step # "mark"
    BY <1>0, Apart DEF Control, LockHeld
  <2> QED BY <1>0, <1>4, <1>5, <2>1, Apart DEF LockHeld, AtWork, Moving
<1>8. JobsFit'
  <2>1. v.queue \cup (IF v.step \in AtWork THEN {v.job} ELSE {}) \subseteq JobsOf(Reconcile)
    BY <1>5 DEF JobsOf
  <2> QED BY <1>0, <1>1, <1>4, <2>1, WorkerFits, Apart
<1> QED BY <1>6, <1>7, <1>8 DEF Control

\* What a worker at work has at hand.
LEMMA AtHand ==
    ASSUME LedgerTypeOK, NEW r \in Runners, run[r].step \in AtWork
    PROVE  /\ Job(r) \in JobType /\ Job(r).kind \in Kinds /\ Job(r).move \in Moves
           /\ run[r].todo \cup run[r].item \subseteq DOMAIN Job(r).move
           /\ DOMAIN Job(r).move \subseteq Paths
           /\ \A p \in DOMAIN Job(r).move : Job(r).move[p] \in Paths \ DOMAIN Job(r).move
BY LedgerAssumption DEF LedgerTypeOK, JobType, Job

\* A function that differs from another at one point.
LEMMA OnePoint ==
    ASSUME NEW S, NEW T, NEW U, NEW f \in [S -> T], NEW g \in [S -> U], NEW r \in S,
           \A q \in S \ {r} : g[q] = f[q]
    PROVE  g = [f EXCEPT ![r] = g[r]]
OBVIOUS

\* A step of one worker that goes on with its pass.
LEMMA GoesOn ==
    ASSUME Control, NEW r \in Runners, run[r].step \in Moving,
           run' \in [Runners -> Locals],
           \A q \in Runners \ {r} : run'[q] = run[q],
           run'[r].job = run[r].job, run'[r].queue = run[r].queue,
           run'[r].step \in AtWork,
           run'[r].todo \cup run'[r].item \subseteq DOMAIN Job(r).move,
           run'[r].step = "unlink" => \E p \in Paths : run'[r].item = {p},
           run'[r].step # "unlink" => run'[r].item = {},
           UNCHANGED <<place, ledger, refused, calm>>,
           side' \in [Kinds -> [Paths -> SUBSET Docs]],
           used' = used \/ SidecarCallFails,
           dropped' \subseteq Docs, displaced' \subseteq Kinds \X Docs, shelved' \subseteq Kinds \X Docs,
           \/ holder' = holder /\ (run'[r].step \in Moving \/ r # Reconcile)
           \/ holder' = Nobody /\ run'[r].step = "mark" /\ r = Reconcile
    PROVE  Control'
<1> DEFINE v == run'[r]
<1>1. run' = [run EXCEPT ![r] = v]
  BY OnePoint DEF Control, LedgerTypeOK
<1> HIDE DEF v
<1>2. /\ v.step = run'[r].step /\ v.job = run[r].job /\ v.queue = run[r].queue
      /\ v.todo = run'[r].todo /\ v.item = run'[r].item /\ v \in Locals
  BY DEF v
<1>3. v \in Locals' /\ v.job \in JobType'
  <2>1. run[r].job \in JobType' /\ Locals' = Locals
    BY AtHand DEF Control, JobType, Job, Locals, AtWork
  <2> QED BY <1>2, <2>1
<1>4. run'[r] = v /\ \A q \in Runners \ {r} : run'[q] = run[q]
  BY DEF v
<1>5. BookOK(ledger) /\ BookOK(ledger') /\ ledger.next <= ledger'.next
      /\ DOMAIN ledger'.entries \subseteq DOMAIN ledger.entries
      /\ \A g \in DOMAIN ledger'.entries : ledger'.entries[g].move = ledger.entries[g].move
  BY SameBook DEF Control
<1>6. used' \in [renames : 0 .. MaxRenames, faults : Nat, launches : Nat] /\ used'.renames = used.renames
  BY DEF Control, LedgerTypeOK, SidecarCallFails
<1>7. holder' \in Runners \cup {Nobody}
  BY DEF Control, LedgerTypeOK
<1>8. WorkerOK(r, v)
  <2>1. v.step # "wait"
    BY <1>2 DEF AtWork, Moving
  <2> QED BY <1>2, <2>1 DEF WorkerOK, Job
<1>9. LedgerTypeOK'
  BY <1>1, <1>3, <1>5, <1>6, <1>7, <1>8, WorkerTyped DEF Control
<1>10. LockHeld'
  <2>1. holder = r
    BY DEF Control, LockHeld
  <2>2. \A q \in Runners \ {r} : run[q].step \notin Moving /\ (q # Reconcile => run[q].step # "mark")
    BY <2>1 DEF Control, LockHeld
  <2>3. \A q \in Runners : q # Nobody
    BY Apart
  <2>4. \A q \in Runners \ {r} : holder' # q
    BY <2>1, <2>3
  <2> QED BY <1>2, <1>4, <2>1, <2>2, <2>3, <2>4 DEF LockHeld, AtWork, Moving
<1>11. JobsFit'
  <2>1. v.queue \cup (IF v.step \in AtWork THEN {v.job} ELSE {}) \subseteq JobsOf(r)
    BY <1>2 DEF JobsOf, Job, AtWork
  <2>2. r # Reconcile => /\ v.step # "wait" /\ v.step # "start"
                         /\ v.step = "idle" => v.queue = {}
                         /\ \A j \in v.queue : j.gen = v.job.gen /\ j.move = v.job.move
    BY <1>2 DEF AtWork, Moving, Runners, Control, JobsFit, Job
  <2>3. run[r].step \in AtWork
    BY DEF AtWork
  <2> QED BY <1>1, <1>5, <1>6, <2>1, <2>2, <2>3, WorkerFits
<1> QED BY <1>9, <1>10, <1>11 DEF Control

\* The steps have names, and the workers their type.
LEMMA StepNames == {"items", "unlink", "mark"} \subseteq RunnerSteps
BY DEF RunnerSteps

LEMMA RunTyped == Control => run \in [Runners -> Locals]
BY DEF Control, LedgerTypeOK

LEMMA ScanControl ==
    ASSUME Control, NEW r \in Runners, Scan(r)
    PROVE  /\ Control'
           /\ run'[r].step = "items" /\ run'[r].job = run[r].job /\ run'[r].queue = run[r].queue
           /\ \A q \in Runners \ {r} : run'[q] = run[q]
           /\ \/ /\ run'[r].todo = {p \in DOMAIN Job(r).move : side[Job(r).kind][p] # {}}
                 /\ run'[r].failed = run[r].failed /\ used' = used
              \/ run'[r].failed /\ SidecarCallFails
<1> DEFINE k == Job(r).kind
           m == Job(r).move
<1>1. run[r].step = "scan" /\ run[r].step \in AtWork /\ run[r].step \in Moving
  BY DEF Scan, AtWork, Moving
<1>2. run[r].item = {} /\ run[r].todo \subseteq DOMAIN m
  BY <1>1, AtHand DEF Control, LedgerTypeOK
<1>3. UNCHANGED <<place, side, ledger, holder, dropped, displaced, shelved, refused, calm>>
  BY DEF Scan
<1>4. DOMAIN m \subseteq Paths
  BY <1>1, AtHand DEF Control
<1>5. /\ run' \in [Runners -> Locals] /\ \A q \in Runners \ {r} : run'[q] = run[q]
      /\ run'[r].step = "items" /\ run'[r].job = run[r].job /\ run'[r].queue = run[r].queue
      /\ run'[r].item = {} /\ run'[r].todo \subseteq DOMAIN m
      /\ \/ /\ run'[r].todo = {p \in DOMAIN Job(r).move : side[Job(r).kind][p] # {}}
            /\ run'[r].failed = run[r].failed /\ used' = used
         \/ run'[r].failed /\ SidecarCallFails
  <2>1. CASE /\ run' = [run EXCEPT ![r].step = "items",
                       ![r].todo = {p \in DOMAIN Job(r).move : side[Job(r).kind][p] # {}}]
             /\ UNCHANGED used
    <3> DEFINE T == {p \in DOMAIN Job(r).move : side[Job(r).kind][p] # {}}
    <3>1. T \in SUBSET Paths /\ T \subseteq DOMAIN m
      BY <1>4
    <3> HIDE DEF T
    <3>2. run' = [run EXCEPT ![r].step = "items", ![r].todo = T]
      BY <2>1 DEF T
    <3>3. /\ run' \in [Runners -> Locals] /\ \A q \in Runners \ {r} : run'[q] = run[q]
          /\ run'[r].step = "items" /\ run'[r].job = run[r].job /\ run'[r].queue = run[r].queue
          /\ run'[r].item = {} /\ run'[r].todo = T /\ run'[r].failed = run[r].failed
      BY <1>2, <3>1, <3>2, RunTyped, StepNames DEF Locals
    <3> QED BY <2>1, <3>1, <3>3 DEF T
  <2>2. CASE run' = [run EXCEPT ![r].step = "items", ![r].failed = TRUE] /\ SidecarCallFails
    BY <1>2, <2>2, RunTyped, StepNames DEF Locals
  <2> QED BY <2>1, <2>2 DEF Scan
<1>6. used' = used \/ SidecarCallFails
  BY DEF Scan
<1>7. run'[r].step \in Moving /\ run'[r].step \in AtWork /\ run'[r].step # "unlink"
  BY <1>5 DEF AtWork, Moving
<1>8. /\ side' \in [Kinds -> [Paths -> SUBSET Docs]]
      /\ dropped' \subseteq Docs /\ displaced' \subseteq Kinds \X Docs /\ shelved' \subseteq Kinds \X Docs
  BY <1>3 DEF Control, LedgerTypeOK
<1>9. Control'
  BY <1>1, <1>3, <1>5, <1>6, <1>7, <1>8, GoesOn
<1> QED BY <1>5, <1>9

\* What a save at the new path does to the sidecars.
LEMMA SaveMerges ==
    ASSUME LedgerTypeOK, NEW r \in Runners, run[r].step = "items",
           NEW p \in run[r].todo, SaveAtNewPath(r, p)
    PROVE  LET k == Job(r).kind
               q == Job(r).move[p]
           IN  /\ k \in Kinds /\ p \in Paths /\ p \in DOMAIN Job(r).move
               /\ q \in Paths /\ q \notin DOMAIN Job(r).move /\ q # p
               /\ side' \in [Kinds -> [Paths -> SUBSET Docs]]
               /\ \A l \in Kinds, x \in Paths : l # k \/ x # q => side'[l][x] = side[l][x]
               /\ side'[k][q] \subseteq side[k][p] \cup side[k][q]
               /\ \A d \in side[k][p] \cup side[k][q] : d \in side'[k][q] \/ <<k, d>> \in displaced'
               /\ displaced \subseteq displaced' /\ displaced' \subseteq Kinds \X Docs
               /\ \A l \in Kinds, d \in Docs : l # k => (<<l, d>> \in displaced' <=> <<l, d>> \in displaced)
               /\ side[k][p] \cap refused = {}
               /\ dropped' = IF Job(r).gen \notin DOMAIN ledger.entries
                             THEN dropped \cup side[k][p] ELSE dropped
               /\ used' = used \/ SidecarCallFails
<1> DEFINE k == Job(r).kind
           q == Job(r).move[p]
<1>1. /\ k \in Kinds /\ p \in Paths /\ p \in DOMAIN Job(r).move
      /\ q \in Paths /\ q \notin DOMAIN Job(r).move /\ q # p
  BY AtHand DEF AtWork, Moving
<1>2. PICK both \in Merged(k, side[k][p], side[k][q]) \cup {side[k][p]} :
        /\ side' = [side EXCEPT ![k][q] = both]
        /\ displaced' = displaced \cup ({k} \X ((side[k][p] \cup side[k][q]) \ both))
  BY DEF SaveAtNewPath
<1>3. both \subseteq side[k][p] \cup side[k][q]
  BY DEF Merged
<1>4. side \in [Kinds -> [Paths -> SUBSET Docs]] /\ displaced \subseteq Kinds \X Docs
  BY DEF LedgerTypeOK
<1>5. side[k][p] \subseteq Docs /\ side[k][q] \subseteq Docs
  BY <1>1, <1>4
<1>6. /\ side[k][p] \cap refused = {}
      /\ dropped' = IF Job(r).gen \notin DOMAIN ledger.entries
                    THEN dropped \cup side[k][p] ELSE dropped
      /\ used' = used \/ SidecarCallFails
  BY DEF SaveAtNewPath
<1> HIDE DEF k, q
<1>7. /\ side' \in [Kinds -> [Paths -> SUBSET Docs]] /\ side'[k][q] = both
      /\ \A l \in Kinds, x \in Paths : l # k \/ x # q => side'[l][x] = side[l][x]
  BY <1>1, <1>2, <1>3, <1>4, <1>5
<1>8. /\ \A d \in (side[k][p] \cup side[k][q]) \ both : <<k, d>> \in displaced'
      /\ displaced \subseteq displaced' /\ displaced' \subseteq Kinds \X Docs
      /\ \A l \in Kinds, d \in Docs : l # k => (<<l, d>> \in displaced' <=> <<l, d>> \in displaced)
  BY <1>1, <1>2, <1>4, <1>5
<1> QED BY <1>1, <1>3, <1>6, <1>7, <1>8 DEF k, q

LEMMA WriteControl ==
    ASSUME Control, NEW r \in Runners, NEW p \in Paths, WriteSidecar(r, p)
    PROVE  /\ Control'
           /\ run[r].step = "items" /\ p \in run[r].todo /\ run[r].item = {} /\ p \in DOMAIN Job(r).move
           /\ run'[r].job = run[r].job /\ run'[r].queue = run[r].queue
           /\ run'[r].todo = run[r].todo \ {p}
           /\ \A q \in Runners \ {r} : run'[q] = run[q]
           /\ \/ /\ SaveAtNewPath(r, p) /\ run'[r].step = "unlink" /\ run'[r].item = {p}
                 /\ run'[r].failed = run[r].failed
              \/ /\ SaveFails(r, p) /\ run'[r].step = "items" /\ run'[r].item = {} /\ run'[r].failed
                 /\ UNCHANGED <<side, dropped, displaced>>
<1> DEFINE m == Job(r).move
<1>1. /\ run[r].step = "items" /\ run[r].step \in AtWork /\ run[r].step \in Moving
      /\ p \in run[r].todo
  BY DEF WriteSidecar, AtWork, Moving
<1>2. run[r].item = {} /\ run[r].todo \subseteq DOMAIN m /\ Job(r).kind \in Kinds
  BY <1>1, AtHand DEF Control, LedgerTypeOK
<1>3. UNCHANGED <<place, ledger, holder, shelved, refused, calm>>
  BY DEF WriteSidecar
<1>4. /\ run' \in [Runners -> Locals] /\ \A q \in Runners \ {r} : run'[q] = run[q]
      /\ run'[r].job = run[r].job /\ run'[r].queue = run[r].queue
      /\ run'[r].todo = run[r].todo \ {p}
      /\ \/ /\ SaveAtNewPath(r, p) /\ run'[r].step = "unlink" /\ run'[r].item = {p}
            /\ run'[r].failed = run[r].failed
         \/ /\ SaveFails(r, p) /\ run'[r].step = "items" /\ run'[r].item = {} /\ run'[r].failed
            /\ UNCHANGED <<side, dropped, displaced>>
  <2>1. CASE SaveAtNewPath(r, p)
    <3>1. run' = [run EXCEPT ![r].todo = @ \ {p}, ![r].item = {p}, ![r].step = "unlink"]
      BY <2>1 DEF SaveAtNewPath
    <3>2. /\ run' \in [Runners -> Locals] /\ \A q \in Runners \ {r} : run'[q] = run[q]
          /\ run'[r].job = run[r].job /\ run'[r].queue = run[r].queue
          /\ run'[r].todo = run[r].todo \ {p} /\ run'[r].step = "unlink" /\ run'[r].item = {p}
          /\ run'[r].failed = run[r].failed
      BY <3>1, RunTyped, StepNames, ZenonT(30) DEF Locals
    <3> QED BY <2>1, <3>2
  <2>2. CASE /\ SaveFails(r, p) /\ run' = [run EXCEPT ![r].todo = @ \ {p}, ![r].failed = TRUE]
             /\ UNCHANGED <<side, dropped, displaced>>
    <3>1. /\ run' \in [Runners -> Locals] /\ \A q \in Runners \ {r} : run'[q] = run[q]
          /\ run'[r].job = run[r].job /\ run'[r].queue = run[r].queue
          /\ run'[r].todo = run[r].todo \ {p} /\ run'[r].step = "items" /\ run'[r].item = {}
          /\ run'[r].failed
      BY <1>1, <1>2, <2>2, RunTyped, StepNames DEF Locals
    <3> QED BY <2>2, <3>1
  <2> QED BY <2>1, <2>2 DEF WriteSidecar
<1>5. used' = used \/ SidecarCallFails
  BY DEF WriteSidecar, SaveAtNewPath, SaveFails
<1>6. /\ side' \in [Kinds -> [Paths -> SUBSET Docs]]
      /\ dropped' \subseteq Docs /\ displaced' \subseteq Kinds \X Docs /\ shelved' \subseteq Kinds \X Docs
  <2>1. /\ dropped \subseteq Docs /\ side[Job(r).kind][p] \subseteq Docs
        /\ side \in [Kinds -> [Paths -> SUBSET Docs]] /\ displaced \subseteq Kinds \X Docs
        /\ shelved' \subseteq Kinds \X Docs
    BY <1>2, <1>3 DEF Control, LedgerTypeOK
  <2>2. CASE SaveAtNewPath(r, p)
    BY <1>1, <2>1, <2>2, SaveMerges DEF Control
  <2>3. CASE ~SaveAtNewPath(r, p)
    BY <2>1, <2>3 DEF WriteSidecar
  <2> QED BY <2>2, <2>3
<1>7. /\ run'[r].step \in Moving /\ run'[r].step \in AtWork
      /\ run'[r].todo \cup run'[r].item \subseteq DOMAIN m
      /\ run'[r].step = "unlink" => run'[r].item = {p}
      /\ run'[r].step # "unlink" => run'[r].item = {}
  BY <1>1, <1>2, <1>4 DEF AtWork, Moving
<1>8. Control'
  BY <1>1, <1>3, <1>4, <1>5, <1>6, <1>7, GoesOn
<1> QED BY <1>1, <1>2, <1>4, <1>8

\* A sidecar that cannot be read is in quarantine then, or where it was and
\* passed over.
LEMMA LoadControl ==
    ASSUME Control, NEW r \in Runners, NEW p \in Paths, LoadFails(r, p)
    PROVE  /\ Control'
           /\ run[r].step = "items" /\ Job(r).kind \in Kinds /\ SidecarCallFails
           /\ run'[r].step = "items" /\ run'[r].job = run[r].job /\ run'[r].queue = run[r].queue
           /\ run[r].item = {} /\ run'[r].item = {} /\ run'[r].todo = run[r].todo \ {p}
           /\ run'[r].failed = run[r].failed
           /\ \A q \in Runners \ {r} : run'[q] = run[q]
           /\ UNCHANGED <<place, ledger, holder, displaced, refused, calm>>
           /\ dropped \subseteq dropped' /\ shelved \subseteq shelved'
           /\ \A l \in Kinds, x \in Paths :
                /\ side'[l][x] \subseteq side[l][x]
                /\ \A d \in side[l][x] : d \in side'[l][x] \/ <<l, d>> \in shelved'
           /\ p \in run[r].todo => side'[Job(r).kind][p] \subseteq dropped'
<1> DEFINE k == Job(r).kind
<1>1. /\ run[r].step = "items" /\ run[r].step \in AtWork /\ run[r].step \in Moving
      /\ SidecarCallFails /\ run' = [run EXCEPT ![r].todo = @ \ {p}]
      /\ UNCHANGED <<place, ledger, holder, displaced, refused, calm>>
  BY DEF LoadFails, AtWork, Moving
<1>2. run[r].item = {} /\ run[r].todo \subseteq DOMAIN Job(r).move /\ k \in Kinds
  BY <1>1, AtHand DEF Control, LedgerTypeOK
<1>3. /\ run' \in [Runners -> Locals] /\ \A q \in Runners \ {r} : run'[q] = run[q]
      /\ run'[r].job = run[r].job /\ run'[r].queue = run[r].queue /\ run'[r].step = "items"
      /\ run'[r].todo = run[r].todo \ {p} /\ run'[r].item = {} /\ run'[r].failed = run[r].failed
  BY <1>1, <1>2, RunTyped, StepNames DEF Locals
<1>4. /\ side \in [Kinds -> [Paths -> SUBSET Docs]] /\ side[k][p] \subseteq Docs
      /\ dropped \subseteq Docs /\ displaced \subseteq Kinds \X Docs /\ shelved \subseteq Kinds \X Docs
  BY <1>2 DEF Control, LedgerTypeOK
<1>5. /\ side' \in [Kinds -> [Paths -> SUBSET Docs]]
      /\ dropped' \subseteq Docs /\ shelved' \subseteq Kinds \X Docs
      /\ dropped \subseteq dropped' /\ shelved \subseteq shelved'
      /\ \A l \in Kinds, x \in Paths :
           /\ side'[l][x] \subseteq side[l][x]
           /\ \A d \in side[l][x] : d \in side'[l][x] \/ <<l, d>> \in shelved'
      /\ p \in run[r].todo => side'[k][p] \subseteq dropped'
  <2>1. CASE /\ side' = [side EXCEPT ![k][p] = {}]
             /\ shelved' = shelved \cup ({k} \X side[k][p]) /\ UNCHANGED dropped
    BY <1>2, <1>4, <2>1
  <2>2. CASE /\ p \in run[r].todo /\ dropped' = dropped \cup side[k][p]
             /\ UNCHANGED <<side, shelved>>
    BY <1>2, <1>4, <2>2
  <2> QED BY <2>1, <2>2 DEF LoadFails
<1>6. /\ run'[r].step \in Moving /\ run'[r].step \in AtWork /\ run'[r].step # "unlink"
      /\ displaced' \subseteq Kinds \X Docs
  BY <1>1, <1>3, <1>4 DEF AtWork, Moving
<1>7. Control'
  BY <1>1, <1>2, <1>3, <1>5, <1>6, GoesOn
<1> QED BY <1>1, <1>2, <1>3, <1>5, <1>7

\* The removal takes the sidecars of the item, or none.
LEMMA UnlinkControl ==
    ASSUME Control, NEW r \in Runners, UnlinkSidecar(r)
    PROVE  /\ Control'
           /\ run'[r].step = "items" /\ run'[r].job = run[r].job /\ run'[r].queue = run[r].queue
           /\ run'[r].todo = run[r].todo
           /\ \A q \in Runners \ {r} : run'[q] = run[q]
           /\ \/ /\ \A k \in Kinds, x \in Paths :
                      side'[k][x] = IF k = Job(r).kind /\ x \in run[r].item THEN {} ELSE side[k][x]
                 /\ run'[r].failed = run[r].failed /\ used' = used
              \/ side' = side /\ run'[r].failed /\ SidecarCallFails
<1> DEFINE k == Job(r).kind
<1>1. run[r].step = "unlink" /\ run[r].step \in AtWork /\ run[r].step \in Moving
  BY DEF UnlinkSidecar, AtWork, Moving
<1>2. run[r].todo \subseteq DOMAIN Job(r).move /\ k \in Kinds
  BY <1>1, AtHand DEF Control
<1>3. UNCHANGED <<place, ledger, holder, dropped, displaced, shelved, refused, calm>>
  BY DEF UnlinkSidecar
<1>4. /\ run' \in [Runners -> Locals] /\ \A q \in Runners \ {r} : run'[q] = run[q]
      /\ run'[r].job = run[r].job /\ run'[r].queue = run[r].queue
      /\ run'[r].todo = run[r].todo /\ run'[r].item = {} /\ run'[r].step = "items"
      /\ run'[r].failed = run[r].failed \/ run'[r].failed
  <2>1. CASE run' = [run EXCEPT ![r].step = "items", ![r].item = {}]
    BY <2>1, RunTyped, StepNames DEF Locals
  <2>2. CASE run' = [run EXCEPT ![r].step = "items", ![r].item = {}, ![r].failed = TRUE]
    BY <2>2, RunTyped, StepNames DEF Locals
  <2> QED BY <2>1, <2>2 DEF UnlinkSidecar
<1>5. side \in [Kinds -> [Paths -> SUBSET Docs]] /\ DOMAIN run = Runners
  BY DEF Control, LedgerTypeOK
<1>6. /\ side' \in [Kinds -> [Paths -> SUBSET Docs]]
      /\ \/ /\ \A l \in Kinds, x \in Paths :
                      side'[l][x] = IF l = k /\ x \in run[r].item THEN {} ELSE side[l][x]
            /\ run'[r].failed = run[r].failed /\ used' = used
         \/ side' = side /\ run'[r].failed /\ SidecarCallFails
  <2>1. CASE /\ side' = [side EXCEPT ![Job(r).kind] =
                      [p \in Paths |-> IF p \in run[r].item THEN {} ELSE @[p]]]
             /\ run' = [run EXCEPT ![r].step = "items", ![r].item = {}] /\ UNCHANGED used
    <3>1. [p \in Paths |-> IF p \in run[r].item THEN {} ELSE side[k][p]] \in [Paths -> SUBSET Docs]
      BY <1>2, <1>5
    <3>2. run'[r].failed = run[r].failed
      BY <2>1, <1>5 DEF Control, LedgerTypeOK, Locals
    <3> QED BY <1>2, <1>5, <2>1, <3>1, <3>2
  <2>2. CASE /\ SidecarCallFails /\ UNCHANGED side
             /\ run' = [run EXCEPT ![r].step = "items", ![r].item = {}, ![r].failed = TRUE]
    <3>1. run'[r].failed
      BY <2>2, <1>5 DEF Control, LedgerTypeOK, Locals
    <3> QED BY <1>5, <2>2, <3>1
  <2> QED BY <2>1, <2>2 DEF UnlinkSidecar
<1>7. used' = used \/ SidecarCallFails
  BY DEF UnlinkSidecar
<1>8. dropped' \subseteq Docs /\ displaced' \subseteq Kinds \X Docs /\ shelved' \subseteq Kinds \X Docs
  BY <1>3 DEF Control, LedgerTypeOK
<1>9. run'[r].step \in Moving /\ run'[r].step \in AtWork /\ run'[r].step # "unlink"
  BY <1>4 DEF AtWork, Moving
<1>10. Control'
  BY <1>1, <1>2, <1>3, <1>4, <1>6, <1>7, <1>8, <1>9, GoesOn
<1> QED BY <1>4, <1>6, <1>10

LEMMA EndControl ==
    ASSUME Control, NEW r \in Runners, EndKind(r)
    PROVE  /\ Control'
           /\ run[r].todo = {} /\ run[r].item = {} /\ run[r].step = "items"
           /\ run'[r].step = "mark" /\ run'[r].job = run[r].job /\ run'[r].queue = run[r].queue
           /\ run'[r].failed = run[r].failed
           /\ \A q \in Runners \ {r} : run'[q] = run[q]
<1>1. run[r].step = "items" /\ run[r].step \in AtWork /\ run[r].step \in Moving /\ run[r].todo = {}
  BY DEF EndKind, AtWork, Moving
<1>2. run[r].item = {}
  BY <1>1 DEF Control, LedgerTypeOK
<1>3. /\ UNCHANGED <<place, side, ledger, used, dropped, displaced, shelved, refused, calm>>
      /\ holder' = IF r = Reconcile THEN Nobody ELSE holder
  BY DEF EndKind
<1>4. /\ run' \in [Runners -> Locals] /\ \A q \in Runners \ {r} : run'[q] = run[q]
      /\ run'[r].job = run[r].job /\ run'[r].queue = run[r].queue /\ run'[r].failed = run[r].failed
      /\ run'[r].todo = {} /\ run'[r].item = {} /\ run'[r].step = "mark"
  <2>1. run' = [run EXCEPT ![r].step = "mark"]
    BY DEF EndKind
  <2> QED BY <1>1, <1>2, <2>1, RunTyped, StepNames DEF Locals
<1>5. /\ dropped' \subseteq Docs /\ displaced' \subseteq Kinds \X Docs /\ shelved' \subseteq Kinds \X Docs
      /\ side' \in [Kinds -> [Paths -> SUBSET Docs]]
  BY <1>3 DEF Control, LedgerTypeOK
<1>6. run'[r].step \in AtWork /\ run'[r].step # "unlink"
  BY <1>4 DEF AtWork
<1>7. Control'
  BY <1>1, <1>3, <1>4, <1>5, <1>6, GoesOn
<1> QED BY <1>1, <1>2, <1>4, <1>7

\* What marks of a job do to the ledger.
LEMMA MarkedBook ==
    ASSUME BookOK(ledger), NEW r \in Runners
    PROVE  /\ BookAfter(MarkCompleted(Job(r)), Job(r), TRUE)
           /\ BookAfter(MarkFailed(Job(r)), Job(r), FALSE)
<1>1. BookAfter(UpdateKind(Job(r), TRUE, 0), Job(r), TRUE)
  BY AfterMark, Zenon
<1>2. BookAfter(UpdateKind(Job(r), FALSE, 1), Job(r), FALSE)
  BY AfterMark
<1> QED BY <1>1, <1>2, Zenon DEF MarkCompleted, MarkFailed

\* The three ways a mark leaves its worker: at rest, at its next job, or, the
\* startup pass, waiting for the lock.
LEMMA MarkMoves ==
    ASSUME Control, NEW r \in Runners, Mark(r)
    PROVE  \E v :
             /\ run' = [run EXCEPT ![r] = v] /\ v.todo = {} /\ v.item = {} /\ ~v.failed
             /\ \/ v = NoWork /\ holder' = IF holder = r THEN Nobody ELSE holder
                \/ /\ v.step = "scan" /\ r # Reconcile /\ v.job \in run[r].queue
                   /\ v.queue = run[r].queue \ {v.job} /\ v \in Locals
                   /\ ~run[r].failed /\ holder' = holder
                \/ /\ v.step = "wait" /\ r = Reconcile /\ v.queue = run[r].queue /\ v \in Locals
                   /\ holder' = holder
<1>1. CASE Leave(r)
  BY <1>1, NoWorkFields DEF Leave
<1>2. CASE /\ run[r].queue # {} /\ r = Reconcile /\ UNCHANGED holder
           /\ run' = [run EXCEPT ![r] = [NoWork EXCEPT !.step = "wait", !.queue = run[r].queue]]
  <2> DEFINE v == [NoWork EXCEPT !.step = "wait", !.queue = run[r].queue]
  <2>1. v \in [step : {"wait"}, job : {NoWork.job}, queue : {run[r].queue},
               todo : {{}}, item : {{}}, failed : {FALSE}]
    BY DEF NoWork
  <2>2. run[r].queue \in SUBSET JobType
        /\ NoWork.job \in [gen : Nat, move : Moves \cup {<<>>}, kind : Kinds \cup {"none"}]
    BY RunOf, NoWorkFields DEF Control
  <2>3. v \in Locals
    BY <2>1, <2>2 DEF Locals, RunnerSteps
  <2>4. run' = [run EXCEPT ![r] = v]
    BY <1>2
  <2> HIDE DEF v
  <2> QED BY <1>2, <2>1, <2>3, <2>4
<1>3. CASE run[r].queue # {} /\ ~run[r].failed /\ r # Reconcile
           /\ TakeFirst(r, run[r].queue) /\ UNCHANGED holder
  <2>1. PICK job \in run[r].queue :
             run' = [run EXCEPT ![r] = [step |-> "scan", job |-> job, queue |-> run[r].queue \ {job},
                                        todo |-> {}, item |-> {}, failed |-> FALSE]]
    BY <1>3, Begun DEF Control
  <2> DEFINE v == [step |-> "scan", job |-> job, queue |-> run[r].queue \ {job},
                   todo |-> {}, item |-> {}, failed |-> FALSE]
  <2>2. v \in Locals
    <3>1. run[r].queue \in SUBSET JobType /\ BookOK(ledger)
      BY RunOf, BookTyped DEF Control
    <3>2. job \in JobType /\ run[r].queue \ {job} \in SUBSET JobType
      BY <3>1
    <3>3. job \in [gen : Nat, move : Moves \cup {<<>>}, kind : Kinds \cup {"none"}]
      BY <3>1, <3>2 DEF JobType, BookOK
    <3> QED BY <3>2, <3>3 DEF Locals, RunnerSteps
  <2>3. /\ run' = [run EXCEPT ![r] = v] /\ v.todo = {} /\ v.item = {} /\ ~v.failed
        /\ v.step = "scan" /\ v.job \in run[r].queue /\ v.queue = run[r].queue \ {v.job}
    BY <2>1
  <2> HIDE DEF v
  <2> QED BY <1>3, <2>2, <2>3
<1>4. CASE ~run[r].failed /\ GoOn(r)
  BY <1>1, <1>2, <1>3, <1>4 DEF GoOn
<1>5. CASE r = Reconcile /\ GoOn(r)
  BY <1>1, <1>2, <1>5 DEF GoOn
<1> QED BY <1>1, <1>4, <1>5 DEF Mark

LEMMA MarkControl ==
    ASSUME Control, NEW r \in Runners, Mark(r)
    PROVE  /\ Control'
           /\ BookOK(ledger') /\ ledger'.next = ledger.next
           /\ DOMAIN ledger'.entries \subseteq DOMAIN ledger.entries
           /\ \A g \in DOMAIN ledger'.entries :
                /\ ledger'.entries[g].move = ledger.entries[g].move
                /\ DOMAIN ledger'.entries[g].kinds = DOMAIN ledger.entries[g].kinds
           /\ \A g \in DOMAIN ledger.entries : \A k \in DOMAIN ledger.entries[g].kinds :
                ~ledger.entries[g].kinds[k].done =>
                  \/ g \in DOMAIN ledger'.entries /\ ~ledger'.entries[g].kinds[k].done
                  \/ ~run[r].failed /\ g = Job(r).gen /\ k = Job(r).kind
           /\ \A q \in Runners \ {r} : run'[q] = run[q]
           /\ run'[r].step \in {"idle", "scan", "wait"} /\ run'[r].todo = {} /\ ~run'[r].failed
           /\ used' = used \/ SidecarCallFails
           /\ r # Reconcile =>
                \/ run'[r].step = "idle" /\ holder' = Nobody
                   /\ (run[r].failed \/ SidecarCallFails \/ run[r].queue = {})
                \/ /\ run'[r].step = "scan" /\ run'[r].job \in run[r].queue
                   /\ run'[r].queue = run[r].queue \ {run'[r].job} /\ ~run[r].failed
                   /\ holder' = holder
           /\ r = Reconcile => run'[r].step # "scan" /\ holder' = holder
<1>0. /\ UNCHANGED <<place, side, dropped, displaced, shelved, refused, calm>>
      /\ run[r].step = "mark" /\ run[r].step \in AtWork
  BY DEF Mark, AtWork
<1>1. BookOK(ledger)
  BY BookTyped DEF Control
<1>2. /\ BookOK(ledger') /\ ledger'.next = ledger.next /\ ledger.next <= ledger'.next
      /\ DOMAIN ledger'.entries \subseteq DOMAIN ledger.entries
      /\ \A g \in DOMAIN ledger'.entries :
           /\ ledger'.entries[g].move = ledger.entries[g].move
           /\ DOMAIN ledger'.entries[g].kinds = DOMAIN ledger.entries[g].kinds
      /\ \A g \in DOMAIN ledger.entries : \A k \in DOMAIN ledger.entries[g].kinds :
           ~ledger.entries[g].kinds[k].done =>
             \/ g \in DOMAIN ledger'.entries /\ ~ledger'.entries[g].kinds[k].done
             \/ ~run[r].failed /\ g = Job(r).gen /\ k = Job(r).kind
  <2>0. ledger.next <= ledger.next
    BY <1>1 DEF BookOK
  <2>1. CASE ~run[r].failed /\ ledger' = MarkCompleted(Job(r))
    BY <1>1, <2>0, <2>1, MarkedBook DEF BookAfter
  <2>2. CASE ledger' = MarkFailed(Job(r))
    BY <1>1, <2>0, <2>2, MarkedBook DEF BookAfter
  <2>3. CASE UNCHANGED ledger
    BY <1>1, <2>0, <2>3
  <2> QED BY <2>1, <2>2, <2>3 DEF Mark
<1>3. PICK v :
        /\ run' = [run EXCEPT ![r] = v] /\ v.todo = {} /\ v.item = {} /\ ~v.failed
        /\ \/ v = NoWork /\ holder' = IF holder = r THEN Nobody ELSE holder
           \/ /\ v.step = "scan" /\ r # Reconcile /\ v.job \in run[r].queue
              /\ v.queue = run[r].queue \ {v.job} /\ v \in Locals
              /\ ~run[r].failed /\ holder' = holder
           \/ /\ v.step = "wait" /\ r = Reconcile /\ v.queue = run[r].queue /\ v \in Locals
              /\ holder' = holder
  BY MarkMoves
<1>4. /\ used' = used \/ SidecarCallFails
      /\ used' \in [renames : 0 .. MaxRenames, faults : Nat, launches : Nat] /\ used'.renames = used.renames
  BY DEF Mark, SidecarCallFails, Control, LedgerTypeOK
<1>5. run'[r] = v /\ \A q \in Runners \ {r} : run'[q] = run[q]
  BY <1>3 DEF Control, LedgerTypeOK
<1>6. /\ v.step \in {"idle", "scan", "wait"} /\ v.queue \subseteq run[r].queue
      /\ v.step = "scan" => v.job \in run[r].queue /\ r # Reconcile
      /\ v.step = "wait" => r = Reconcile
      /\ v.step = "idle" => v.queue = {}
  BY <1>3, NoWorkFields
<1>7. v \in Locals' /\ (v.step \in AtWork => v.job \in JobType') /\ WorkerOK(r, v)
  <2>1. JobType \subseteq JobType' /\ Locals \subseteq Locals'
    BY <1>1, <1>2, Later
  <2>2. NoWork \in Locals'
    BY NoWorkFields DEF Locals
  <2>3. run[r].queue \in SUBSET JobType
    BY RunOf DEF Control
  <2>4. WorkerOK(r, v)
    BY <1>3, <1>6 DEF WorkerOK, AtWork, Moving
  <2> QED BY <1>3, <1>6, <2>1, <2>2, <2>3, <2>4 DEF AtWork, Moving
<1>8. LedgerTypeOK'
  <2>1. /\ side' \in [Kinds -> [Paths -> SUBSET Docs]] /\ holder' \in Runners \cup {Nobody}
        /\ dropped' \subseteq Docs /\ displaced' \subseteq Kinds \X Docs /\ shelved' \subseteq Kinds \X Docs
    BY <1>0, <1>3 DEF Control, LedgerTypeOK
  <2> QED BY <1>0, <1>2, <1>3, <1>4, <1>7, <2>1, WorkerTyped DEF Control
<1>9. LockHeld'
  <2>1. r # Reconcile => holder = r /\ \A q \in Runners \ {r} : run[q].step \notin Moving /\ (q # Reconcile => run[q].step # "mark")
    BY <1>0 DEF Control, LockHeld
  <2>2. r = Reconcile => holder # r
    BY <1>0 DEF Control, LockHeld
  <2>3. \A q \in Runners : q # Nobody
    BY Apart
  <2>4. CASE r = Reconcile
    BY <1>3, <1>5, <1>6, <2>2, <2>4 DEF Control, LockHeld, AtWork, Moving
  <2>5. CASE r # Reconcile /\ v.step = "scan"
    <3>1. holder' = r
      BY <1>3, <2>1, <2>5, NoWorkFields
    <3> QED BY <1>5, <2>1, <2>5, <3>1 DEF LockHeld, AtWork, Moving
  <2>6. CASE r # Reconcile /\ v.step = "idle"
    <3>1. holder' = Nobody
      BY <1>3, <2>1, <2>6
    <3>2. \A q \in Runners : run'[q].step \notin Moving /\ (q # Reconcile => run'[q].step # "mark")
      BY <1>5, <2>1, <2>6 DEF Moving
    <3> QED BY <2>3, <3>1, <3>2, Apart DEF LockHeld
  <2> QED BY <1>6, <2>4, <2>5, <2>6
<1>10. JobsFit'
  <2>1. v.queue \cup (IF v.step \in AtWork THEN {v.job} ELSE {}) \subseteq JobsOf(r)
    BY <1>6 DEF JobsOf, AtWork, Moving
  <2>2. r # Reconcile => \A j \in v.queue : v.step = "scan" => j.gen = v.job.gen /\ j.move = v.job.move
    BY <1>6 DEF Control, JobsFit, Runners, Job
  <2>3. r # Reconcile => /\ v.step # "wait" /\ v.step # "start"
                         /\ v.step = "idle" => v.queue = {}
                         /\ \A j \in v.queue : j.gen = v.job.gen /\ j.move = v.job.move
    BY <1>6, <2>2
  <2> QED BY <1>0, <1>2, <1>3, <1>4, <2>1, <2>3, WorkerFits
<1>11. r # Reconcile =>
         \/ run'[r].step = "idle" /\ holder' = Nobody
            /\ (run[r].failed \/ SidecarCallFails \/ run[r].queue = {})
         \/ /\ run'[r].step = "scan" /\ run'[r].job \in run[r].queue
            /\ run'[r].queue = run[r].queue \ {run'[r].job} /\ ~run[r].failed
            /\ holder' = holder
  <2> SUFFICES ASSUME r # Reconcile
               PROVE  \/ v.step = "idle" /\ holder' = Nobody
                         /\ (run[r].failed \/ SidecarCallFails \/ run[r].queue = {})
                      \/ /\ v.step = "scan" /\ v.job \in run[r].queue
                         /\ v.queue = run[r].queue \ {v.job} /\ ~run[r].failed
                         /\ holder' = holder
    BY <1>5
  <2>1. holder = r
    BY <1>0 DEF Control, LockHeld
  <2>2. CASE v.step = "scan"
    BY <1>3, <2>2, NoWorkFields
  <2>3. CASE v.step = "idle"
    <3>1. holder' = Nobody
      BY <1>3, <2>1, <2>3
    <3>2. ASSUME ~run[r].failed, ~SidecarCallFails, run[r].queue # {}
          PROVE  FALSE
      <4>1. TakeFirst(r, run[r].queue)
        BY <3>2 DEF Mark, GoOn
      <4>2. run'[r].step = "scan"
        BY <4>1, Begun DEF Control, LedgerTypeOK
      <4> QED BY <1>5, <2>3, <4>2
    <3> QED BY <2>3, <3>1, <3>2
  <2> QED BY <1>6, <2>2, <2>3
<1>12. r = Reconcile => run'[r].step # "scan" /\ holder' = holder
  BY <1>0, <1>3, <1>5, NoWorkFields DEF Control, LockHeld
<1> QED BY <1>2, <1>3, <1>4, <1>5, <1>6, <1>8, <1>9, <1>10, <1>11, <1>12 DEF Control

LEMMA RelaunchControl ==
    ASSUME Control, Relaunch
    PROVE  /\ Control' /\ holder' = Nobody
           /\ \A r \in Runners : /\ run'[r] = IF r = Reconcile THEN [NoWork EXCEPT !.step = "start"] ELSE NoWork
                                 /\ run'[r].step \in {"idle", "start"} /\ run'[r].queue = {} /\ ~run'[r].failed
           /\ \A w \in Workers : run'[w].step = "idle"
<1>1. /\ calm /\ used' = [used EXCEPT !.launches = @ + 1] /\ holder' = Nobody
      /\ dropped' = dropped \cup UNION {MovedBy(Job(w).move) : w \in {v \in Workers : run[v].step = "wait"}}
      /\ run' = [r \in Runners |-> IF r = Reconcile THEN [NoWork EXCEPT !.step = "start"] ELSE NoWork]
      /\ UNCHANGED <<place, side, ledger, displaced, shelved, refused, calm>>
  BY DEF Relaunch
<1>2. [NoWork EXCEPT !.step = "start"] \in
        [step : {"start"}, job : {NoWork.job}, queue : {{}}, todo : {{}}, item : {{}}, failed : {FALSE}]
  BY DEF NoWork
<1>3. \A r \in Runners :
        /\ run'[r] \in Locals' /\ run'[r].step \in {"idle", "start"}
        /\ run'[r].queue = {} /\ run'[r].item = {} /\ ~run'[r].failed
        /\ r # Reconcile => run'[r].step = "idle"
  BY <1>1, <1>2, NoWorkFields DEF Locals, RunnerSteps
<1>4. LedgerTypeOK'
  <2>1. dropped' \subseteq Docs
    BY <1>1 DEF Control, LedgerTypeOK, MovedBy
  <2>2. run' \in [Runners -> Locals']
    BY <1>1, <1>3
  <2>3. used' \in [renames : 0 .. MaxRenames, faults : Nat, launches : Nat]
    BY <1>1 DEF Control, LedgerTypeOK
  <2>4. \A r \in Runners :
        /\ run'[r].step \in AtWork =>
             run'[r].job \in JobType' /\ run'[r].todo \cup run'[r].item \subseteq DOMAIN run'[r].job.move
        /\ run'[r].step = "wait" /\ r # Reconcile => run'[r].job.move \in Moves
        /\ run'[r].step = "unlink" => \E p \in Paths : run'[r].item = {p}
        /\ run'[r].step # "unlink" => run'[r].item = {}
    BY <1>3 DEF AtWork, Moving
  <2> QED BY <1>1, <2>1, <2>2, <2>3, <2>4 DEF Control, LedgerTypeOK
<1>5. LockHeld'
  BY <1>1, <1>3, Apart DEF LockHeld, AtWork, Moving
<1>6. \A w \in Workers : w \in Runners /\ w # Reconcile
  BY Apart DEF Runners
<1>7. JobsFit'
  <2>1. \A r \in Runners : JobsOf(r)' = {}
    BY <1>3 DEF JobsOf, AtWork, Moving
  <2> QED BY <1>3, <1>6, <2>1 DEF JobsFit
<1> QED BY <1>1, <1>3, <1>4, <1>5, <1>6, <1>7 DEF Control

LEMMA StutterControl ==
    ASSUME Control, UNCHANGED ledgerVars
    PROVE  Control'
<1>1. /\ LedgerTypeOK' <=> LedgerTypeOK
      /\ LockHeld' <=> LockHeld
      /\ JobsFit' <=> JobsFit
  BY DEF ledgerVars, LedgerTypeOK, LockHeld, JobsFit, JobsOf, Job, JobType, Locals
<1> QED BY <1>1 DEF Control

LEMMA StartsControlled == LedgerInit => Control
<1> SUFFICES ASSUME LedgerInit PROVE Control
  OBVIOUS
<1>1. /\ place = Home /\ holder = Nobody /\ dropped = {} /\ displaced = {} /\ shelved = {} /\ calm \in BOOLEAN
      /\ side = [k \in Kinds |-> [p \in Paths |-> {d \in Docs : Home[d] = p}]]
      /\ ledger = [next |-> 1, entries |-> <<>>]
      /\ used = [renames |-> 0, faults |-> 0, launches |-> 1]
      /\ refused \in Refusals \cup {{}}
  BY DEF LedgerInit
<1>2. [NoWork EXCEPT !.step = "start"] \in
        [step : {"start"}, job : {NoWork.job}, queue : {{}}, todo : {{}}, item : {{}}, failed : {FALSE}]
  BY DEF NoWork
<1>3. \A r \in Runners :
        /\ run[r] \in Locals /\ run[r].step \in {"idle", "start"}
        /\ run[r].queue = {} /\ run[r].item = {} /\ ~run[r].failed
        /\ r # Reconcile => run[r].step = "idle"
  BY <1>2, NoWorkFields DEF Locals, RunnerSteps, LedgerInit
<1>4. DOMAIN ledger.entries = {} /\ ledger.next = 1
  BY <1>1
<1>5. LedgerTypeOK
  <2>1. run \in [Runners -> Locals]
    BY <1>3 DEF LedgerInit
  <2>2. side \in [Kinds -> [Paths -> SUBSET Docs]] /\ place \in [Docs -> Paths]
    BY <1>1, LedgerAssumption
  <2>3. used \in [renames : 0 .. MaxRenames, faults : Nat, launches : Nat]
    BY <1>1, LedgerAssumption
  <2>4. \A r \in Runners :
        /\ run[r].step \in AtWork =>
             run[r].job \in JobType /\ run[r].todo \cup run[r].item \subseteq DOMAIN run[r].job.move
        /\ run[r].step = "wait" /\ r # Reconcile => run[r].job.move \in Moves
        /\ run[r].step = "unlink" => \E p \in Paths : run[r].item = {p}
        /\ run[r].step # "unlink" => run[r].item = {}
    BY <1>3 DEF AtWork, Moving
  <2> QED BY <1>1, <1>4, <2>1, <2>2, <2>3, <2>4 DEF LedgerTypeOK
<1>6. LockHeld
  BY <1>1, <1>3, Apart DEF LockHeld, AtWork, Moving
<1>7. JobsFit
  <2>1. \A r \in Runners : JobsOf(r) = {}
    BY <1>3 DEF JobsOf, AtWork, Moving
  <2>2. \A w \in Workers : w \in Runners /\ w # Reconcile
    BY Apart DEF Runners
  <2> QED BY <1>3, <2>1, <2>2 DEF JobsFit
<1> QED BY <1>5, <1>6, <1>7 DEF Control

\* Every step keeps the types, the lock and the jobs in order.
LEMMA ControlKept ==
    ASSUME Control, [LedgerNext]_ledgerVars
    PROVE  Control'
<1>1. CASE UNCHANGED ledgerVars
  BY <1>1, StutterControl
<1>2. \A m \in Moves : Rename(m) => Control'
  BY RenameControl
<1>3. \A w \in Workers : Track(w) => Control'
  BY TrackControl
<1>4. \A r \in Runners : RunnerStep(r) => Control'
  <2> SUFFICES ASSUME NEW r \in Runners, RunnerStep(r) PROVE Control'
    OBVIOUS
  <2>1. CASE Scan(r)
    BY <2>1, ScanControl
  <2>2. \A p \in Paths : WriteSidecar(r, p) => Control'
    BY WriteControl
  <2>6. \A p \in Paths : LoadFails(r, p) => Control'
    BY LoadControl
  <2>3. CASE UnlinkSidecar(r)
    BY <2>3, UnlinkControl
  <2>4. CASE EndKind(r)
    BY <2>4, EndControl
  <2>5. CASE Mark(r)
    BY <2>5, MarkControl
  <2> QED BY <2>1, <2>2, <2>3, <2>4, <2>5, <2>6 DEF RunnerStep
<1> QED BY <1>1, <1>2, <1>3, <1>4, StartControl, RetryControl, RelaunchControl DEF LedgerNext

-----------------------------------------------------------------------------
(* No sidecar is lost, and a pass leaves only what it may *)

\* The lock is held by one: while a worker moves sidecars no other does, and no
\* other rename has a kind to mark.
LEMMA Alone ==
    ASSUME LockHeld, NEW r \in Runners, holder = r
    PROVE  \A q \in Runners \ {r} :
             run[q].step \notin Moving /\ (run[q].step = "mark" => q = Reconcile)
BY DEF LockHeld

\* A sidecar stays, or its document is at the path it was merged into; it is
\* removed only once it is there.
LEMMA NeverLostKept ==
    ASSUME Control, AllPassedOver, SidecarsNeverLost, [LedgerNext]_ledgerVars
    PROVE  SidecarsNeverLost'
<1> SUFFICES ASSUME NEW d \in Docs, NEW k \in Kinds
             PROVE  (\E x \in Paths : d \in side'[k][x]) \/ <<k, d>> \in displaced' \cup shelved'
  BY DEF SidecarsNeverLost, At
<1>2. (\E x \in Paths : d \in side[k][x]) \/ <<k, d>> \in displaced \cup shelved
  BY DEF SidecarsNeverLost, At
<1>3. ASSUME NEW r \in Runners, NEW p \in Paths, WriteSidecar(r, p)
      PROVE  (\E x \in Paths : d \in side'[k][x]) \/ <<k, d>> \in displaced' \cup shelved'
  <2>1. CASE SaveAtNewPath(r, p)
    <3>1. /\ run[r].step = "items" /\ p \in run[r].todo /\ shelved' = shelved
      BY <1>3 DEF WriteSidecar
    <3> QED BY <1>2, <2>1, <3>1, SaveMerges DEF Control
  <2>2. CASE ~SaveAtNewPath(r, p)
    BY <1>3, <2>2, <1>2 DEF WriteSidecar
  <2> QED BY <2>1, <2>2
<1>4. ASSUME NEW r \in Runners, UnlinkSidecar(r)
      PROVE  (\E x \in Paths : d \in side'[k][x]) \/ <<k, d>> \in displaced' \cup shelved'
  <2>1. run[r].step = "unlink" /\ UNCHANGED <<displaced, shelved>> /\ run[r].step \in AtWork
    BY <1>4 DEF UnlinkSidecar, AtWork, Moving
  <2>2. PICK p \in Paths : run[r].item = {p}
    BY <2>1 DEF Control, LedgerTypeOK
  <2>3. /\ p \in DOMAIN Job(r).move /\ Job(r).move[p] \in Paths /\ Job(r).move[p] # p
    BY <2>1, <2>2, AtHand DEF Control
  <2>4. \A c \in side[Job(r).kind][p] : c \in side[Job(r).kind][Job(r).move[p]] \/ <<Job(r).kind, c>> \in displaced
    BY <2>1, <2>2 DEF AllPassedOver, PassedOver
  <2>5. CASE side' = side
    BY <1>2, <2>1, <2>5
  <2>6. CASE \A l \in Kinds, x \in Paths :
               side'[l][x] = IF l = Job(r).kind /\ x \in run[r].item THEN {} ELSE side[l][x]
    BY <1>2, <2>1, <2>2, <2>3, <2>4, <2>6
  <2> QED BY <1>4, <2>5, <2>6, UnlinkControl
<1>5. ASSUME NEW r \in Runners, NEW p \in Paths, LoadFails(r, p)
      PROVE  (\E x \in Paths : d \in side'[k][x]) \/ <<k, d>> \in displaced' \cup shelved'
  BY <1>2, <1>5, LoadControl
<1>6. CASE \A r \in Runners :
             ~UnlinkSidecar(r) /\ \A p \in Paths : ~WriteSidecar(r, p) /\ ~LoadFails(r, p)
  <2>1. UNCHANGED <<side, displaced, shelved>>
    BY <1>6 DEF LedgerNext, RunnerStep, ledgerVars, Rename, Track, StartReconcile, Retry, Scan, EndKind, Mark, Relaunch
  <2> QED BY <1>2, <2>1
<1> QED BY <1>3, <1>4, <1>5, <1>6

\* In a hasty world nothing fails.
LEMMA HastyKept ==
    ASSUME Control, HastyWorld, [LedgerNext]_ledgerVars
    PROVE  HastyWorld'
<1>1. calm' = calm /\ refused' = refused
  BY DEF LedgerNext, RunnerStep, ledgerVars, Rename, Track, StartReconcile, Retry, Scan, WriteSidecar, LoadFails,
         UnlinkSidecar, EndKind, Mark, Relaunch
<1> SUFFICES ASSUME ~calm
             PROVE  /\ used'.faults = used.faults
                    /\ run'[Reconcile].step = "idle" /\ \A r \in Runners : ~run'[r].failed
  BY <1>1 DEF HastyWorld
<1>2. /\ refused = {} /\ run[Reconcile].step = "idle" /\ ~SidecarCallFails
      /\ \A r \in Runners : ~run[r].failed
  BY DEF HastyWorld, SidecarCallFails
<1>3. CASE UNCHANGED ledgerVars
  BY <1>2, <1>3 DEF ledgerVars
<1>4. ASSUME NEW m \in Moves, Rename(m)
      PROVE  used'.faults = used.faults /\ run'[Reconcile].step = "idle" /\ \A r \in Runners : ~run'[r].failed
  <2>1. used'.faults = used.faults
    BY <1>4 DEF Rename, Control, LedgerTypeOK
  <2>2. \A r \in Runners : run'[r] = run[r] \/ (run'[r].failed = FALSE /\ r[1] = used.renames + 1)
    BY <1>4 DEF Rename, NoWork, NoJob
  <2>3. Reconcile[1] # used.renames + 1 /\ Reconcile \in Runners
    BY Apart DEF Reconcile, Control, LedgerTypeOK
  <2> QED BY <1>2, <2>1, <2>2, <2>3
<1>5. ASSUME NEW w \in Workers, Track(w)
      PROVE  used'.faults = used.faults /\ run'[Reconcile].step = "idle" /\ \A r \in Runners : ~run'[r].failed
  <2>1. PICK jobs : TakeFirst(w, jobs) /\ UNCHANGED used
    BY <1>2, <1>5 DEF Track
  <2>2. w \in Runners /\ w # Reconcile
    BY Apart DEF Runners
  <2>3. \A r \in Runners \ {w} : run'[r] = run[r]
    BY <2>1, <2>2, Begun DEF Control, LedgerTypeOK
  <2>4. ~run'[w].failed
    BY <2>1, <2>2, Begun DEF Control, LedgerTypeOK
  <2> QED BY <1>2, <2>1, <2>2, <2>3, <2>4, Apart
<1>6. ~StartReconcile /\ ~Retry /\ ~Relaunch
  BY <1>2 DEF StartReconcile, Retry, Relaunch
<1>7. ASSUME NEW r \in Runners, RunnerStep(r)
      PROVE  used'.faults = used.faults /\ run'[Reconcile].step = "idle" /\ \A q \in Runners : ~run'[q].failed
  <2>1. run[r].step # "idle" /\ r # Reconcile
    BY <1>2, <1>7 DEF RunnerStep, Scan, WriteSidecar, LoadFails, UnlinkSidecar, EndKind, Mark
  <2> SUFFICES /\ \A q \in Runners \ {r} : run'[q] = run[q]
               /\ ~run'[r].failed /\ used' = used
    BY <1>2, <2>1, Apart
  <2>2. CASE Scan(r)
    BY <1>2, <2>2, ScanControl
  <2>3. ASSUME NEW p \in Paths, WriteSidecar(r, p)
        PROVE  (\A q \in Runners \ {r} : run'[q] = run[q]) /\ ~run'[r].failed /\ used' = used
    <3>1. ~SaveFails(r, p)
      BY <1>2 DEF SaveFails
    <3>2. SaveAtNewPath(r, p)
      BY <1>2, <2>3, <3>1, WriteControl
    <3>3. used' = used
      BY <1>2, <3>2 DEF SaveAtNewPath
    <3> QED BY <1>2, <2>3, <3>1, <3>3, WriteControl
  <2>7. \A p \in Paths : ~LoadFails(r, p)
    BY <1>2 DEF LoadFails
  <2>4. CASE UnlinkSidecar(r)
    BY <1>2, <2>4, UnlinkControl
  <2>5. CASE EndKind(r)
    BY <1>2, <2>5, EndControl DEF EndKind
  <2>6. CASE Mark(r)
    BY <1>2, <2>6, MarkControl
  <2> QED BY <1>7, <2>2, <2>3, <2>4, <2>5, <2>6, <2>7 DEF RunnerStep
<1> QED BY <1>3, <1>4, <1>5, <1>6, <1>7 DEF LedgerNext

-----------------------------------------------------------------------------
(* One rename at a time *)

\* A step that starts no rename and records no entry.
LEMMA OneRenameFrame ==
    ASSUME OneRename, calm' = calm, place' = place, used'.renames = used.renames,
           \A w \in Workers : run'[w].step # "idle" =>
             /\ run[w].step # "idle" /\ run'[w].job.move = run[w].job.move
             /\ run'[w].step = "wait" => run[w].step = "wait",
           DOMAIN ledger'.entries \subseteq DOMAIN ledger.entries,
           \A g \in DOMAIN ledger'.entries :
             /\ ledger'.entries[g].move = ledger.entries[g].move
             /\ DOMAIN ledger'.entries[g].kinds = DOMAIN ledger.entries[g].kinds
    PROVE  OneRename'
<1> SUFFICES ASSUME calm
             PROVE  OneRename'
  BY DEF OneRename
<1>1. /\ Busy' \subseteq Busy
      /\ \A w \in Busy' : Job(w)'.move = Job(w).move /\ (run'[w].step = "wait" => run[w].step = "wait")
  BY DEF Busy, Job
<1>2. /\ \A w \in Busy : w[1] = used.renames
      /\ \A v, w \in Busy : Job(v).move = Job(w).move
      /\ \A g, h \in DOMAIN ledger.entries : g = h
      /\ \A w \in Busy, d \in Docs : place[d] \notin DOMAIN Job(w).move
      /\ \A g \in DOMAIN ledger.entries :
         /\ \A w \in Busy : Job(w).move = ledger.entries[g].move
         /\ \A w \in Busy : run[w].step = "wait" =>
              ToSet(KindsOf[w[2]]) \cap DOMAIN ledger.entries[g].kinds = {}
         /\ \A d \in Docs : place[d] \notin DOMAIN ledger.entries[g].move
  BY DEF OneRename
<1>3. /\ \A w \in Busy' : w[1] = used'.renames
      /\ \A v, w \in Busy' : Job(v)'.move = Job(w)'.move
      /\ \A g, h \in DOMAIN ledger'.entries : g = h
      /\ \A w \in Busy', d \in Docs : place'[d] \notin DOMAIN Job(w)'.move
  BY <1>1, <1>2
<1>4. \A g \in DOMAIN ledger'.entries :
         /\ \A w \in Busy' : Job(w)'.move = ledger'.entries[g].move
         /\ \A w \in Busy' : run'[w].step = "wait" =>
              ToSet(KindsOf[w[2]]) \cap DOMAIN ledger'.entries[g].kinds = {}
         /\ \A d \in Docs : place'[d] \notin DOMAIN ledger'.entries[g].move
  BY <1>1, <1>2
<1> HIDE DEF Busy
<1> QED BY <1>3, <1>4 DEF OneRename

LEMMA RenameAlone ==
    ASSUME Control, NEW m \in Moves, Rename(m)
    PROVE  OneRename'
<1> DEFINE n == used.renames + 1
<1> SUFFICES ASSUME calm
             PROVE  OneRename'
  BY DEF OneRename, Rename
<1>1. /\ DOMAIN ledger'.entries = {} /\ \A w \in Workers : run[w].step = "idle"
      /\ used'.renames = n
      /\ run' = [r \in Runners |->
           IF r[1] = n /\ KindsOf[r[2]] # <<>>
           THEN [NoWork EXCEPT !.step = "wait", !.job = [NoJob EXCEPT !.move = m]]
           ELSE run[r]]
  BY DEF Rename, Control, LedgerTypeOK
<1>2. [NoWork EXCEPT !.step = "wait", !.job = [NoJob EXCEPT !.move = m]].job.move = m
  BY DEF NoWork, NoJob
<1>3. \A w \in Workers : w \in Runners
  BY DEF Runners
<1>4. \A w \in Busy' : w[1] = n /\ Job(w)'.move = m
  BY <1>1, <1>2, <1>3 DEF Busy, Job
<1>5. \A d \in Docs : place'[d] \notin DOMAIN m
  BY LedgerAssumption DEF Rename, Control, LedgerTypeOK
<1> HIDE DEF Busy
<1> QED BY <1>1, <1>4, <1>5 DEF OneRename

LEMMA TrackAlone ==
    ASSUME Control, OneRename, NEW w \in Workers, Track(w)
    PROVE  OneRename'
<1> DEFINE m     == Job(w).move
           kinds == ToSet(KindsOf[w[2]])
           gen   == RecordAs(m)
<1> SUFFICES ASSUME calm
             PROVE  OneRename'
  BY DEF OneRename, Track
<1> w \in Runners /\ w # Reconcile
  BY Apart DEF Runners
<1>1. BookOK(ledger) /\ m \in Moves /\ kinds \in SUBSET Kinds /\ run[w].step = "wait"
      /\ calm' = calm /\ place' = place
  <2>1. m \in Moves
    BY DEF Track, Control, LedgerTypeOK, Job
  <2>2. kinds \in SUBSET Kinds
    BY DEF Workers, KindsOf, Kinds
  <2> QED BY <2>1, <2>2, BookTyped DEF Control, Track
<1>2. CASE /\ ledger' = RecordPending(gen, m, kinds)
           /\ TakeFirst(w, Jobs(gen, m, kinds)) /\ UNCHANGED <<used, dropped>>
  <2>1. /\ BookOK(ledger') /\ gen \in DOMAIN ledger'.entries /\ ledger'.entries[gen].move = m
        /\ DOMAIN ledger'.entries \subseteq DOMAIN ledger.entries \cup {gen}
        /\ \A g \in DOMAIN ledger.entries \cap DOMAIN ledger'.entries :
             /\ ledger'.entries[g].move = ledger.entries[g].move
             /\ DOMAIN ledger'.entries[g].kinds \subseteq DOMAIN ledger.entries[g].kinds \cup kinds
        /\ gen \notin DOMAIN ledger.entries => DOMAIN ledger'.entries[gen].kinds = kinds
        /\ gen \notin DOMAIN ledger.entries =>
             \A g \in DOMAIN ledger'.entries \ {gen} : ledger'.entries[g].move # m
    BY <1>1, <1>2, AfterRecord
  <2>2. PICK job \in Jobs(gen, m, kinds) :
             run' = [run EXCEPT ![w] = [step |-> "scan", job |-> job, queue |-> Jobs(gen, m, kinds) \ {job},
                                        todo |-> {}, item |-> {}, failed |-> FALSE]]
    BY <1>2, Begun DEF Control
  <2>3. /\ run'[w].step = "scan" /\ run'[w].job.move = m
        /\ \A q \in Runners \ {w} : run'[q] = run[q]
    BY <2>2 DEF Jobs, Control, LedgerTypeOK
  <2> HIDE DEF gen
  <2>4. /\ Busy' = Busy /\ w \in Busy /\ used'.renames = used.renames
        /\ \A v \in Busy : Job(v)'.move = m
        /\ \A v \in Busy \ {w} : run'[v] = run[v]
    BY <1>1, <1>2, <2>3 DEF Busy, Job, Runners, OneRename
  <2>5. DOMAIN ledger'.entries = {gen}
    <3> SUFFICES ASSUME NEW g \in DOMAIN ledger'.entries, g # gen PROVE FALSE
      BY <2>1
    <3>1. g \in DOMAIN ledger.entries /\ ledger'.entries[g].move = m
      BY <2>1, <2>4 DEF OneRename
    <3>2. gen \in DOMAIN ledger.entries
      BY <2>1, <3>1
    <3> QED BY <3>1, <3>2 DEF OneRename
  <2>6. \A v \in Busy \ {w} : run[v].step = "wait" =>
          ToSet(KindsOf[v[2]]) \cap DOMAIN ledger'.entries[gen].kinds = {}
    <3> SUFFICES ASSUME NEW v \in Busy \ {w}, run[v].step = "wait"
                 PROVE  ToSet(KindsOf[v[2]]) \cap DOMAIN ledger'.entries[gen].kinds = {}
      OBVIOUS
    <3>1. v[1] = w[1] /\ v \in Workers /\ v # w
      BY <2>4 DEF OneRename, Busy
    <3>2. v[2] # w[2] /\ v[2] \in {"notes", "history"} /\ w[2] \in {"notes", "history"}
      BY <3>1 DEF Workers
    <3>3. ToSet(KindsOf[v[2]]) \cap kinds = {}
      BY <3>2, LedgerAssumption DEF KindsOf
    <3>4. gen \in DOMAIN ledger.entries => ToSet(KindsOf[v[2]]) \cap DOMAIN ledger.entries[gen].kinds = {}
      BY DEF OneRename
    <3> QED BY <2>1, <3>3, <3>4
  <2>7. \A d \in Docs : place'[d] \notin DOMAIN m
    BY <1>1, <2>4 DEF OneRename
  <2>8. /\ \A v \in Busy' : v[1] = used'.renames
        /\ \A v \in Busy' : Job(v)'.move = m
        /\ \A v \in Busy' : run'[v].step = "wait" =>
              ToSet(KindsOf[v[2]]) \cap DOMAIN ledger'.entries[gen].kinds = {}
    BY <2>3, <2>4, <2>6 DEF OneRename
  <2> HIDE DEF Busy, m
  <2> QED BY <1>1, <2>1, <2>5, <2>7, <2>8 DEF OneRename
<1>3. CASE SidecarCallFails /\ run' = [run EXCEPT ![w] = NoWork] /\ UNCHANGED <<holder, ledger>>
  <2>1. \A q \in Workers : q \in Runners /\ (q # w => run'[q] = run[q]) /\ (q = w => run'[q].step = "idle")
    BY <1>3, NoWorkFields DEF Runners, Control, LedgerTypeOK
  <2>2. used'.renames = used.renames
    BY <1>3 DEF SidecarCallFails, Control, LedgerTypeOK
  <2> QED BY <1>1, <1>3, <2>1, <2>2, OneRenameFrame
<1> QED BY <1>2, <1>3 DEF Track

LEMMA OneRenameKept ==
    ASSUME Control, OneRename, [LedgerNext]_ledgerVars
    PROVE  OneRename'
<1>0. \A w \in Workers : w \in Runners /\ w # Reconcile
  BY Apart DEF Runners
<1>1. CASE UNCHANGED ledgerVars
  BY <1>1, OneRenameFrame DEF ledgerVars
<1>2. CASE StartReconcile \/ Retry
  <2>1. \A w \in Workers : run'[w] = run[w]
    BY <1>0, <1>2, Begun, Apart DEF StartReconcile, Retry, Control, LedgerTypeOK
  <2> QED BY <1>2, <2>1, OneRenameFrame DEF StartReconcile, Retry
<1>3. ASSUME NEW r \in Runners, RunnerStep(r)
      PROVE  OneRename'
  <2>1. used'.renames = used.renames
    <3>1. used' = used \/ SidecarCallFails
      BY <1>3 DEF RunnerStep, Scan, WriteSidecar, SaveAtNewPath, SaveFails, LoadFails, UnlinkSidecar, EndKind, Mark
    <3> QED BY <3>1 DEF SidecarCallFails, Control, LedgerTypeOK
  <2>2. calm' = calm /\ place' = place
    BY <1>3 DEF RunnerStep, Scan, WriteSidecar, LoadFails, UnlinkSidecar, EndKind, Mark
  <2>3. CASE Mark(r)
    <3>1. \A w \in Workers : run'[w].step # "idle" =>
             /\ run[w].step # "idle" /\ run'[w].job.move = run[w].job.move
             /\ run'[w].step = "wait" => run[w].step = "wait"
      <4> SUFFICES ASSUME NEW w \in Workers, run'[w].step # "idle"
                   PROVE  /\ run[w].step # "idle" /\ run'[w].job.move = run[w].job.move
                          /\ run'[w].step = "wait" => run[w].step = "wait"
        OBVIOUS
      <4>1. CASE w # r
        BY <1>0, <2>3, <4>1, MarkControl
      <4>2. CASE w = r
        <5>1. run'[r].step = "scan" /\ run'[r].job \in run[r].queue /\ run[r].step = "mark"
          BY <1>0, <2>3, <4>2, MarkControl DEF Mark
        <5>2. run'[r].job.move = run[r].job.move
          BY <4>2, <5>1 DEF Control, JobsFit, Job
        <5> QED BY <4>2, <5>1, <5>2
      <4> QED BY <4>1, <4>2
    <3> QED BY <2>1, <2>2, <2>3, <3>1, MarkControl, OneRenameFrame
  <2>4. CASE ~Mark(r)
    <3>1. ledger' = ledger
      BY <1>3, <2>4 DEF RunnerStep, Scan, WriteSidecar, LoadFails, UnlinkSidecar, EndKind
    <3>2. /\ \A q \in Runners \ {r} : run'[q] = run[q]
          /\ run'[r].job = run[r].job /\ run[r].step # "idle" /\ run'[r].step # "wait"
      <4>1. CASE Scan(r)
        BY <4>1, ScanControl DEF Scan
      <4>2. ASSUME NEW p \in Paths, WriteSidecar(r, p)
            PROVE  /\ \A q \in Runners \ {r} : run'[q] = run[q]
                   /\ run'[r].job = run[r].job /\ run[r].step # "idle" /\ run'[r].step # "wait"
        BY <4>2, WriteControl
      <4>5. ASSUME NEW p \in Paths, LoadFails(r, p)
            PROVE  /\ \A q \in Runners \ {r} : run'[q] = run[q]
                   /\ run'[r].job = run[r].job /\ run[r].step # "idle" /\ run'[r].step # "wait"
        BY <4>5, LoadControl
      <4>3. CASE UnlinkSidecar(r)
        BY <4>3, UnlinkControl DEF UnlinkSidecar
      <4>4. CASE EndKind(r)
        BY <4>4, EndControl
      <4> QED BY <1>3, <2>4, <4>1, <4>2, <4>3, <4>4, <4>5 DEF RunnerStep
    <3>3. \A w \in Workers : run'[w].step # "idle" =>
             /\ run[w].step # "idle" /\ run'[w].job.move = run[w].job.move
             /\ run'[w].step = "wait" => run[w].step = "wait"
      BY <1>0, <3>2
    <3> QED BY <2>1, <2>2, <3>1, <3>3, OneRenameFrame
  <2> QED BY <2>3, <2>4
<1>4. CASE Relaunch
  <2>1. used'.renames = used.renames
    BY <1>4 DEF Relaunch, Control, LedgerTypeOK
  <2>2. \A w \in Workers : run'[w].step = "idle"
    BY <1>4, RelaunchControl
  <2>3. calm' = calm /\ place' = place /\ ledger' = ledger
    BY <1>4 DEF Relaunch
  <2> QED BY <2>1, <2>2, <2>3, OneRenameFrame
<1> QED BY <1>1, <1>2, <1>3, <1>4, RenameAlone, TrackAlone DEF LedgerNext

-----------------------------------------------------------------------------
(* How far each pass is *)

\* A step that moves no sidecar, and starts no pass of r.
LEMMA PassedFrame ==
    ASSUME Control, NEW r \in Runners, PassedOver(r), run'[r] = run[r],
           \A p \in DOMAIN Job(r).move : Job(r).kind \in Kinds =>
              side'[Job(r).kind][p] = side[Job(r).kind][p],
           run[r].step = "unlink" => side' = side,
           displaced \subseteq displaced', dropped \subseteq dropped', refused' = refused,
           used'.faults = 0 => used.faults = 0,
           Job(r).gen \in DOMAIN ledger'.entries /\ run[r].step = "mark" => Job(r).gen \in DOMAIN ledger.entries
    PROVE  PassedOver(r)'
<1> DEFINE k == Job(r).kind
           m == Job(r).move
<1>0. CASE run[r].step \notin {"items", "unlink", "mark"}
  BY <1>0 DEF PassedOver
<1> SUFFICES ASSUME run[r].step \in {"items", "unlink", "mark"}
             PROVE  PassedOver(r)'
  BY <1>0
<1>1. run[r].step \in AtWork
  BY DEF AtWork, Moving
<1>2. k \in Kinds
  BY <1>1, AtHand DEF Control
<1>3. \A p \in DOMAIN m : side'[k][p] = side[k][p]
  BY <1>2
<1>4. Job(r)' = Job(r) /\ run[r].failed \in BOOLEAN
  BY RunOf DEF Job, Control
<1>5. \A p \in DOMAIN m, b \in BOOLEAN : Left(k, p, b) => Left(k, p, b)'
  BY <1>3, <1>4 DEF Left
<1>6. run[r].step \in {"items", "unlink"} =>
           \A p \in DOMAIN m \ (run[r].todo \cup run[r].item) : Left(k, p, run[r].failed)'
  BY <1>4, <1>5 DEF PassedOver
<1>7. run[r].step = "unlink" =>
           \A p \in run[r].item : \A d \in side'[k][p] : d \in side'[k][m[p]] \/ <<k, d>> \in displaced'
  BY DEF PassedOver
<1>8. run[r].step = "mark" /\ r # Reconcile => \A p \in DOMAIN m : Left(k, p, run[r].failed)'
  BY <1>4, <1>5 DEF PassedOver
<1>9. run[r].step = "mark" /\ Job(r).gen \in DOMAIN ledger'.entries /\ ~run[r].failed =>
           \A p \in DOMAIN m : side'[k][p] \subseteq dropped'
  BY <1>3 DEF PassedOver
<1> QED BY <1>4, <1>6, <1>7, <1>8, <1>9 DEF PassedOver, Left

\* A worker that has no pass under way has nothing to vouch for.
LEMMA NoPass ==
    ASSUME NEW r, run'[r].step \notin {"items", "unlink", "mark"}
    PROVE  PassedOver(r)'
BY DEF PassedOver

\* Calls that fail are counted.
LEMMA Counted ==
    ASSUME Control, used' = used \/ SidecarCallFails
    PROVE  used'.faults = 0 => used.faults = 0 /\ ~SidecarCallFails
<1>1. ASSUME SidecarCallFails PROVE used'.faults # 0
  BY <1>1 DEF SidecarCallFails, Control, LedgerTypeOK
<1> QED BY <1>1

LEMMA ScanPasses ==
    ASSUME Control, AllPassedOver, NEW r \in Runners, Scan(r)
    PROVE  AllPassedOver'
<1>1. /\ UNCHANGED <<place, side, ledger, holder, dropped, displaced, shelved, refused, calm>>
      /\ used' = used \/ SidecarCallFails
      /\ run[r].step = "scan" /\ run[r].step \in AtWork
  BY DEF Scan, AtWork, Moving
<1>2. used'.faults = 0 => used.faults = 0 /\ ~SidecarCallFails
  BY <1>1, Counted
<1>3. \A q \in Runners \ {r} : PassedOver(q)'
  BY <1>1, <1>2, ScanControl, PassedFrame DEF AllPassedOver
<1>4. PassedOver(r)'
  <2> DEFINE k == Job(r).kind
             m == Job(r).move
  <2>1. /\ run'[r].step = "items" /\ Job(r)' = Job(r)
        /\ \/ /\ run'[r].todo = {p \in DOMAIN m : side[k][p] # {}}
              /\ run'[r].failed = run[r].failed /\ used' = used
           \/ run'[r].failed /\ SidecarCallFails
    BY ScanControl DEF Job
  <2>2. \A p \in DOMAIN m \ (run'[r].todo \cup run'[r].item) :
          /\ used'.faults = 0 => side[k][p] = {}
          /\ ~run'[r].failed => side[k][p] = {}
    BY <1>2, <2>1
  <2>3. \A p \in DOMAIN m \ (run'[r].todo \cup run'[r].item) :
          /\ used'.faults = 0 => side'[k][p] = {} \/ side'[k][p] \cap refused' # {}
          /\ ~run'[r].failed => side'[k][p] \subseteq dropped'
    BY <1>1, <2>2
  <2> QED BY <2>1, <2>3 DEF PassedOver, Left
<1> QED BY <1>3, <1>4 DEF AllPassedOver

LEMMA WritePasses ==
    ASSUME Control, AllPassedOver, HastyWorld, OneRename,
           NEW r \in Runners, NEW p \in Paths, WriteSidecar(r, p)
    PROVE  AllPassedOver'
<1> DEFINE k == Job(r).kind
           m == Job(r).move
           to == m[p]
<1>1. /\ UNCHANGED <<place, ledger, holder, shelved, refused, calm>>
      /\ run[r].step = "items" /\ run[r].step \in AtWork /\ run[r].step \in Moving
      /\ used' = used \/ SidecarCallFails
  BY DEF WriteSidecar, AtWork, Moving, SaveAtNewPath, SaveFails
<1>2. used'.faults = 0 => used.faults = 0 /\ ~SidecarCallFails
  BY <1>1, Counted
<1>3. /\ p \in run[r].todo /\ run[r].item = {} /\ p \in DOMAIN m
      /\ Job(r)' = Job(r) /\ run'[r].todo = run[r].todo \ {p}
      /\ \A q \in Runners \ {r} : run'[q] = run[q]
      /\ \/ /\ SaveAtNewPath(r, p) /\ run'[r].step = "unlink" /\ run'[r].item = {p}
            /\ run'[r].failed = run[r].failed
         \/ /\ SaveFails(r, p) /\ run'[r].step = "items" /\ run'[r].item = {} /\ run'[r].failed
            /\ UNCHANGED <<side, dropped, displaced>>
  BY WriteControl DEF Job
<1>4. /\ k \in Kinds /\ to \in Paths /\ to \notin DOMAIN m /\ DOMAIN m \subseteq Paths
      /\ m \in Moves
  BY <1>1, <1>3, AtHand DEF Control
<1>5. /\ \A l \in Kinds, x \in Paths : l # k \/ x # to => side'[l][x] = side[l][x]
      /\ dropped \subseteq dropped'
      /\ SaveAtNewPath(r, p) =>
           \A d \in side'[k][p] : d \in side'[k][to] \/ <<k, d>> \in displaced'
  <2>1. CASE SaveAtNewPath(r, p)
    BY <1>1, <1>3, <2>1, SaveMerges DEF Control
  <2>2. CASE ~SaveAtNewPath(r, p)
    BY <1>3, <2>2
  <2> QED BY <2>1, <2>2
<1>6. \A x \in DOMAIN m : side'[k][x] = side[k][x]
  BY <1>4, <1>5
<1>7. PassedOver(r)'
  <2>1. \A x \in DOMAIN m \ run[r].todo : Left(k, x, run[r].failed)
    BY <1>1, <1>3 DEF AllPassedOver, PassedOver
  <2>2. \A x \in DOMAIN m \ run[r].todo :
          /\ used'.faults = 0 => side'[k][x] = {} \/ side'[k][x] \cap refused # {}
          /\ ~run[r].failed => side'[k][x] \subseteq dropped'
    BY <1>2, <1>5, <1>6, <2>1 DEF Left
  <2>3. \A x \in DOMAIN m \ (run'[r].todo \cup run'[r].item) :
          /\ used'.faults = 0 => side'[k][x] = {} \/ side'[k][x] \cap refused' # {}
          /\ ~run'[r].failed => side'[k][x] \subseteq dropped'
    <3> SUFFICES ASSUME NEW x \in DOMAIN m \ (run'[r].todo \cup run'[r].item)
                 PROVE  /\ used'.faults = 0 => side'[k][x] = {} \/ side'[k][x] \cap refused' # {}
                        /\ ~run'[r].failed => side'[k][x] \subseteq dropped'
      OBVIOUS
    <3>1. CASE x # p
      BY <1>1, <1>3, <2>2, <3>1
    <3>2. CASE x = p
      <4>1. SaveFails(r, p) /\ run'[r].failed
        BY <1>3, <3>2
      <4> QED BY <1>1, <1>2, <1>6, <3>2, <4>1 DEF SaveFails
    <3> QED BY <3>1, <3>2
  <2>4. run'[r].step = "unlink" =>
           \A x \in run'[r].item : \A d \in side'[k][x] : d \in side'[k][m[x]] \/ <<k, d>> \in displaced'
    BY <1>3, <1>5
  <2>5. run'[r].step # "mark"
    BY <1>3
  <2> QED BY <1>3, <2>3, <2>4, <2>5 DEF PassedOver, Left
<1>8. \A q \in Runners \ {r} : PassedOver(q)'
  <2> SUFFICES ASSUME NEW q \in Runners \ {r}
               PROVE  PassedOver(q)'
    OBVIOUS
  <2>1. run'[q] = run[q] /\ Job(q)' = Job(q)
    BY <1>3 DEF Job
  <2>2. holder = r /\ run[q].step \notin Moving /\ (run[q].step = "mark" => q = Reconcile)
    BY <1>1, Alone DEF Control, LockHeld
  <2>3. CASE run[q].step # "mark"
    BY <2>1, <2>2, <2>3, NoPass DEF Moving
  <2>4. CASE run[q].step = "mark"
    <3>1. q = Reconcile /\ calm /\ r \in Workers /\ run[q].step \in AtWork
      BY <2>2, <2>4 DEF HastyWorld, Runners, AtWork
    <3>2. ASSUME Job(q).gen \in DOMAIN ledger.entries, ~run[q].failed, NEW x \in DOMAIN Job(q).move
          PROVE  side'[Job(q).kind][x] \subseteq dropped'
      <4>1. ledger.entries[Job(q).gen].move = Job(q).move
        BY <3>1, <3>2 DEF Control, JobsFit, JobsOf
      <4>2. m = Job(q).move
        BY <1>1, <3>1, <3>2, <4>1 DEF OneRename, Busy, AtWork, Moving
      <4>3. x # to /\ x \in Paths /\ Job(q).kind \in Kinds
        BY <1>4, <3>1, <3>2, <4>2, AtHand DEF Control
      <4>4. side'[Job(q).kind][x] = side[Job(q).kind][x]
        BY <1>5, <4>3
      <4>5. side[Job(q).kind][x] \subseteq dropped
        BY <2>4, <3>2 DEF AllPassedOver, PassedOver
      <4> QED BY <1>5, <4>4, <4>5
    <3> QED BY <1>1, <2>1, <2>4, <3>1, <3>2 DEF PassedOver
  <2> QED BY <2>3, <2>4
<1> QED BY <1>7, <1>8 DEF AllPassedOver

\* What cannot be read is no longer there, or was dropped.
LEMMA LoadPasses ==
    ASSUME Control, AllPassedOver, NEW r \in Runners, NEW p \in Paths, LoadFails(r, p)
    PROVE  AllPassedOver'
<1> DEFINE k == Job(r).kind
           m == Job(r).move
<1>1. /\ run[r].step = "items" /\ run'[r].step = "items" /\ Job(r)' = Job(r) /\ k \in Kinds
      /\ run[r].item = {} /\ run'[r].item = {} /\ run'[r].todo = run[r].todo \ {p}
      /\ run'[r].failed = run[r].failed /\ SidecarCallFails
      /\ \A q \in Runners \ {r} : run'[q] = run[q]
      /\ UNCHANGED <<ledger, holder, displaced, refused>> /\ dropped \subseteq dropped'
      /\ p \in run[r].todo => side'[k][p] \subseteq dropped'
  BY LoadControl DEF Job
<1>2. \A l \in Kinds, x \in Paths : side'[l][x] \subseteq side[l][x]
  BY LoadControl
<1>3. run[r].step \in AtWork /\ run[r].step \in Moving /\ used'.faults # 0
  <2>1. used'.faults # 0
    BY <1>1 DEF SidecarCallFails, Control, LedgerTypeOK
  <2> QED BY <1>1, <2>1 DEF AtWork, Moving
<1>4. DOMAIN m \subseteq Paths
  BY <1>3, AtHand DEF Control
<1>5. PassedOver(r)'
  <2>1. \A x \in DOMAIN m \ run[r].todo : Left(k, x, run[r].failed)
    BY <1>1 DEF AllPassedOver, PassedOver
  <2>2. \A x \in DOMAIN m \ (run'[r].todo \cup run'[r].item) :
          ~run'[r].failed => side'[k][x] \subseteq dropped'
    <3> SUFFICES ASSUME NEW x \in DOMAIN m \ (run'[r].todo \cup run'[r].item), ~run[r].failed
                 PROVE  side'[k][x] \subseteq dropped'
      BY <1>1
    <3>1. CASE x \in run[r].todo
      BY <1>1, <3>1
    <3>2. CASE x \notin run[r].todo
      BY <1>1, <1>2, <1>4, <2>1, <3>2 DEF Left
    <3> QED BY <3>1, <3>2
  <2> QED BY <1>1, <1>3, <2>2 DEF PassedOver, Left
<1>6. \A q \in Runners \ {r} : PassedOver(q)'
  <2> SUFFICES ASSUME NEW q \in Runners \ {r}
               PROVE  PassedOver(q)'
    OBVIOUS
  <2>1. run'[q] = run[q] /\ Job(q)' = Job(q)
    BY <1>1 DEF Job
  <2>2. run[q].step \notin Moving /\ (run[q].step = "mark" => q = Reconcile)
    BY <1>3, Alone DEF Control, LockHeld
  <2>3. CASE run[q].step # "mark"
    BY <2>1, <2>2, <2>3, NoPass DEF Moving
  <2>4. CASE run[q].step = "mark"
    <3>1. Job(q).kind \in Kinds /\ DOMAIN Job(q).move \subseteq Paths /\ q = Reconcile
      BY <2>2, <2>4, AtHand DEF Control, AtWork
    <3>2. Job(q).gen \in DOMAIN ledger.entries /\ ~run[q].failed =>
            \A x \in DOMAIN Job(q).move : side[Job(q).kind][x] \subseteq dropped
      BY <2>4 DEF AllPassedOver, PassedOver
    <3>3. Job(q).gen \in DOMAIN ledger.entries /\ ~run[q].failed =>
            \A x \in DOMAIN Job(q).move : side'[Job(q).kind][x] \subseteq dropped'
      BY <1>1, <1>2, <3>1, <3>2
    <3> QED BY <1>1, <2>1, <2>4, <3>1, <3>3 DEF PassedOver
  <2> QED BY <2>3, <2>4
<1> QED BY <1>5, <1>6 DEF AllPassedOver

LEMMA UnlinkPasses ==
    ASSUME Control, AllPassedOver, NEW r \in Runners, UnlinkSidecar(r)
    PROVE  AllPassedOver'
<1> DEFINE k == Job(r).kind
           m == Job(r).move
<1>1. /\ UNCHANGED <<place, ledger, holder, dropped, displaced, shelved, refused, calm>>
      /\ run[r].step = "unlink" /\ run[r].step \in AtWork /\ run[r].step \in Moving
      /\ used' = used \/ SidecarCallFails
  BY DEF UnlinkSidecar, AtWork, Moving
<1>2. used'.faults = 0 => used.faults = 0 /\ ~SidecarCallFails
  BY <1>1, Counted
<1>3. /\ run'[r].step = "items" /\ Job(r)' = Job(r) /\ run'[r].todo = run[r].todo
      /\ \A q \in Runners \ {r} : run'[q] = run[q]
      /\ \/ /\ \A l \in Kinds, x \in Paths :
                 side'[l][x] = IF l = k /\ x \in run[r].item THEN {} ELSE side[l][x]
            /\ run'[r].failed = run[r].failed /\ used' = used
         \/ side' = side /\ run'[r].failed /\ SidecarCallFails
  BY UnlinkControl DEF Job
<1>4. /\ k \in Kinds /\ DOMAIN m \subseteq Paths
  BY <1>1, AtHand DEF Control
<1>5. \A l \in Kinds, x \in Paths : side'[l][x] = side[l][x] \/ side'[l][x] = {}
  BY <1>3
<1>6. PassedOver(r)'
  <2>1. \A x \in DOMAIN m \ (run[r].todo \cup run[r].item) : Left(k, x, run[r].failed)
    BY <1>1 DEF AllPassedOver, PassedOver
  <2>2. \A x \in DOMAIN m \ (run'[r].todo \cup run'[r].item) :
          /\ used'.faults = 0 => side'[k][x] = {} \/ side'[k][x] \cap refused' # {}
          /\ ~run'[r].failed => side'[k][x] \subseteq dropped'
    <3>1. CASE SidecarCallFails /\ run'[r].failed
      BY <1>2, <3>1
    <3>2. CASE /\ \A l \in Kinds, x \in Paths :
                 side'[l][x] = IF l = k /\ x \in run[r].item THEN {} ELSE side[l][x]
               /\ run'[r].failed = run[r].failed /\ used' = used
      <4> SUFFICES ASSUME NEW x \in DOMAIN m, x \notin run[r].todo
                   PROVE  /\ used'.faults = 0 => side'[k][x] = {} \/ side'[k][x] \cap refused' # {}
                          /\ ~run'[r].failed => side'[k][x] \subseteq dropped'
        BY <1>3
      <4>1. CASE x \in run[r].item
        BY <1>4, <3>2, <4>1
      <4>2. CASE x \notin run[r].item
        BY <1>1, <1>4, <2>1, <3>2, <4>2 DEF Left
      <4> QED BY <4>1, <4>2
    <3> QED BY <1>3, <3>1, <3>2
  <2> QED BY <1>3, <2>2 DEF PassedOver, Left
<1>7. \A q \in Runners \ {r} : PassedOver(q)'
  <2> SUFFICES ASSUME NEW q \in Runners \ {r}
               PROVE  PassedOver(q)'
    OBVIOUS
  <2>1. run'[q] = run[q] /\ Job(q)' = Job(q)
    BY <1>3 DEF Job
  <2>2. holder = r /\ run[q].step \notin Moving /\ (run[q].step = "mark" => q = Reconcile)
    BY <1>1, Alone DEF Control, LockHeld
  <2>3. CASE run[q].step # "mark"
    BY <2>1, <2>2, <2>3, NoPass DEF Moving
  <2>4. CASE run[q].step = "mark"
    <3>1. Job(q).kind \in Kinds /\ DOMAIN Job(q).move \subseteq Paths /\ q = Reconcile
      BY <2>2, <2>4, AtHand DEF Control, AtWork
    <3>2. Job(q).gen \in DOMAIN ledger.entries /\ ~run[q].failed =>
            \A x \in DOMAIN Job(q).move : side[Job(q).kind][x] \subseteq dropped
      BY <2>4 DEF AllPassedOver, PassedOver
    <3>3. Job(q).gen \in DOMAIN ledger.entries /\ ~run[q].failed =>
            \A x \in DOMAIN Job(q).move : side'[Job(q).kind][x] \subseteq dropped
      BY <1>5, <3>1, <3>2
    <3> QED BY <1>1, <2>1, <2>4, <3>1, <3>3 DEF PassedOver
  <2> QED BY <2>3, <2>4
<1> QED BY <1>6, <1>7 DEF AllPassedOver

LEMMA EndPasses ==
    ASSUME Control, AllPassedOver, NEW r \in Runners, EndKind(r)
    PROVE  AllPassedOver'
<1>1. UNCHANGED <<place, side, ledger, used, dropped, displaced, shelved, refused, calm>>
  BY DEF EndKind
<1>2. \A q \in Runners \ {r} : PassedOver(q)'
  BY <1>1, EndControl, PassedFrame DEF AllPassedOver
<1>3. PassedOver(r)'
  <2>1. /\ run[r].todo = {} /\ run[r].item = {} /\ run[r].step = "items"
        /\ run'[r].step = "mark" /\ Job(r)' = Job(r) /\ run'[r].failed = run[r].failed
    BY EndControl DEF Job
  <2>2. \A p \in DOMAIN Job(r).move : Left(Job(r).kind, p, run[r].failed)
    BY <2>1 DEF AllPassedOver, PassedOver
  <2> QED BY <1>1, <2>1, <2>2 DEF PassedOver, Left
<1> QED BY <1>2, <1>3 DEF AllPassedOver

LEMMA MarkPasses ==
    ASSUME Control, AllPassedOver, NEW r \in Runners, Mark(r)
    PROVE  AllPassedOver'
<1>1. /\ UNCHANGED <<place, side, dropped, displaced, shelved, refused, calm>>
      /\ used'.faults = 0 => used.faults = 0
      /\ DOMAIN ledger'.entries \subseteq DOMAIN ledger.entries
  BY MarkControl, Counted DEF Mark
<1>2. \A q \in Runners \ {r} : PassedOver(q)'
  BY <1>1, MarkControl, PassedFrame DEF AllPassedOver
<1>3. PassedOver(r)'
  BY MarkControl, NoPass
<1> QED BY <1>2, <1>3 DEF AllPassedOver

LEMMA TrackPasses ==
    ASSUME Control, AllPassedOver, NEW w \in Workers, Track(w)
    PROVE  AllPassedOver'
<1> DEFINE m     == Job(w).move
           kinds == ToSet(KindsOf[w[2]])
           gen   == RecordAs(m)
<1> w \in Runners /\ w # Reconcile
  BY Apart DEF Runners
<1>1. /\ UNCHANGED <<place, side, displaced, shelved, refused, calm>> /\ run[w].step = "wait"
      /\ dropped \subseteq dropped'
      /\ used' = used \/ SidecarCallFails
  BY DEF Track
<1>2. used'.faults = 0 => used.faults = 0
  BY <1>1, Counted
<1>3. /\ \A q \in Runners \ {w} : run'[q] = run[q]
      /\ run'[w].step \in {"idle", "scan"}
  <2>1. ASSUME NEW jobs, TakeFirst(w, jobs)
        PROVE  (\A q \in Runners \ {w} : run'[q] = run[q]) /\ run'[w].step \in {"idle", "scan"}
    BY <2>1, Begun DEF Control, LedgerTypeOK
  <2>2. CASE run' = [run EXCEPT ![w] = NoWork]
    BY <2>2, NoWorkFields DEF Control, LedgerTypeOK
  <2> QED BY <2>1, <2>2 DEF Track
<1>4. \A q \in Runners \ {w} : run[q].step = "mark" /\ Job(q).gen \in DOMAIN ledger'.entries =>
                                 Job(q).gen \in DOMAIN ledger.entries
  <2>1. CASE UNCHANGED ledger
    BY <2>1
  <2>2. CASE ledger' = RecordPending(gen, m, kinds)
    <3>1. BookOK(ledger) /\ m \in Moves /\ kinds \in SUBSET Kinds
      <4>1. m \in Moves
        BY <1>1 DEF Control, LedgerTypeOK, Job
      <4>2. kinds \in SUBSET Kinds
        BY DEF Workers, KindsOf, Kinds
      <4> QED BY <4>1, <4>2, BookTyped DEF Control
    <3>2. /\ DOMAIN ledger'.entries \subseteq DOMAIN ledger.entries \cup {gen}
          /\ gen = ledger.next \/ gen \in DOMAIN ledger.entries
      BY <2>2, <3>1, AfterRecord
    <3>3. \A q \in Runners : run[q].step = "mark" => Job(q).gen \in Nat /\ Job(q).gen < ledger.next
      BY <3>1, AtHand DEF Control, AtWork, JobType, BookOK
    <3> HIDE DEF gen
    <3> QED BY <3>1, <3>2, <3>3 DEF BookOK
  <2> QED BY <2>1, <2>2 DEF Track
<1>5. \A q \in Runners \ {w} : PassedOver(q)'
  <2> SUFFICES ASSUME NEW q \in Runners \ {w}
               PROVE  PassedOver(q)'
    OBVIOUS
  <2>1. side' = side /\ refused' = refused /\ displaced \subseteq displaced' /\ dropped \subseteq dropped'
    BY <1>1
  <2>2. run'[q] = run[q] /\ PassedOver(q)
    BY <1>3 DEF AllPassedOver
  <2>3. Job(q).gen \in DOMAIN ledger'.entries /\ run[q].step = "mark" => Job(q).gen \in DOMAIN ledger.entries
    BY <1>4
  <2> QED BY <1>2, <2>1, <2>2, <2>3, PassedFrame
<1>6. PassedOver(w)'
  BY <1>3, NoPass
<1> QED BY <1>5, <1>6 DEF AllPassedOver

\* Whatever happens, a pass vouches for the old paths it is through with.
LEMMA PassedKept ==
    ASSUME Control, AllPassedOver, HastyWorld, OneRename, [LedgerNext]_ledgerVars
    PROVE  AllPassedOver'
<1>1. CASE UNCHANGED ledgerVars
  BY <1>1 DEF ledgerVars, AllPassedOver, PassedOver, Left, Job
<1>2. ASSUME NEW m \in Moves, Rename(m)
      PROVE  AllPassedOver'
  <2>1. /\ UNCHANGED <<side, ledger, dropped, displaced, refused>> /\ used'.faults = used.faults
    BY <1>2 DEF Rename, Control, LedgerTypeOK
  <2>2. [NoWork EXCEPT !.step = "wait", !.job = [NoJob EXCEPT !.move = m]].step = "wait"
    BY DEF NoWork, NoJob
  <2>3. \A r \in Runners : run'[r] = run[r] \/ run'[r].step = "wait"
    BY <1>2, <2>2 DEF Rename
  <2> QED BY <2>1, <2>3, PassedFrame, NoPass DEF AllPassedOver
<1>3. CASE StartReconcile \/ Retry
  <2>1. /\ UNCHANGED <<place, side, ledger, used, dropped, displaced, shelved, refused, calm>>
        /\ \A q \in Runners \ {Reconcile} : run'[q] = run[q]
        /\ run'[Reconcile].step \in {"idle", "wait", "scan"}
    <3>1. CASE StartReconcile
      <4>1. [NoWork EXCEPT !.step = "wait", !.queue = Snapshot].step = "wait" /\ NoWork.step = "idle"
        BY DEF NoWork
      <4> QED BY <3>1, <4>1, Apart DEF StartReconcile, Control, LedgerTypeOK
    <3>2. CASE Retry
      BY <3>2, Begun, Apart DEF Retry, Control, LedgerTypeOK
    <3> QED BY <1>3, <3>1, <3>2
  <2> QED BY <2>1, PassedFrame, NoPass DEF AllPassedOver
<1>4. CASE Relaunch
  BY <1>4, RelaunchControl, NoPass DEF AllPassedOver
<1>5. ASSUME NEW r \in Runners, RunnerStep(r)
      PROVE  AllPassedOver'
  BY <1>5, ScanPasses, WritePasses, LoadPasses, UnlinkPasses, EndPasses, MarkPasses DEF RunnerStep
<1> QED BY <1>1, <1>2, <1>3, <1>4, <1>5, TrackPasses DEF LedgerNext

-----------------------------------------------------------------------------
(* What has not arrived is owed *)

\* A step that moves no sidecar and forgets nothing that is pending.
LEMMA PendingFrame ==
    ASSUME AllPending, calm' = calm, place' = place,
           dropped \subseteq dropped', displaced \subseteq displaced',
           \A k \in Kinds, p \in Paths : side'[k][p] \subseteq side[k][p],
           \A d \in Docs \ dropped', k \in Kinds, p \in Paths :
             d \in side[k][p] /\ Pending(k, p, place[d]) => Pending(k, p, place[d])'
    PROVE  AllPending'
<1> SUFFICES ASSUME calm, NEW d \in Docs \ dropped', NEW k \in Kinds, <<k, d>> \notin displaced',
                    NEW p \in Paths, d \in side'[k][p]
             PROVE  p = place'[d] \/ Pending(k, p, place[d])'
  BY DEF AllPending, At
<1>1. d \in side[k][p] /\ d \in Docs \ dropped /\ <<k, d>> \notin displaced
  OBVIOUS
<1>2. p = place[d] \/ Pending(k, p, place[d])
  BY <1>1 DEF AllPending, At
<1> QED BY <1>1, <1>2

\* As above, when the entries and the renames that wait stay as they are.
LEMMA SamePending ==
    ASSUME ledger' = ledger,
           \A w \in Workers : run[w].step = "wait" => run'[w] = run[w]
    PROVE  \A k, p, q : Pending(k, p, q) => Pending(k, p, q)'
BY DEF Pending, Job

LEMMA RenamePending ==
    ASSUME Control, AllPending, NEW m \in Moves, Rename(m)
    PROVE  AllPending'
<1> DEFINE n == used.renames + 1
<1> SUFFICES ASSUME calm, NEW d \in Docs \ dropped, NEW k \in Kinds, <<k, d>> \notin displaced,
                    NEW p \in Paths, d \in side[k][p]
             PROVE  p = place'[d] \/ Pending(k, p, place[d])'
  BY DEF AllPending, At, Rename
<1>1. DOMAIN ledger.entries = {} /\ \A w \in Workers : run[w].step = "idle"
  BY DEF Rename
<1>2. p = place[d]
  BY <1>1 DEF AllPending, At, Pending
<1>3. place'[d] = IF place[d] \in DOMAIN m THEN m[place[d]] ELSE place[d]
  BY DEF Rename
<1>4. CASE place[d] \in DOMAIN m
  <2>1. PICK part \in {"notes", "history"} : k \in ToSet(KindsOf[part])
    BY DEF Kinds, KindsOf
  <2>2. KindsOf[part] # <<>>
    BY <2>1 DEF ToSet
  <2>3. <<n, part>> \in Workers /\ <<n, part>> \in Runners
    BY LedgerAssumption DEF Workers, Runners, Rename, Control, LedgerTypeOK
  <2>4. /\ [NoWork EXCEPT !.step = "wait", !.job = [NoJob EXCEPT !.move = m]].job.move = m
        /\ [NoWork EXCEPT !.step = "wait", !.job = [NoJob EXCEPT !.move = m]].step = "wait"
    BY DEF NoWork, NoJob
  <2>5. run'[<<n, part>>].step = "wait" /\ run'[<<n, part>>].job.move = m
    BY <2>2, <2>3, <2>4 DEF Rename
  <2>6. <<n, part>>[2] = part
    OBVIOUS
  <2> QED BY <1>2, <1>3, <1>4, <2>1, <2>3, <2>5, <2>6 DEF Pending, Job
<1> QED BY <1>2, <1>3, <1>4

LEMMA TrackPending ==
    ASSUME Control, OneRename, AllPending, NEW w \in Workers, Track(w)
    PROVE  AllPending'
<1> DEFINE m     == Job(w).move
           kinds == ToSet(KindsOf[w[2]])
           gen   == RecordAs(m)
<1> SUFFICES ASSUME calm PROVE AllPending'
  BY DEF AllPending, Track
<1> w \in Runners /\ w # Reconcile
  BY Apart DEF Runners
<1>1. /\ UNCHANGED <<place, side, displaced, shelved, refused, calm>> /\ run[w].step = "wait"
      /\ dropped \subseteq dropped'
  BY DEF Track
<1>2. BookOK(ledger) /\ m \in Moves /\ kinds \in SUBSET Kinds
  <2>1. m \in Moves
    BY <1>1 DEF Control, LedgerTypeOK, Job
  <2>2. kinds \in SUBSET Kinds
    BY DEF Workers, KindsOf, Kinds
  <2> QED BY <2>1, <2>2, BookTyped DEF Control
<1>3. \A q \in Workers \ {w} : run'[q] = run[q]
  <2>1. ASSUME NEW jobs, TakeFirst(w, jobs)
        PROVE  \A q \in Runners \ {w} : run'[q] = run[q]
    BY <2>1, Begun DEF Control, LedgerTypeOK
  <2>2. CASE run' = [run EXCEPT ![w] = NoWork]
    BY <2>2 DEF Control, LedgerTypeOK, Runners
  <2> QED BY <2>1, <2>2 DEF Track, Runners
<1> SUFFICES ASSUME NEW d \in Docs \ dropped', NEW k \in Kinds, NEW p \in Paths,
                    d \in side[k][p], Pending(k, p, place[d])
             PROVE  Pending(k, p, place[d])'
  BY <1>1, PendingFrame
<1>4. CASE \E q \in Workers \ {w} :
             /\ run[q].step = "wait" /\ k \in ToSet(KindsOf[q[2]])
             /\ p \in DOMAIN Job(q).move /\ Job(q).move[p] = place[d]
  BY <1>1, <1>3, <1>4 DEF Pending, Job
<1>5. CASE k \in kinds /\ p \in DOMAIN m /\ m[p] = place[d]
  <2>1. d \in MovedBy(m)
    BY <1>5 DEF MovedBy
  <2>2. CASE dropped' = dropped \cup MovedBy(m)
    BY <2>1, <2>2
  <2>3. CASE ledger' = RecordPending(gen, m, kinds)
    <3>1. /\ gen \in DOMAIN ledger'.entries /\ ledger'.entries[gen].move = m
          /\ k \in DOMAIN ledger'.entries[gen].kinds
          /\ \/ ~ledger'.entries[gen].kinds[k].done
             \/ gen \in DOMAIN ledger.entries /\ k \in DOMAIN ledger.entries[gen].kinds
      BY <1>2, <1>5, <2>3, AfterRecord
    <3>2. gen \in DOMAIN ledger.entries => k \notin DOMAIN ledger.entries[gen].kinds
      BY <1>1, <1>5 DEF OneRename, Busy
    <3>3. ~ledger'.entries[gen].kinds[k].done
      BY <3>1, <3>2
    <3> HIDE DEF gen
    <3>4. \E g \in DOMAIN ledger'.entries :
            /\ k \in DOMAIN ledger'.entries[g].kinds /\ ~ledger'.entries[g].kinds[k].done
            /\ p \in DOMAIN ledger'.entries[g].move /\ ledger'.entries[g].move[p] = place'[d]
      BY <1>1, <1>5, <3>1, <3>3
    <3> QED BY <1>1, <3>4 DEF Pending
  <2> QED BY <2>2, <2>3 DEF Track
<1>6. CASE \E g \in DOMAIN ledger.entries :
       LET e == ledger.entries[g]
       IN  /\ k \in DOMAIN e.kinds /\ ~e.kinds[k].done
           /\ p \in DOMAIN e.move /\ e.move[p] = place[d]
  <2>1. PICK g \in DOMAIN ledger.entries :
           /\ k \in DOMAIN ledger.entries[g].kinds /\ ~ledger.entries[g].kinds[k].done
           /\ p \in DOMAIN ledger.entries[g].move /\ ledger.entries[g].move[p] = place[d]
    BY <1>6
  <2>2. CASE UNCHANGED ledger
    BY <1>1, <2>1, <2>2 DEF Pending
  <2>3. CASE ledger' = RecordPending(gen, m, kinds)
    <3>1. ~IsComplete(ledger.entries[g])
      BY <2>1 DEF IsComplete
    <3>2. /\ g \in DOMAIN ledger'.entries
          /\ ledger'.entries[g].move = ledger.entries[g].move
          /\ k \in DOMAIN ledger'.entries[g].kinds
          /\ ledger'.entries[g].kinds[k] = ledger.entries[g].kinds[k]
      BY <1>2, <2>1, <2>3, <3>1, AfterRecord
    <3> QED BY <1>1, <2>1, <3>2 DEF Pending
  <2> QED BY <2>2, <2>3 DEF Track
<1> QED BY <1>4, <1>5, <1>6 DEF Pending

LEMMA WritePending ==
    ASSUME Control, AllPassedOver, OneRename, AllPending,
           NEW r \in Runners, NEW p \in Paths, WriteSidecar(r, p)
    PROVE  AllPending'
<1> DEFINE k == Job(r).kind
           m == Job(r).move
           to == m[p]
<1> SUFFICES ASSUME calm PROVE AllPending'
  BY DEF AllPending, WriteSidecar
<1>1. /\ UNCHANGED <<place, ledger, holder, shelved, refused, calm>>
      /\ run[r].step = "items" /\ run[r].step \in AtWork
  BY DEF WriteSidecar, AtWork, Moving
<1>2. \A w \in Workers : run[w].step = "wait" => run'[w] = run[w]
  BY <1>1, WriteControl DEF Runners
<1>3. \A l, x, y : Pending(l, x, y) => Pending(l, x, y)'
  BY <1>1, <1>2, SamePending
<1>4. CASE ~SaveAtNewPath(r, p)
  <2>1. side' = side /\ displaced' = displaced /\ dropped \subseteq dropped'
    BY <1>4, WriteControl
  <2> QED BY <1>1, <1>3, <2>1, PendingFrame
<1>5. CASE SaveAtNewPath(r, p)
  <2>1. /\ p \in run[r].todo /\ p \in DOMAIN m
    BY WriteControl
  <2>2. /\ k \in Kinds /\ to \in Paths
        /\ \A l \in Kinds, x \in Paths : l # k \/ x # to => side'[l][x] = side[l][x]
        /\ side'[k][to] \subseteq side[k][p] \cup side[k][to]
        /\ displaced \subseteq displaced'
        /\ dropped' = IF Job(r).gen \notin DOMAIN ledger.entries
                      THEN dropped \cup side[k][p] ELSE dropped
    BY <1>1, <1>5, <2>1, SaveMerges DEF Control
  <2> SUFFICES ASSUME NEW d \in Docs \ dropped', NEW l \in Kinds, <<l, d>> \notin displaced',
                      NEW x \in Paths, d \in side'[l][x]
               PROVE  x = place[d] \/ Pending(l, x, place[d])
    BY <1>1, <1>3 DEF AllPending, At
  <2>3. CASE d \in side[l][x]
    BY <2>2, <2>3 DEF AllPending, At
  <2>4. CASE d \notin side[l][x]
    <3>1. l = k /\ x = to /\ d \in side[k][p] /\ Job(r).gen \in DOMAIN ledger.entries
      BY <2>2, <2>4
    <3>2. ledger.entries[Job(r).gen].move = m
      BY <1>1, <3>1 DEF Control, JobsFit, JobsOf
    <3>3. p # place[d]
      BY <2>1, <3>1, <3>2 DEF OneRename
    <3>4. Pending(k, p, place[d])
      BY <2>2, <3>1, <3>3 DEF AllPending, At
    <3>5. ASSUME NEW g \in DOMAIN ledger.entries, p \in DOMAIN ledger.entries[g].move,
                 ledger.entries[g].move[p] = place[d]
          PROVE  to = place[d]
      <4>1. g = Job(r).gen
        BY <3>1, <3>5 DEF OneRename
      <4> QED BY <3>2, <3>5, <4>1
    <3>6. ASSUME NEW w \in Workers, run[w].step = "wait", Job(w).move[p] = place[d]
          PROVE  to = place[d]
      <4>1. Job(w).move = m
        BY <3>1, <3>2, <3>6 DEF OneRename, Busy
      <4> QED BY <3>6, <4>1
    <3>7. to = place[d]
      BY <3>4, <3>5, <3>6 DEF Pending
    <3> QED BY <3>1, <3>7
  <2> QED BY <2>3, <2>4
<1> QED BY <1>4, <1>5

LEMMA MarkPending ==
    ASSUME Control, AllPassedOver, OneRename, AllPending, NEW r \in Runners, Mark(r)
    PROVE  AllPending'
<1> DEFINE m == Job(r).move
<1> SUFFICES ASSUME calm PROVE AllPending'
  BY DEF AllPending, Mark
<1>1. /\ UNCHANGED <<place, side, dropped, displaced, shelved, refused, calm>>
      /\ run[r].step = "mark" /\ run[r].step \in AtWork
  BY DEF Mark, AtWork
<1>2. \A w \in Workers : run[w].step = "wait" => run'[w] = run[w]
  BY <1>1, MarkControl DEF Runners
<1>3. /\ \A g \in DOMAIN ledger'.entries : ledger'.entries[g].move = ledger.entries[g].move
      /\ \A g \in DOMAIN ledger'.entries : DOMAIN ledger'.entries[g].kinds = DOMAIN ledger.entries[g].kinds
      /\ \A g \in DOMAIN ledger.entries : \A k \in DOMAIN ledger.entries[g].kinds :
           ~ledger.entries[g].kinds[k].done =>
             \/ g \in DOMAIN ledger'.entries /\ ~ledger'.entries[g].kinds[k].done
             \/ ~run[r].failed /\ g = Job(r).gen /\ k = Job(r).kind
  BY MarkControl
<1> SUFFICES ASSUME NEW d \in Docs \ dropped', NEW k \in Kinds, NEW p \in Paths,
                    d \in side[k][p], Pending(k, p, place[d])
             PROVE  Pending(k, p, place[d])'
  BY <1>1, PendingFrame
<1>4. CASE \E w \in Workers :
             /\ run[w].step = "wait" /\ k \in ToSet(KindsOf[w[2]])
             /\ p \in DOMAIN Job(w).move /\ Job(w).move[p] = place[d]
  BY <1>1, <1>2, <1>4 DEF Pending, Job
<1>5. CASE \E g \in DOMAIN ledger.entries :
             /\ k \in DOMAIN ledger.entries[g].kinds /\ ~ledger.entries[g].kinds[k].done
             /\ p \in DOMAIN ledger.entries[g].move /\ ledger.entries[g].move[p] = place[d]
  <2>1. PICK g \in DOMAIN ledger.entries :
             /\ k \in DOMAIN ledger.entries[g].kinds /\ ~ledger.entries[g].kinds[k].done
             /\ p \in DOMAIN ledger.entries[g].move /\ ledger.entries[g].move[p] = place[d]
    BY <1>5
  <2>2. CASE g \in DOMAIN ledger'.entries /\ ~ledger'.entries[g].kinds[k].done
    BY <1>1, <1>3, <2>1, <2>2 DEF Pending
  <2>3. CASE ~run[r].failed /\ g = Job(r).gen /\ k = Job(r).kind
    <3>1. ledger.entries[g].move = m
      BY <1>1, <2>1, <2>3 DEF Control, JobsFit, JobsOf
    <3>2. side[k][p] \subseteq dropped
      BY <1>1, <2>1, <2>3, <3>1 DEF AllPassedOver, PassedOver
    <3> QED BY <1>1, <3>2
  <2> QED BY <1>3, <2>1, <2>2, <2>3
<1> QED BY <1>4, <1>5 DEF Pending

\* A sidecar that is not where its document is stays pending, or nobody can be
\* asked for it any more.
LEMMA PendingKept ==
    ASSUME Control, AllPassedOver, OneRename, AllPending, [LedgerNext]_ledgerVars
    PROVE  AllPending'
<1>0. \A w \in Workers : w \in Runners /\ w # Reconcile
  BY Apart DEF Runners
<1>1. ASSUME /\ UNCHANGED <<place, ledger, dropped, displaced, calm>>
             /\ \A k \in Kinds, p \in Paths : side'[k][p] \subseteq side[k][p]
             /\ \A w \in Workers : run[w].step = "wait" => run'[w] = run[w]
      PROVE  AllPending'
  <2>1. /\ ledger' = ledger /\ calm' = calm /\ place' = place
        /\ dropped \subseteq dropped' /\ displaced \subseteq displaced'
    BY <1>1
  <2>2. \A k, p, q : Pending(k, p, q) => Pending(k, p, q)'
    BY <1>1, <2>1, SamePending
  <2> QED BY <1>1, <2>1, <2>2, PendingFrame
<1>2. CASE UNCHANGED ledgerVars
  BY <1>1, <1>2 DEF ledgerVars
<1>3. CASE StartReconcile \/ Retry
  <2>1. \A w \in Workers : run'[w] = run[w]
    BY <1>0, <1>3, Begun, Apart DEF StartReconcile, Retry, Control, LedgerTypeOK
  <2> QED BY <1>1, <1>3, <2>1 DEF StartReconcile, Retry
<1>4. CASE Relaunch
  <2>1. /\ UNCHANGED <<place, side, ledger, displaced, calm>> /\ calm
        /\ dropped' = dropped \cup UNION {MovedBy(Job(w).move) : w \in {v \in Workers : run[v].step = "wait"}}
    BY <1>4 DEF Relaunch
  <2>2. ASSUME NEW d \in Docs \ dropped', NEW w \in Workers, run[w].step = "wait",
               NEW p \in DOMAIN Job(w).move, Job(w).move[p] = place[d]
        PROVE  FALSE
    <3>1. d \in MovedBy(Job(w).move)
      BY <2>2 DEF MovedBy
    <3> QED BY <2>1, <2>2, <3>1
  <2>3. \A d \in Docs \ dropped', k \in Kinds, p \in Paths :
          Pending(k, p, place[d]) => Pending(k, p, place[d])'
    BY <2>1, <2>2 DEF Pending
  <2> QED BY <2>1, <2>3, PendingFrame
<1>5. ASSUME NEW r \in Runners, RunnerStep(r)
      PROVE  AllPending'
  <2>1. CASE Scan(r)
    <3>1. \A w \in Workers : run[w].step = "wait" => run'[w] = run[w]
      BY <1>0, <2>1, ScanControl DEF Scan
    <3> QED BY <1>1, <2>1, <3>1 DEF Scan
  <2>2. CASE UnlinkSidecar(r)
    <3>1. \A w \in Workers : run[w].step = "wait" => run'[w] = run[w]
      BY <1>0, <2>2, UnlinkControl DEF UnlinkSidecar
    <3>2. \A k \in Kinds, p \in Paths : side'[k][p] \subseteq side[k][p]
      BY <2>2, UnlinkControl
    <3> QED BY <1>1, <2>2, <3>1, <3>2 DEF UnlinkSidecar
  <2>3. CASE EndKind(r)
    <3>1. \A w \in Workers : run[w].step = "wait" => run'[w] = run[w]
      BY <1>0, <2>3, EndControl
    <3> QED BY <1>1, <2>3, <3>1 DEF EndKind
  <2>4. ASSUME NEW p \in Paths, LoadFails(r, p)
        PROVE  AllPending'
    <3>1. \A w \in Workers : run[w].step = "wait" => run'[w] = run[w]
      BY <1>0, <2>4, LoadControl
    <3>2. /\ \A k \in Kinds, x \in Paths : side'[k][x] \subseteq side[k][x]
          /\ UNCHANGED <<place, ledger, displaced, calm>> /\ dropped \subseteq dropped'
      BY <2>4, LoadControl
    <3>3. \A k, x, y : Pending(k, x, y) => Pending(k, x, y)'
      BY <3>1, <3>2, SamePending
    <3> QED BY <3>2, <3>3, PendingFrame
  <2> QED BY <1>5, <2>1, <2>2, <2>3, <2>4, WritePending, MarkPending DEF RunnerStep
<1> QED BY <1>2, <1>3, <1>4, <1>5, RenamePending, TrackPending DEF LedgerNext

-----------------------------------------------------------------------------
(* The kinds of a document stay together *)

LEMMA MovedTo ==
    ASSUME NEW m, NEW ps, NEW x
    PROVE  x \in Moved(m, ps) <=>
             \/ x \in ps /\ x \notin DOMAIN m
             \/ \E p \in ps \cap DOMAIN m : m[p] = x
BY DEF Moved

\* A sidecar that is at its new path may be at its old one, or not.
LEMMA MovedOnce ==
    ASSUME NEW m, NEW p \in DOMAIN m, m[p] \notin DOMAIN m,
           NEW ps, NEW qs, p \in ps, m[p] \in qs,
           qs \ {p, m[p]} = ps \ {p, m[p]}
    PROVE  Moved(m, qs) = Moved(m, ps)
<1>1. \A x : x \in Moved(m, qs) => x \in Moved(m, ps)
  <2> SUFFICES ASSUME NEW x, x \in Moved(m, qs) PROVE x \in Moved(m, ps)
    OBVIOUS
  <2>1. CASE x = m[p]
    BY <2>1, MovedTo
  <2>2. CASE x # m[p]
    <3>1. CASE x \in qs /\ x \notin DOMAIN m
      <4>1. x \in ps
        BY <2>2, <3>1
      <4> QED BY <3>1, <4>1, MovedTo
    <3>2. CASE \E y \in qs \cap DOMAIN m : m[y] = x
      <4>1. PICK y \in qs \cap DOMAIN m : m[y] = x
        BY <3>2
      <4>2. y # p /\ y # m[p]
        BY <2>2, <4>1
      <4>3. y \in ps
        BY <4>1, <4>2
      <4> QED BY <4>1, <4>3, MovedTo
    <3> QED BY <3>1, <3>2, MovedTo
  <2> QED BY <2>1, <2>2
<1>2. \A x : x \in Moved(m, ps) => x \in Moved(m, qs)
  <2> SUFFICES ASSUME NEW x, x \in Moved(m, ps) PROVE x \in Moved(m, qs)
    OBVIOUS
  <2>1. CASE x = m[p]
    BY <2>1, MovedTo
  <2>2. CASE x # m[p]
    <3>1. CASE x \in ps /\ x \notin DOMAIN m
      <4>1. x \in qs
        BY <2>2, <3>1
      <4> QED BY <3>1, <4>1, MovedTo
    <3>2. CASE \E y \in ps \cap DOMAIN m : m[y] = x
      <4>1. PICK y \in ps \cap DOMAIN m : m[y] = x
        BY <3>2
      <4>2. y # p /\ y # m[p]
        BY <2>2, <4>1
      <4>3. y \in qs
        BY <4>1, <4>2
      <4> QED BY <4>1, <4>3, MovedTo
    <3> QED BY <3>1, <3>2, MovedTo
  <2> QED BY <2>1, <2>2
<1> QED BY <1>1, <1>2

\* Nothing at an old path: what was moved is what is.
LEMMA MovedAll ==
    ASSUME NEW m, NEW ps, ps \cap DOMAIN m = {}
    PROVE  Moved(m, ps) = ps
<1>1. \A x : x \in Moved(m, ps) <=> x \in ps
  BY MovedTo
<1> QED BY <1>1

\* The two halves of KindsMeet.
Meet(m) ==
  \A d \in Docs : \A k1, k2 \in Unmoved(d) : Moved(m, At(k1, d)) = Moved(m, At(k2, d))
Cleared(w, m) ==
  \A k \in ToSet(NoteKinds) \ StillToMove(w) : \A p \in DOMAIN m : side[k][p] = {}
Level == \A d \in Docs : \A k1, k2 \in Unmoved(d) : At(k1, d) = At(k2, d)
Notes == holder \in Workers /\ holder[2] = "notes"

LEMMA KindsMeetHalves ==
    /\ KindsMeet <=> (~calm => IF Notes THEN Meet(Job(holder).move) /\ Cleared(holder, Job(holder).move)
                               ELSE Level)
    /\ KindsMeet' <=> (~calm' => IF Notes' THEN Meet(Job(holder).move)' /\ Cleared(holder, Job(holder).move)'
                                 ELSE Level')
BY DEF KindsMeet, Meet, Cleared, Level, Notes

\* A step that moves no sidecar of the notes worker's kinds, and leaves the
\* lock, the job at hand and the kinds still to move.
LEMMA MeetFrame ==
    ASSUME KindsMeet, calm' = calm, holder' = holder,
           \A k \in ToSet(NoteKinds), p \in Paths : side'[k][p] = side[k][p],
           \A k \in ToSet(NoteKinds), d \in Docs : <<k, d>> \in displaced' <=> <<k, d>> \in displaced,
           Notes => Job(holder)' = Job(holder) /\ StillToMove(holder)' = StillToMove(holder)
                    /\ DOMAIN Job(holder).move \subseteq Paths
    PROVE  KindsMeet'
<1> SUFFICES ASSUME ~calm
             PROVE  IF Notes' THEN Meet(Job(holder).move)' /\ Cleared(holder, Job(holder).move)' ELSE Level'
  BY KindsMeetHalves
<1>1. IF Notes THEN Meet(Job(holder).move) /\ Cleared(holder, Job(holder).move) ELSE Level
  BY KindsMeetHalves
<1>2. Notes' <=> Notes
  BY DEF Notes
<1>3. /\ \A d \in Docs : Unmoved(d)' = Unmoved(d) /\ Unmoved(d) \subseteq ToSet(NoteKinds)
      /\ \A k \in ToSet(NoteKinds), d \in Docs : At(k, d)' = At(k, d)
  BY DEF Unmoved, At
<1>4. CASE ~Notes
  BY <1>1, <1>2, <1>3, <1>4 DEF Level
<1>5. CASE Notes
  <2>1. \A d \in Docs : \A k1, k2 \in Unmoved(d)' :
          Moved(Job(holder).move, At(k1, d)') = Moved(Job(holder).move, At(k2, d)')
    BY <1>1, <1>3, <1>5 DEF Meet
  <2>2. \A k \in ToSet(NoteKinds) \ StillToMove(holder) : \A p \in DOMAIN Job(holder).move : side'[k][p] = {}
    BY <1>1, <1>5 DEF Cleared
  <2>3. Meet(Job(holder).move)' /\ Cleared(holder, Job(holder).move)'
    BY <1>5, <2>1, <2>2 DEF Meet, Cleared, Moved
  <2> QED BY <1>2, <1>5, <2>3
<1> QED BY <1>4, <1>5

LEMMA TrackMeets ==
    ASSUME Control, KindsMeet, HastyWorld, NEW w \in Workers, Track(w)
    PROVE  KindsMeet'
<1> DEFINE m     == Job(w).move
           kinds == ToSet(KindsOf[w[2]])
           gen   == RecordAs(m)
<1> SUFFICES ASSUME ~calm
             PROVE  IF Notes' THEN Meet(Job(holder).move)' /\ Cleared(holder, Job(holder).move)' ELSE Level'
  BY KindsMeetHalves DEF Track
<1>1. /\ UNCHANGED <<side, displaced>> /\ holder = Nobody /\ ~SidecarCallFails
      /\ w \in Runners
  BY DEF Track, SidecarCallFails, Runners
<1>2. holder' = w /\ TakeFirst(w, Jobs(gen, m, kinds))
  BY <1>1 DEF Track
<1>3. Level
  BY <1>1, Apart, KindsMeetHalves DEF Notes, Runners
<1>4. CASE ~Notes'
  BY <1>1, <1>3, <1>4 DEF Level, Unmoved, At
<1>5. CASE Notes'
  <2>1. kinds = ToSet(NoteKinds)
    BY <1>2, <1>5 DEF Notes, KindsOf
  <2>2. PICK job \in Jobs(gen, m, kinds) :
             run' = [run EXCEPT ![w] = [step |-> "scan", job |-> job, queue |-> Jobs(gen, m, kinds) \ {job},
                                        todo |-> {}, item |-> {}, failed |-> FALSE]]
    BY <1>1, <1>2, Begun DEF Control
  <2>3. run'[w].step = "scan" /\ run'[w].job = job /\ run'[w].queue = Jobs(gen, m, kinds) \ {job}
    BY <1>1, <2>2 DEF Control, LedgerTypeOK
  <2>4. \A k \in ToSet(NoteKinds) : k \in StillToMove(w)'
    <3> SUFFICES ASSUME NEW k \in kinds PROVE k \in StillToMove(w)'
      BY <2>1
    <3>1. PICK j \in Jobs(gen, m, kinds) : j.kind = k
      <4> DEFINE one == [gen |-> gen, move |-> m, kind |-> k]
      <4>1. one \in Jobs(gen, m, kinds) /\ one.kind = k
        BY DEF Jobs
      <4> HIDE DEF one
      <4> QED BY <4>1
    <3>2. CASE j = job
      BY <2>3, <3>1, <3>2 DEF StillToMove, Job
    <3>3. CASE j # job
      BY <2>3, <3>1, <3>3 DEF StillToMove
    <3> QED BY <3>2, <3>3
  <2>5. Cleared(holder, Job(holder).move)'
    BY <1>2, <2>4 DEF Cleared
  <2>6. Meet(Job(holder).move)'
    BY <1>1, <1>3 DEF Level, Meet, Unmoved, At
  <2> QED BY <1>5, <2>5, <2>6
<1> QED BY <1>4, <1>5

\* In a hasty world only renames move sidecars, and those of the history
\* worker are of other kinds.
LEMMA HastyMover ==
    ASSUME Control, HastyWorld, ~calm, NEW r \in Runners, run[r].step \in AtWork
    PROVE  /\ r \in Workers /\ holder = r
           /\ Notes <=> r[2] = "notes"
           /\ ~Notes => Job(r).kind \notin ToSet(NoteKinds)
           /\ \A k \in ToSet(NoteKinds) : k \in Kinds
<1>1. r \in Workers /\ holder = r
  BY DEF HastyWorld, Runners, AtWork, Moving, Control, LockHeld
<1>2. Job(r).kind \in ToSet(KindsOf[r[2]])
  BY <1>1 DEF Control, JobsFit, JobsOf
<1>3. r[2] # "notes" => Job(r).kind \notin ToSet(NoteKinds)
  BY <1>1, <1>2, LedgerAssumption DEF Workers, KindsOf
<1> QED BY <1>1, <1>3 DEF Notes, Kinds

LEMMA WriteMeets ==
    ASSUME Control, KindsMeet, HastyWorld, ~calm, NEW r \in Runners, NEW p \in Paths, WriteSidecar(r, p)
    PROVE  KindsMeet'
<1>0. PICK k, m : k = Job(r).kind /\ m = Job(r).move
  OBVIOUS
<1> DEFINE to == m[p]
<1>1. /\ UNCHANGED <<holder, calm>> /\ run[r].step \in AtWork /\ run[r].step = "items"
      /\ ~SaveFails(r, p) /\ ~SidecarCallFails
  BY DEF WriteSidecar, AtWork, Moving, SaveFails, SidecarCallFails, HastyWorld
<1>2. /\ SaveAtNewPath(r, p) /\ p \in run[r].todo /\ run'[r].step = "unlink"
      /\ Job(r)' = Job(r) /\ run'[r].queue = run[r].queue
  BY <1>1, WriteControl DEF Job
<1>3. /\ k \in Kinds /\ p \in DOMAIN m /\ to \in Paths /\ to \notin DOMAIN m /\ p # to
      /\ side' \in [Kinds -> [Paths -> SUBSET Docs]]
      /\ \A l \in Kinds, x \in Paths : l # k \/ x # to => side'[l][x] = side[l][x]
      /\ side'[k][to] \subseteq side[k][p] \cup side[k][to]
      /\ \A d \in side[k][p] \cup side[k][to] : d \in side'[k][to] \/ <<k, d>> \in displaced'
      /\ displaced \subseteq displaced'
      /\ \A l \in Kinds, d \in Docs : l # k => (<<l, d>> \in displaced' <=> <<l, d>> \in displaced)
  BY <1>0, <1>1, <1>2, SaveMerges DEF Control
<1>4. /\ r \in Workers /\ holder = r /\ (~Notes => k \notin ToSet(NoteKinds))
      /\ \A l \in ToSet(NoteKinds) : l \in Kinds
  BY <1>0, <1>1, HastyMover
<1>5. StillToMove(r)' = StillToMove(r)
  BY <1>1, <1>2 DEF StillToMove
<1>6. DOMAIN m \subseteq Paths
  BY <1>0, <1>1, AtHand DEF Control
<1>7. CASE ~Notes
  BY <1>1, <1>3, <1>4, <1>7, MeetFrame
<1>8. CASE Notes
  <2>1. Meet(m) /\ Cleared(r, m)
    BY <1>0, <1>4, <1>8, KindsMeetHalves
  <2>2. \A d \in Docs : Unmoved(d)' \subseteq Unmoved(d) /\ Unmoved(d) \subseteq ToSet(NoteKinds)
    BY <1>3 DEF Unmoved
  <2>3. \A l \in ToSet(NoteKinds) \ {k}, d \in Docs : At(l, d)' = At(l, d)
    BY <1>3, <1>4 DEF At
  <2>4. \A d \in Docs : k \in Unmoved(d)' => Moved(m, At(k, d)') = Moved(m, At(k, d))
    <3> SUFFICES ASSUME NEW d \in Docs, k \in Unmoved(d)'
                 PROVE  Moved(m, At(k, d)') = Moved(m, At(k, d))
      OBVIOUS
    <3>1. <<k, d>> \notin displaced' /\ k \in ToSet(NoteKinds)
      BY <1>2 DEF Unmoved
    <3>2. CASE d \in side[k][p]
      <4>1. p \in At(k, d) /\ to \in At(k, d)'
        BY <1>3, <1>6, <3>1, <3>2 DEF At
      <4>2. At(k, d)' \ {p, to} = At(k, d) \ {p, to}
        BY <1>2, <1>3 DEF At
      <4> QED BY <1>3, <4>1, <4>2, MovedOnce
    <3>3. CASE d \notin side[k][p]
      <4>1. d \in side'[k][to] <=> d \in side[k][to]
        BY <1>3, <3>1, <3>3
      <4>2. At(k, d)' = At(k, d)
        BY <1>2, <1>3, <4>1 DEF At
      <4> QED BY <4>2
    <3> QED BY <3>2, <3>3
  <2>5. \A d \in Docs : \A k1, k2 \in Unmoved(d)' : Moved(m, At(k1, d)') = Moved(m, At(k2, d)')
    <3>1. \A d \in Docs : \A l \in Unmoved(d)' : Moved(m, At(l, d)') = Moved(m, At(l, d))
      BY <2>2, <2>3, <2>4
    <3> QED BY <2>1, <2>2, <3>1 DEF Meet
  <2>6. \A l \in ToSet(NoteKinds) \ StillToMove(r)' : \A x \in DOMAIN m : side'[l][x] = {}
    <3>1. k \in StillToMove(r)
      BY <1>0, <1>1 DEF StillToMove
    <3> QED BY <1>3, <1>4, <1>5, <1>6, <2>1, <3>1 DEF Cleared
  <2>7. Meet(Job(holder).move)' /\ Cleared(holder, Job(holder).move)'
    <3>1. holder' = r /\ Job(r)' = Job(r)
      BY <1>1, <1>2, <1>4
    <3>2. Meet(Job(holder).move)'
      BY <1>0, <2>5, <3>1 DEF Meet, Moved
    <3>3. Cleared(holder, Job(holder).move)'
      BY <1>0, <2>6, <3>1 DEF Cleared
    <3> QED BY <3>2, <3>3
  <2>8. Notes'
    BY <1>1, <1>8 DEF Notes
  <2> QED BY <2>7, <2>8, KindsMeetHalves
<1> QED BY <1>7, <1>8

LEMMA UnlinkMeets ==
    ASSUME Control, AllPassedOver, KindsMeet, HastyWorld, ~calm, NEW r \in Runners, UnlinkSidecar(r)
    PROVE  KindsMeet'
<1>0. PICK k, m : k = Job(r).kind /\ m = Job(r).move
  OBVIOUS
<1>1. /\ UNCHANGED <<holder, calm, displaced>> /\ run[r].step \in AtWork /\ run[r].step = "unlink"
      /\ ~SidecarCallFails
  BY DEF UnlinkSidecar, AtWork, Moving, SidecarCallFails
<1>2. PICK p \in Paths : run[r].item = {p}
  BY <1>1 DEF Control, LedgerTypeOK
<1>3. /\ \A l \in Kinds, x \in Paths : side'[l][x] = IF l = k /\ x = p THEN {} ELSE side[l][x]
      /\ run'[r].step = "items" /\ Job(r)' = Job(r) /\ run'[r].queue = run[r].queue
  BY <1>0, <1>1, <1>2, UnlinkControl DEF Job
<1>4. /\ k \in Kinds /\ p \in DOMAIN m /\ DOMAIN m \subseteq Paths
      /\ m[p] \in Paths /\ m[p] \notin DOMAIN m
  BY <1>0, <1>1, <1>2, AtHand DEF Control
<1>5. \A d \in side[k][p] : d \in side[k][m[p]] \/ <<k, d>> \in displaced
  BY <1>0, <1>1, <1>2 DEF AllPassedOver, PassedOver
<1>6. /\ r \in Workers /\ holder = r /\ (~Notes => k \notin ToSet(NoteKinds))
      /\ \A l \in ToSet(NoteKinds) : l \in Kinds
  BY <1>0, <1>1, HastyMover
<1>7. StillToMove(r)' = StillToMove(r)
  BY <1>1, <1>3 DEF StillToMove
<1>8. CASE ~Notes
  BY <1>1, <1>3, <1>6, <1>8, MeetFrame
<1>9. CASE Notes
  <2>1. Meet(m) /\ Cleared(r, m)
    BY <1>0, <1>6, <1>9, KindsMeetHalves
  <2>2. \A d \in Docs : Unmoved(d)' = Unmoved(d) /\ Unmoved(d) \subseteq ToSet(NoteKinds)
    BY <1>1 DEF Unmoved
  <2>3. \A l \in ToSet(NoteKinds) \ {k}, d \in Docs : At(l, d)' = At(l, d)
    BY <1>3, <1>6 DEF At
  <2>4. \A d \in Docs : k \in Unmoved(d) => Moved(m, At(k, d)') = Moved(m, At(k, d))
    <3> SUFFICES ASSUME NEW d \in Docs, k \in Unmoved(d)
                 PROVE  Moved(m, At(k, d)') = Moved(m, At(k, d))
      OBVIOUS
    <3>1. <<k, d>> \notin displaced
      BY DEF Unmoved
    <3>2. CASE d \in side[k][p]
      <4>1. p \in At(k, d) /\ m[p] \in At(k, d)'
        BY <1>3, <1>4, <1>5, <3>1, <3>2 DEF At
      <4>2. At(k, d)' \ {p, m[p]} = At(k, d) \ {p, m[p]}
        BY <1>3, <1>4 DEF At
      <4> QED BY <1>4, <4>1, <4>2, MovedOnce
    <3>3. CASE d \notin side[k][p]
      <4>1. At(k, d)' = At(k, d)
        BY <1>3, <1>4, <3>3 DEF At
      <4> QED BY <4>1
    <3> QED BY <3>2, <3>3
  <2>5. \A d \in Docs : \A k1, k2 \in Unmoved(d)' : Moved(m, At(k1, d)') = Moved(m, At(k2, d)')
    <3>1. \A d \in Docs : \A l \in Unmoved(d) : Moved(m, At(l, d)') = Moved(m, At(l, d))
      BY <2>2, <2>3, <2>4
    <3> QED BY <2>1, <2>2, <3>1 DEF Meet
  <2>6. \A l \in ToSet(NoteKinds) \ StillToMove(r)' : \A x \in DOMAIN m : side'[l][x] = {}
    BY <1>3, <1>4, <1>6, <1>7, <2>1 DEF Cleared
  <2>7. Meet(Job(holder).move)' /\ Cleared(holder, Job(holder).move)'
    BY <1>0, <1>1, <1>3, <1>6, <2>5, <2>6 DEF Meet, Cleared, Moved
  <2>8. Notes'
    BY <1>1, <1>9 DEF Notes
  <2> QED BY <2>7, <2>8, KindsMeetHalves
<1> QED BY <1>8, <1>9

LEMMA EndMeets ==
    ASSUME Control, AllPassedOver, KindsMeet, HastyWorld, ~calm, NEW r \in Runners, EndKind(r)
    PROVE  KindsMeet'
<1> DEFINE k  == Job(r).kind
           m  == Job(r).move
<1>1. /\ UNCHANGED <<side, calm, displaced>> /\ run[r].step \in AtWork
  BY DEF EndKind, AtWork, Moving
<1>2. /\ run[r].todo = {} /\ run[r].item = {} /\ run[r].step = "items"
      /\ run'[r].step = "mark" /\ Job(r)' = Job(r) /\ run'[r].queue = run[r].queue
  BY EndControl DEF Job
<1>3. /\ r \in Workers /\ holder = r
  BY <1>1, HastyMover
<1>4. holder' = holder
  BY <1>3, Apart DEF EndKind
<1>5. CASE ~Notes
  BY <1>1, <1>4, <1>5, MeetFrame
<1>6. CASE Notes
  <2>1. Meet(m) /\ Cleared(r, m)
    BY <1>3, <1>6, KindsMeetHalves
  <2>2. \A p \in DOMAIN m : side[k][p] = {}
    BY <1>2 DEF AllPassedOver, PassedOver, Left, HastyWorld
  <2>3. \A l \in StillToMove(r) : l \in StillToMove(r)' \/ l = k
    BY <1>2 DEF StillToMove
  <2>4. \A l \in ToSet(NoteKinds) \ StillToMove(r)' : \A x \in DOMAIN m : side'[l][x] = {}
    BY <1>1, <2>1, <2>2, <2>3 DEF Cleared
  <2>5. Meet(Job(holder).move)' /\ Cleared(holder, Job(holder).move)'
    BY <1>1, <1>2, <1>3, <1>4, <2>1, <2>4 DEF Meet, Cleared, Moved, Unmoved, At
  <2>6. Notes'
    BY <1>4, <1>6 DEF Notes
  <2> QED BY <2>5, <2>6, KindsMeetHalves
<1> QED BY <1>5, <1>6

LEMMA MarkMeets ==
    ASSUME Control, KindsMeet, HastyWorld, ~calm, NEW r \in Runners, Mark(r)
    PROVE  KindsMeet'
<1> DEFINE m  == Job(r).move
<1>1. /\ UNCHANGED <<side, calm, displaced>> /\ run[r].step \in AtWork /\ run[r].step = "mark"
      /\ ~SidecarCallFails /\ ~run[r].failed
  BY DEF Mark, AtWork, SidecarCallFails, HastyWorld
<1>2. /\ r \in Workers /\ holder = r /\ (Notes <=> r[2] = "notes") /\ r # Reconcile
  BY <1>1, HastyMover, Apart
<1>3. \/ run'[r].step = "idle" /\ holder' = Nobody /\ run[r].queue = {}
      \/ /\ run'[r].step = "scan" /\ run'[r].job \in run[r].queue
         /\ run'[r].queue = run[r].queue \ {run'[r].job} /\ holder' = holder
  BY <1>1, <1>2, MarkControl
<1>4. CASE ~Notes
  <2>1. Level /\ Level'
    BY <1>1, <1>4, KindsMeetHalves DEF Level, Unmoved, At
  <2>2. ~Notes'
    BY <1>2, <1>3, <1>4, Apart DEF Notes, Runners
  <2> QED BY <2>1, <2>2, KindsMeetHalves
<1>5. CASE Notes
  <2>1. Meet(m) /\ Cleared(r, m)
    BY <1>2, <1>5, KindsMeetHalves
  <2>2. CASE run'[r].step = "idle" /\ holder' = Nobody /\ run[r].queue = {}
    <3>1. StillToMove(r) = {}
      BY <1>1, <2>2 DEF StillToMove
    <3>2. \A d \in Docs : \A l \in Unmoved(d) : At(l, d) \cap DOMAIN m = {}
      BY <2>1, <3>1 DEF Cleared, Unmoved, At
    <3>3. \A d \in Docs : \A l \in Unmoved(d) : Moved(m, At(l, d)) = At(l, d)
      BY <3>2, MovedAll
    <3>4. Level
      BY <2>1, <3>3 DEF Meet, Level
    <3>5. Level' /\ ~Notes'
      BY <1>1, <2>2, <3>4, Apart DEF Level, Unmoved, At, Notes, Runners
    <3> QED BY <3>5, KindsMeetHalves
  <2>3. CASE /\ run'[r].step = "scan" /\ run'[r].job \in run[r].queue
             /\ run'[r].queue = run[r].queue \ {run'[r].job} /\ holder' = holder
    <3>1. Job(r)'.move = m
      BY <1>2, <2>3 DEF Control, JobsFit, Job
    <3>2. \A l \in StillToMove(r) : l \in StillToMove(r)'
      <4> SUFFICES ASSUME NEW l \in StillToMove(r) PROVE l \in StillToMove(r)'
        OBVIOUS
      <4>1. PICK j \in run[r].queue : j.kind = l
        BY <1>1 DEF StillToMove
      <4>2. CASE j = run'[r].job
        BY <2>3, <4>1, <4>2 DEF StillToMove, Job
      <4>3. CASE j # run'[r].job
        BY <2>3, <4>1, <4>3 DEF StillToMove
      <4> QED BY <4>2, <4>3
    <3>3. \A l \in ToSet(NoteKinds) \ StillToMove(r)' : \A x \in DOMAIN m : side'[l][x] = {}
      BY <1>1, <2>1, <3>2 DEF Cleared
    <3>4. Meet(Job(holder).move)' /\ Cleared(holder, Job(holder).move)'
      BY <1>1, <1>2, <2>1, <2>3, <3>1, <3>3 DEF Meet, Cleared, Moved, Unmoved, At
    <3>5. Notes'
      BY <1>5, <2>3 DEF Notes
    <3> QED BY <3>4, <3>5, KindsMeetHalves
  <2> QED BY <1>3, <2>2, <2>3
<1> QED BY <1>4, <1>5

\* In a hasty world the kinds of a document move together.
LEMMA MeetKept ==
    ASSUME Control, AllPassedOver, HastyWorld, KindsMeet, [LedgerNext]_ledgerVars
    PROVE  KindsMeet'
<1>0. CASE calm
  <2>1. calm'
    BY <1>0 DEF LedgerNext, RunnerStep, ledgerVars, Rename, Track, StartReconcile, Retry, Scan, WriteSidecar, LoadFails,
         UnlinkSidecar, EndKind, Mark, Relaunch
  <2> QED BY <2>1 DEF KindsMeet
<1> SUFFICES ASSUME ~calm PROVE KindsMeet'
  BY <1>0
<1>1. Notes => /\ holder \in Runners /\ run[holder].step \in AtWork
               /\ DOMAIN Job(holder).move \subseteq Paths
  BY AtHand DEF Notes, Runners, Control, LockHeld
<1>2. CASE UNCHANGED ledgerVars
  BY <1>1, <1>2, MeetFrame DEF ledgerVars, Job, StillToMove
<1>3. ASSUME NEW m \in Moves, Rename(m)
      PROVE  KindsMeet'
  <2>1. Notes => run'[holder] = run[holder]
    <3> SUFFICES ASSUME Notes PROVE run'[holder] = run[holder]
      OBVIOUS
    <3>1. run[holder].step # "idle" /\ holder \in Workers
      BY <1>1 DEF Notes, AtWork, Moving
    <3>2. holder[1] # used.renames + 1
      BY <3>1 DEF Control, JobsFit, LedgerTypeOK, Workers
    <3> QED BY <1>1, <1>3, <3>2 DEF Rename
  <2> QED BY <1>1, <1>3, <2>1, MeetFrame DEF Rename, Job, StillToMove
<1>4. ~StartReconcile /\ ~Retry /\ ~Relaunch
  BY DEF StartReconcile, Retry, Relaunch, HastyWorld
<1>5. ASSUME NEW r \in Runners, Scan(r)
      PROVE  KindsMeet'
  <2>1. run[r].step \in AtWork /\ run[r].step = "scan"
    BY <1>5 DEF Scan, AtWork, Moving
  <2>2. holder = r
    BY <2>1, HastyMover
  <2>3. Job(r)' = Job(r) /\ StillToMove(r)' = StillToMove(r)
    BY <1>5, <2>1, ScanControl DEF Job, StillToMove
  <2> QED BY <1>1, <1>5, <2>2, <2>3, MeetFrame DEF Scan
<1>6. ASSUME NEW r \in Runners, RunnerStep(r)
      PROVE  KindsMeet'
  <2>1. \A p \in Paths : ~LoadFails(r, p)
    BY DEF LoadFails, SidecarCallFails
  <2> QED BY <1>5, <1>6, <2>1, WriteMeets, UnlinkMeets, EndMeets, MarkMeets DEF RunnerStep
<1> QED BY <1>2, <1>3, <1>4, <1>6, TrackMeets DEF LedgerNext

-----------------------------------------------------------------------------
(* The invariant, and what follows from it *)

\* At first every document has its sidecars with it, and nothing is owed.
LEMMA StartsInv == LedgerInit => LedgerInv
<1> SUFFICES ASSUME LedgerInit PROVE LedgerInv
  OBVIOUS
<1>1. /\ place = Home /\ holder = Nobody /\ dropped = {} /\ displaced = {} /\ shelved = {}
      /\ side = [k \in Kinds |-> [p \in Paths |-> {d \in Docs : Home[d] = p}]]
      /\ ledger = [next |-> 1, entries |-> <<>>]
      /\ used = [renames |-> 0, faults |-> 0, launches |-> 1]
      /\ run = [r \in Runners |-> IF calm /\ r = Reconcile
                                  THEN [NoWork EXCEPT !.step = "start"] ELSE NoWork]
      /\ refused \in IF calm THEN Refusals ELSE {{}}
  BY DEF LedgerInit
<1>2. Control
  BY StartsControlled
<1>3. /\ \A r \in Runners : run[r].step \in {"idle", "start"} /\ ~run[r].failed
      /\ \A w \in Workers : run[w].step = "idle"
      /\ ~calm => run[Reconcile].step = "idle"
  BY <1>1, Apart DEF NoWork, Runners
<1>4. \A k \in Kinds, d \in Docs : At(k, d) = {place[d]}
  BY <1>1, LedgerAssumption DEF At
<1>5. AllPassedOver
  BY <1>3 DEF AllPassedOver, PassedOver
<1>6. SidecarsNeverLost
  BY <1>4 DEF SidecarsNeverLost
<1>7. HastyWorld
  BY <1>1, <1>3 DEF HastyWorld
<1>8. OneRename
  <2>1. Busy = {}
    BY <1>3 DEF Busy
  <2>2. DOMAIN ledger.entries = {}
    <3>1. ledger.entries = <<>>
      BY <1>1
    <3> QED BY <3>1
  <2> QED BY <2>1, <2>2 DEF OneRename
<1>9. AllPending
  BY <1>4 DEF AllPending
<1>10. KindsMeet
  <2>1. holder \notin Workers
    BY <1>1, Apart DEF Runners
  <2>2. \A d \in Docs : \A k \in Unmoved(d) : At(k, d) = {place[d]}
    BY <1>4 DEF Unmoved, Kinds
  <2> QED BY <2>1, <2>2 DEF KindsMeet
<1> QED BY <1>2, <1>5, <1>6, <1>7, <1>8, <1>9, <1>10 DEF LedgerInv, Control

LEMMA InvKept == LedgerInv /\ [LedgerNext]_ledgerVars => LedgerInv'
<1> SUFFICES ASSUME LedgerInv, [LedgerNext]_ledgerVars PROVE LedgerInv'
  OBVIOUS
<1>1. /\ Control /\ AllPassedOver /\ SidecarsNeverLost /\ HastyWorld
      /\ OneRename /\ AllPending /\ KindsMeet
  BY DEF LedgerInv, Control
<1>2. Control'
  BY <1>1, ControlKept
<1>3. AllPassedOver'
  BY <1>1, PassedKept
<1>4. SidecarsNeverLost'
  BY <1>1, NeverLostKept
<1>5. HastyWorld'
  BY <1>1, HastyKept
<1>6. OneRename'
  BY <1>1, OneRenameKept
<1>7. AllPending'
  BY <1>1, PendingKept
<1>8. KindsMeet'
  BY <1>1, MeetKept
<1> QED BY <1>2, <1>3, <1>4, <1>5, <1>6, <1>7, <1>8 DEF LedgerInv, Control

\* Of the moves of sidecars, whatever the user renames, whatever fails and
\* whenever the process dies: who holds the operation lock, how far each pass
\* is, and what the ledger or a worker still owes.
THEOREM LedgerInvariant == LedgerSpec => []LedgerInv
BY StartsInv, InvKept, PTL DEF LedgerSpec

\* The variables keep their types: each entry of the ledger is of a rename that
\* happened and of a generation given out, and a pass goes over old paths alone.
THEOREM LedgerTypes == LedgerSpec => []LedgerTypeOK
<1>1. LedgerInv => LedgerTypeOK
  BY DEF LedgerInv
<1> QED BY <1>1, LedgerInvariant, PTL

\* The save at the new path comes before the removal at the old one, and the
\* holder of the lock is alone in between: no failure, refusal or crash loses
\* the sidecar of a document, though a failed read may leave it in quarantine.
THEOREM NoSidecarLost == LedgerSpec => []SidecarsNeverLost
<1>1. LedgerInv => SidecarsNeverLost
  BY DEF LedgerInv
<1> QED BY <1>1, LedgerInvariant, PTL

\* A refused sidecar keeps no other from its move, and a kind is marked
\* completed only when the pass left nothing behind.
THEOREM LeavesOnlyRefused == LedgerSpec => []OthersStillMove
<1>1. LedgerInv => OthersStillMove
  BY Apart DEF LedgerInv, AllPassedOver, PassedOver, Left, OthersStillMove, Runners
<1> QED BY <1>1, LedgerInvariant, PTL

\* The lock of a rename spans its kinds: between renames the kinds of a
\* document are at one path, however the renames overtake each other.
THEOREM KindsStayTogether == LedgerSpec => []KindsTogether
<1>1. LedgerInv => KindsTogether
  BY Apart DEF LedgerInv, KindsMeet, KindsTogether, Unmoved, Runners
<1> QED BY <1>1, LedgerInvariant, PTL

\* Once the workers rest, a sidecar that did not follow its document is still
\* owed by the ledger, so that the next launch retries it.
THEOREM NothingIsForgotten == LedgerSpec => []NothingForgotten
<1>1. LedgerInv => NothingForgotten
  <2> SUFFICES ASSUME LedgerInv, calm, AtRest, NEW d \in Docs \ dropped, NEW k \in Kinds,
                      <<k, d>> \notin displaced, ~(<<k, d>> \in shelved /\ At(k, d) = {})
               PROVE  Accounted(d, k)
    BY DEF NothingForgotten
  <2>1. /\ At(k, d) # {}
        /\ \A p \in At(k, d) : p = place[d] \/ Pending(k, p, place[d])
    BY DEF LedgerInv, SidecarsNeverLost, AllPending
  <2>2. CASE At(k, d) = {place[d]}
    BY <2>2 DEF Accounted
  <2>3. CASE At(k, d) # {place[d]}
    <3>1. PICK p \in At(k, d) : p # place[d]
      BY <2>1, <2>3
    <3>2. Pending(k, p, place[d])
      BY <2>1, <3>1
    <3>3. \A w \in Workers : run[w].step # "wait"
      BY DEF AtRest, Runners
    <3> QED BY <3>1, <3>2, <3>3 DEF Pending, Accounted
  <2> QED BY <2>2, <2>3
<1> QED BY <1>1, LedgerInvariant, PTL
=============================================================================
