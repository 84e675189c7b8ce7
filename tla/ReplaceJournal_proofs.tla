------------------------- MODULE ReplaceJournal_proofs -------------------------
(***************************************************************************)
(* Proofs about ReplaceJournal, for any files, windows, runs, undos, saves,*)
(* crashes and failing calls: undo takes a file back by exactly one run,   *)
(* and with one window whatever the latest run wrote can be undone, at     *)
(* every moment and after every crash, until a read of its journal fails.  *)
(***************************************************************************)
EXTENDS ReplaceJournal, SequenceTheorems, TLAPS

-----------------------------------------------------------------------------
(* Backups, entries and panels. *)

LEMMA EmptyBackup ==
    /\ Empty \in Backup /\ Keys(Empty) = {} /\ OneRunEach(Empty) /\ InOrderEach(Empty)
    /\ \A f \in File : Empty[f] = NoEntry
BY DEF Empty, Backup, Keys, OneRunEach, InOrderEach

LEMMA NonEmptyKey ==
    ASSUME NEW b \in Backup
    PROVE  /\ b = Empty <=> \A f \in File : b[f] = NoEntry
           /\ \A f \in File : b[f] # NoEntry => b[f] \in Entry
BY DEF Empty, Backup

\* One entry of a backup is replaced or taken out.
LEMMA BackupWith ==
    ASSUME NEW b \in Backup, NEW f \in File, NEW e \in {NoEntry} \cup Entry
    PROVE  /\ [b EXCEPT ![f] = e] \in Backup
           /\ [b EXCEPT ![f] = e][f] = e
           /\ \A g \in File : g # f => [b EXCEPT ![f] = e][g] = b[g]
           /\ OneRunEach(b) /\ (e # NoEntry => OneRun(e)) => OneRunEach([b EXCEPT ![f] = e])
           /\ InOrderEach(b) /\ (e # NoEntry => InOrder(e)) => InOrderEach([b EXCEPT ![f] = e])
<1>1. [b EXCEPT ![f] = e] \in Backup /\ [b EXCEPT ![f] = e][f] = e
  BY DEF Backup
<1>2. \A g \in File : g # f => [b EXCEPT ![f] = e][g] = b[g]
  BY DEF Backup
<1> QED BY <1>1, <1>2, Zenon DEF OneRunEach, InOrderEach

\* A sequence with one more element: its last one, and what is in front.
LEMMA OneMore ==
    ASSUME NEW S, NEW s \in Seq(S), NEW e \in S
    PROVE  /\ Append(s, e) \in Seq(S) /\ Append(s, e) # <<>>
           /\ Last(Append(s, e)) = e /\ Front(Append(s, e)) = s
<1>1. Append(s, e) \in Seq(S) /\ Len(Append(s, e)) = Len(s) + 1 /\ Len(s) \in Nat
  OBVIOUS
<1>2. Last(Append(s, e)) = e /\ Append(s, e) # <<>>
  BY <1>1 DEF Last
<1>3. \A i \in 1 .. Len(s) : Append(s, e)[i] = s[i] /\ Append(s, e)[i] \in S
  OBVIOUS
<1>4. Len(s) + 1 - 1 = Len(s) /\ (1 > Len(s) => Len(s) = 0)
      /\ Len(s) - 1 + 1 = Len(s) /\ \A i \in 1 .. Len(s) : 1 + i - 1 = i
  BY <1>1
<1>5. Front(Append(s, e)) = SubSeq(Append(s, e), 1, Len(s))
  BY <1>1, <1>4 DEF Front
<1>6. /\ SubSeq(Append(s, e), 1, Len(s)) \in Seq(S)
      /\ Len(SubSeq(Append(s, e), 1, Len(s))) = IF 1 <= Len(s) THEN Len(s) - 1 + 1 ELSE 0
      /\ \A i \in 1 .. Len(s) - 1 + 1 :
             SubSeq(Append(s, e), 1, Len(s))[i] = Append(s, e)[1 + i - 1]
  BY <1>1, <1>3, SubSeqProperties
<1>7. SubSeq(Append(s, e), 1, Len(s)) = s
  BY <1>1, <1>3, <1>4, <1>6, SeqEqual
<1> QED BY <1>1, <1>2, <1>5, <1>7

\* What a run writes is the file with its run, and so is the entry it saves.
LEMMA RunEntrySound ==
    ASSUME content \in [File -> Content], NEW f \in File,
           hand.run \in 1 .. MaxRuns
    PROVE  /\ Replaced(f) \in Content /\ RunEntry(f) \in Entry
           /\ RunEntry(f).old = content[f] /\ RunEntry(f).new = Replaced(f)
           /\ Replaced(f).save = content[f].save
           /\ Replaced(f).runs = Append(content[f].runs, hand.run)
           /\ Last(Replaced(f).runs) = hand.run /\ Replaced(f).runs # <<>>
           /\ OneRun(RunEntry(f)) /\ RunEntry(f) # NoEntry
<1>1. content[f] \in Content
  OBVIOUS
<1>2. content[f].runs \in Seq(1 .. MaxRuns) /\ content[f].save \in 0 .. MaxSaves
  BY <1>1 DEF Content
<1>3. /\ Append(content[f].runs, hand.run) \in Seq(1 .. MaxRuns)
      /\ Append(content[f].runs, hand.run) # <<>>
      /\ Last(Append(content[f].runs, hand.run)) = hand.run
      /\ Front(Append(content[f].runs, hand.run)) = content[f].runs
  BY <1>2, OneMore
<1>4. /\ Replaced(f) \in Content /\ Replaced(f).save = content[f].save
      /\ Replaced(f).runs = Append(content[f].runs, hand.run)
  BY <1>1, <1>3 DEF Replaced, Content
<1>5. /\ RunEntry(f) \in Entry /\ RunEntry(f).old = content[f]
      /\ RunEntry(f).new = Replaced(f)
  BY <1>1, <1>4 DEF RunEntry, Entry
<1>6. OneRun(RunEntry(f)) /\ RunEntry(f) # NoEntry
  BY <1>3, <1>4, <1>5, SentinelAssumption DEF OneRun
<1> QED BY <1>3, <1>4, <1>5, <1>6

LEMMA EntryParts ==
    ASSUME NEW e \in Entry
    PROVE  /\ e.old \in Content /\ e.new \in Content
           /\ e.old.save \in 0 .. MaxSaves /\ e.new.save \in 0 .. MaxSaves
           /\ e.old.runs \in Seq(1 .. MaxRuns) /\ e.new.runs \in Seq(1 .. MaxRuns)
BY DEF Entry, Content

\* A panel's generation goes up, and work is queued under the one it has then.
LEMMA NextGenPanel ==
    ASSUME NEW p \in Panel
    PROVE  /\ NextGen(p) \in Panel /\ NextGen(p).gen = p.gen + 1
           /\ NextGen(p).open = p.open /\ NextGen(p).backup = p.backup
           /\ NextGen(p).pending = p.pending /\ NextGen(p).jobs = p.jobs
           /\ NextGen(p).answers = p.answers /\ NextGen(p).undo = p.undo
           /\ NextGen(p).left = p.left /\ NextGen(p).undoing = p.undoing
BY DEF NextGen, Panel

LEMMA QueuePanel ==
    ASSUME NEW p \in Panel, NEW kind \in {"Save", "Delete", "Load"}, NEW b \in Backup
    PROVE  /\ Queue(p, kind, b) \in Panel
           /\ Queue(p, kind, b).jobs =
                  p.jobs \cup {[kind |-> kind, gen |-> p.gen, run |-> 0, backup |-> b]}
           /\ Queue(p, kind, b).gen = p.gen
           /\ Queue(p, kind, b).open = p.open /\ Queue(p, kind, b).backup = p.backup
           /\ Queue(p, kind, b).pending = p.pending
           /\ Queue(p, kind, b).answers = p.answers /\ Queue(p, kind, b).undo = p.undo
           /\ Queue(p, kind, b).left = p.left /\ Queue(p, kind, b).undoing = p.undoing
<1>1. Work(kind, p.gen, 0, b) = [kind |-> kind, gen |-> p.gen, run |-> 0, backup |-> b]
  BY DEF Work
<1>2. Work(kind, p.gen, 0, b) \in WorkItem
  BY <1>1, BoundsAssumption DEF WorkItem, Panel
<1> QED BY <1>1, <1>2 DEF Queue, Panel

-----------------------------------------------------------------------------
(* The sound invariant, action by action. *)

\* One panel changes, and no file, journal or work under the lock.
LEMMA PanelSound ==
    ASSUME SoundInv, NEW w \in Window, NEW p \in Panel, PanelOneRun(p),
           panel' = [panel EXCEPT ![w] = p], UNCHANGED <<content, journal, hand>>,
           spent' \in Spent, spent'.saves = spent.saves
    PROVE  SoundInv'
<1>1. /\ panel' \in [Window -> Panel] /\ panel'[w] = p
      /\ \A v \in Window : v # w => panel'[v] = panel[v]
  BY DEF SoundInv, ReplaceTypeOK
<1>2. ReplaceTypeOK'
  BY <1>1 DEF SoundInv, ReplaceTypeOK
<1>3. PlacedRight(hand)'
  BY DEF SoundInv
<1>4. \A v \in Window : PanelOneRun(panel'[v])
  BY <1>1 DEF SoundInv, EntriesOneRun
<1>5. EntriesOneRun'
  BY <1>4 DEF SoundInv, EntriesOneRun
<1> QED BY <1>2, <1>3, <1>5 DEF SoundInv

\* The work under the lock goes on, and no file or panel changes.
LEMMA HandSound ==
    ASSUME SoundInv, hand' \in Hand, PlacedRight(hand'), OneRunEach(hand'.done),
           journal' \in Journal, OneRunEach(journal'.entry),
           UNCHANGED <<content, panel>>, spent' \in Spent, spent'.saves = spent.saves
    PROVE  SoundInv'
<1>1. ReplaceTypeOK'
  BY DEF SoundInv, ReplaceTypeOK
<1>2. EntriesOneRun'
  BY DEF SoundInv, EntriesOneRun
<1> QED BY <1>1, <1>2 DEF SoundInv

LEMMA FailsSpends ==
    ASSUME spent \in Spent, Fails
    PROVE  spent' \in Spent /\ spent'.saves = spent.saves /\ spent'.runs = spent.runs
BY DEF Fails, Spent

LEMMA InitSound == Init => SoundInv
<1> SUFFICES ASSUME Init PROVE SoundInv
  OBVIOUS
<1> USE DEF Init
<1>1. content \in [File -> Content] /\ \A f \in File : content[f].save = 0
  BY BoundsAssumption DEF Content
<1>2. journal \in Journal /\ journal.entry = Empty
  BY EmptyBackup DEF Journal, NoJournal
<1>3. hand \in Hand /\ hand.done = Empty
  BY EmptyBackup, BoundsAssumption DEF Hand, IdleHand
<1>4. ClosedPanel \in Panel /\ PanelOneRun(ClosedPanel)
  BY EmptyBackup DEF Panel, ClosedPanel, PanelOneRun
<1>5. spent \in Spent /\ spent.saves = 0
  BY BoundsAssumption DEF Spent
<1>6. ReplaceTypeOK
  BY <1>1, <1>2, <1>3, <1>4, <1>5 DEF ReplaceTypeOK
<1>7. PlacedRight(hand)
  BY SentinelAssumption DEF PlacedRight, IdleHand
<1>8. EntriesOneRun
  BY <1>2, <1>3, <1>4, EmptyBackup DEF EntriesOneRun
<1> QED BY <1>6, <1>7, <1>8 DEF SoundInv

LEMMA OpenWindowSound ==
    ASSUME SoundInv, NEW w \in Window, OpenWindow(w)
    PROVE  SoundInv'
<1> DEFINE opened == [ClosedPanel EXCEPT !.open = TRUE]
           p == Queue(opened, "Load", Empty)
<1>1. /\ panel' = [panel EXCEPT ![w] = p]
      /\ UNCHANGED <<content, journal, hand, retired, forfeited, spent>>
  BY DEF OpenWindow
<1>2. /\ opened \in Panel /\ opened.backup = Empty /\ opened.undo = Empty
      /\ opened.left = Empty /\ opened.jobs = {} /\ opened.answers = {}
  BY EmptyBackup DEF Panel, ClosedPanel
<1> HIDE DEF opened
<1>3. /\ p \in Panel /\ p.backup = Empty /\ p.undo = Empty /\ p.left = Empty
      /\ p.answers = {} /\ \A j \in p.jobs : j.backup = Empty /\ j.kind = "Load"
  <2>1. PICK kind \in {"Save", "Delete", "Load"} : kind = "Load"
    OBVIOUS
  <2>2. PICK b \in Backup : b = Empty
    BY EmptyBackup
  <2>3. /\ Queue(opened, kind, b) \in Panel
        /\ Queue(opened, kind, b).jobs =
               opened.jobs \cup {[kind |-> kind, gen |-> opened.gen, run |-> 0, backup |-> b]}
        /\ Queue(opened, kind, b).backup = opened.backup
        /\ Queue(opened, kind, b).answers = opened.answers
        /\ Queue(opened, kind, b).undo = opened.undo
        /\ Queue(opened, kind, b).left = opened.left
    BY <1>2, QueuePanel, ZenonT(30)
  <2>4. p = Queue(opened, kind, b)
    BY <2>1, <2>2
  <2> HIDE DEF p
  <2> QED BY <1>2, <2>1, <2>2, <2>3, <2>4
<1>4. PanelOneRun(p)
  BY <1>3, EmptyBackup DEF PanelOneRun
<1> HIDE DEF p
<1> QED BY <1>1, <1>3, <1>4, PanelSound DEF SoundInv, ReplaceTypeOK

LEMMA StartReplaceSound ==
    ASSUME SoundInv, NEW w \in Window, StartReplace(w)
    PROVE  SoundInv'
<1> DEFINE run == spent.runs + 1
           cleared == [panel[w] EXCEPT !.pending = TRUE, !.backup = Empty]
           claimed == NextGen(cleared)
           job == Work("Apply", claimed.gen, run, Empty)
           p == [claimed EXCEPT !.jobs = @ \cup {job}]
<1>1. /\ panel' = [panel EXCEPT ![w] = p] /\ spent' = [spent EXCEPT !.runs = run]
      /\ UNCHANGED <<content, journal, hand, retired, forfeited>> /\ spent.runs < MaxRuns
  BY DEF StartReplace
<1>2. spent \in Spent /\ panel[w] \in Panel /\ PanelOneRun(panel[w])
  BY DEF SoundInv, ReplaceTypeOK, EntriesOneRun
<1>3. run \in 1 .. MaxRuns /\ spent' \in Spent /\ spent'.saves = spent.saves
  BY <1>1, <1>2, BoundsAssumption DEF Spent
<1>4. /\ cleared \in Panel /\ cleared.backup = Empty /\ cleared.undo = panel[w].undo
      /\ cleared.left = panel[w].left /\ cleared.jobs = panel[w].jobs
      /\ cleared.answers = panel[w].answers
  BY <1>2, EmptyBackup DEF Panel
<1> HIDE DEF cleared
<1>5. /\ claimed \in Panel /\ claimed.backup = Empty /\ claimed.undo = panel[w].undo
      /\ claimed.left = panel[w].left /\ claimed.jobs = panel[w].jobs
      /\ claimed.answers = panel[w].answers
  BY <1>4, NextGenPanel
<1> HIDE DEF claimed, run
<1>6. job \in WorkItem /\ job.kind = "Apply" /\ job.run = run /\ job.backup = Empty
  BY <1>3, <1>5, EmptyBackup DEF Work, WorkItem, Panel
<1> HIDE DEF job
<1>7. /\ p \in Panel /\ p.backup = Empty /\ p.undo = panel[w].undo
      /\ p.left = panel[w].left /\ p.answers = panel[w].answers
      /\ p.jobs = panel[w].jobs \cup {job}
  BY <1>5, <1>6 DEF Panel
<1>8. PanelOneRun(p)
  BY <1>2, <1>3, <1>6, <1>7, EmptyBackup DEF PanelOneRun
<1> HIDE DEF p
<1> QED BY <1>1, <1>3, <1>7, <1>8, PanelSound

LEMMA RefuseReplaceSound ==
    ASSUME SoundInv, NEW w \in Window, RefuseReplace(w)
    PROVE  SoundInv'
<1>1. /\ panel' = [panel EXCEPT ![w] = NextGen(panel[w])]
      /\ UNCHANGED <<content, journal, hand, retired, forfeited>>
      /\ spent' = [spent EXCEPT !.undos = @ + 1]
  BY DEF RefuseReplace
<1>2. spent \in Spent /\ panel[w] \in Panel /\ PanelOneRun(panel[w])
  BY DEF SoundInv, ReplaceTypeOK, EntriesOneRun
<1>3. spent' \in Spent /\ spent'.saves = spent.saves
  BY <1>1, <1>2 DEF Spent
<1>4. NextGen(panel[w]) \in Panel /\ PanelOneRun(NextGen(panel[w]))
  BY <1>2, NextGenPanel DEF PanelOneRun
<1> QED BY <1>1, <1>3, <1>4, PanelSound

\* What a panel keeps, or clears, it queues journal work for.
LEMMA KeepFields ==
    ASSUME NEW p \in Panel, NEW b \in Backup
    PROVE  LET q == Keep(p, b) IN
           /\ q \in Panel /\ q.gen = p.gen + 1 /\ q.backup = b /\ q.open = p.open
           /\ q.pending = p.pending /\ q.answers = p.answers /\ q.undo = p.undo
           /\ q.left = p.left /\ q.undoing = p.undoing
           /\ q.jobs = p.jobs \cup
                  {[kind |-> "Save", gen |-> p.gen + 1, run |-> 0, backup |-> b]}
<1> DEFINE kept == [p EXCEPT !.backup = b]
           next == NextGen(kept)
<1>1. /\ kept \in Panel /\ kept.backup = b /\ kept.undo = p.undo /\ kept.left = p.left
      /\ kept.jobs = p.jobs /\ kept.answers = p.answers /\ kept.gen = p.gen
      /\ kept.open = p.open /\ kept.pending = p.pending /\ kept.undoing = p.undoing
  BY EmptyBackup DEF Panel
<1> HIDE DEF kept
<1>2. /\ next \in Panel /\ next.backup = b /\ next.undo = p.undo /\ next.left = p.left
      /\ next.jobs = p.jobs /\ next.answers = p.answers /\ next.gen = p.gen + 1
      /\ next.open = p.open /\ next.pending = p.pending /\ next.undoing = p.undoing
  BY <1>1, NextGenPanel
<1> HIDE DEF next
<1>3. Keep(p, b) = Queue(next, "Save", b)
  BY DEF Keep, next, kept
<1>4. "Save" \in {"Save", "Delete", "Load"} /\ Empty \in Backup
  BY EmptyBackup
<1> DEFINE q == Queue(next, "Save", b)
<1>5. /\ q \in Panel /\ q.gen = next.gen /\ q.backup = next.backup /\ q.open = next.open
      /\ q.pending = next.pending /\ q.answers = next.answers /\ q.undo = next.undo
      /\ q.left = next.left /\ q.undoing = next.undoing
      /\ q.jobs = next.jobs \cup
             {[kind |-> "Save", gen |-> next.gen, run |-> 0, backup |-> b]}
  BY <1>2, <1>4, QueuePanel, ZenonT(30)
<1> HIDE DEF q
<1> QED BY <1>2, <1>3, <1>5 DEF q

LEMMA ClearFields ==
    ASSUME NEW p \in Panel
    PROVE  LET q == Clear(p) IN
           /\ q \in Panel /\ q.gen = p.gen + 1 /\ q.backup = Empty /\ q.open = p.open
           /\ q.pending = p.pending /\ q.answers = p.answers /\ q.undo = p.undo
           /\ q.left = p.left /\ q.undoing = p.undoing
           /\ q.jobs = p.jobs \cup
                  {[kind |-> "Delete", gen |-> p.gen + 1, run |-> 0, backup |-> Empty]}
<1> DEFINE kept == [p EXCEPT !.backup = Empty]
           next == NextGen(kept)
<1>1. /\ kept \in Panel /\ kept.backup = Empty /\ kept.undo = p.undo /\ kept.left = p.left
      /\ kept.jobs = p.jobs /\ kept.answers = p.answers /\ kept.gen = p.gen
      /\ kept.open = p.open /\ kept.pending = p.pending /\ kept.undoing = p.undoing
  BY EmptyBackup DEF Panel
<1> HIDE DEF kept
<1>2. /\ next \in Panel /\ next.backup = Empty /\ next.undo = p.undo /\ next.left = p.left
      /\ next.jobs = p.jobs /\ next.answers = p.answers /\ next.gen = p.gen + 1
      /\ next.open = p.open /\ next.pending = p.pending /\ next.undoing = p.undoing
  BY <1>1, NextGenPanel
<1> HIDE DEF next
<1>3. Clear(p) = Queue(next, "Delete", Empty)
  BY DEF Clear, next, kept
<1>4. "Delete" \in {"Save", "Delete", "Load"} /\ Empty \in Backup
  BY EmptyBackup
<1> DEFINE q == Queue(next, "Delete", Empty)
<1>5. /\ q \in Panel /\ q.gen = next.gen /\ q.backup = next.backup /\ q.open = next.open
      /\ q.pending = next.pending /\ q.answers = next.answers /\ q.undo = next.undo
      /\ q.left = next.left /\ q.undoing = next.undoing
      /\ q.jobs = next.jobs \cup
             {[kind |-> "Delete", gen |-> next.gen, run |-> 0, backup |-> Empty]}
  BY <1>2, <1>4, QueuePanel
<1> HIDE DEF q
<1> QED BY <1>2, <1>3, <1>5 DEF q

LEMMA KeepPanel ==
    ASSUME NEW p \in Panel, NEW b \in Backup, PanelOneRun(p), OneRunEach(b)
    PROVE  Keep(p, b) \in Panel /\ PanelOneRun(Keep(p, b))
<1>1. \A j \in Keep(p, b).jobs : j \in p.jobs \/ (j.kind = "Save" /\ j.backup = b)
  BY KeepFields
<1> QED BY <1>1, KeepFields DEF PanelOneRun

LEMMA ClearPanel ==
    ASSUME NEW p \in Panel, PanelOneRun(p)
    PROVE  Clear(p) \in Panel /\ PanelOneRun(Clear(p))
<1>1. \A j \in Clear(p).jobs : j \in p.jobs \/ (j.kind = "Delete" /\ j.backup = Empty)
  BY ClearFields
<1> QED BY <1>1, ClearFields, EmptyBackup DEF PanelOneRun

LEMMA RunDoneSound ==
    ASSUME SoundInv, NEW w \in Window, RunDone(w)
    PROVE  SoundInv'
<1>1. PICK a \in panel[w].answers :
        LET p == [panel[w] EXCEPT !.answers = @ \ {a}, !.pending = FALSE] IN
        panel' = [panel EXCEPT ![w] =
            IF a.kind # "Applied" \/ ~Current(w, a.gen) THEN p
            ELSE IF a.backup = Empty THEN Clear(p)
            ELSE [p EXCEPT !.backup = a.backup]]
  BY DEF RunDone
<1>2. UNCHANGED <<content, journal, hand, forfeited, spent>>
  BY DEF RunDone
<1>3. spent \in Spent /\ panel[w] \in Panel /\ PanelOneRun(panel[w])
  BY DEF SoundInv, ReplaceTypeOK, EntriesOneRun
<1>4. a \in RunAnswer /\ a.backup \in Backup /\ OneRunEach(a.backup)
  BY <1>3 DEF Panel, PanelOneRun, RunAnswer
<1> DEFINE p == [panel[w] EXCEPT !.answers = @ \ {a}, !.pending = FALSE]
<1>5. /\ p \in Panel /\ p.backup = panel[w].backup /\ p.undo = panel[w].undo
      /\ p.left = panel[w].left /\ p.jobs = panel[w].jobs
      /\ p.answers = panel[w].answers \ {a}
  BY <1>3 DEF Panel
<1>6. panel' = [panel EXCEPT ![w] =
            IF a.kind # "Applied" \/ ~Current(w, a.gen) THEN p
            ELSE IF a.backup = Empty THEN Clear(p)
            ELSE [p EXCEPT !.backup = a.backup]]
  BY <1>1
<1> HIDE DEF p
<1>7. PanelOneRun(p)
  BY <1>3, <1>5 DEF PanelOneRun
<1>8. Clear(p) \in Panel /\ PanelOneRun(Clear(p))
  BY <1>5, <1>7, ClearPanel
<1> DEFINE q == [p EXCEPT !.backup = a.backup]
<1>9. q \in Panel /\ PanelOneRun(q)
  <2>1. /\ q \in Panel /\ q.backup = a.backup /\ q.undo = p.undo /\ q.left = p.left
        /\ q.jobs = p.jobs /\ q.answers = p.answers
    BY <1>4, <1>5 DEF Panel
  <2> QED BY <1>4, <1>7, <2>1 DEF PanelOneRun
<1>10. \E r \in {p, Clear(p), q} : panel' = [panel EXCEPT ![w] = r]
  BY <1>6
<1> HIDE DEF q
<1>11. PICK r \in {p, Clear(p), q} : panel' = [panel EXCEPT ![w] = r]
  BY <1>10
<1>12. r \in Panel /\ PanelOneRun(r)
  BY <1>5, <1>7, <1>8, <1>9, <1>11
<1> QED BY <1>2, <1>3, <1>11, <1>12, PanelSound

LEMMA LoadDoneSound ==
    ASSUME SoundInv, NEW w \in Window, LoadDone(w)
    PROVE  SoundInv'
<1>1. PICK a \in panel[w].answers :
        LET p == [panel[w] EXCEPT !.answers = @ \ {a}] IN
        panel' = [panel EXCEPT ![w] =
            IF Current(w, a.gen) THEN NextGen([p EXCEPT !.backup = a.backup]) ELSE p]
  BY DEF LoadDone
<1>2. UNCHANGED <<content, journal, hand, forfeited, spent>>
  BY DEF LoadDone
<1>3. spent \in Spent /\ panel[w] \in Panel /\ PanelOneRun(panel[w])
  BY DEF SoundInv, ReplaceTypeOK, EntriesOneRun
<1>4. a \in RunAnswer /\ a.backup \in Backup /\ OneRunEach(a.backup)
  BY <1>3 DEF Panel, PanelOneRun, RunAnswer
<1> DEFINE p == [panel[w] EXCEPT !.answers = @ \ {a}]
           q == [p EXCEPT !.backup = a.backup]
<1>5. /\ p \in Panel /\ p.backup = panel[w].backup /\ p.undo = panel[w].undo
      /\ p.left = panel[w].left /\ p.jobs = panel[w].jobs
      /\ p.answers = panel[w].answers \ {a}
  BY <1>3 DEF Panel
<1>6. panel' = [panel EXCEPT ![w] = IF Current(w, a.gen) THEN NextGen(q) ELSE p]
  BY <1>1
<1> HIDE DEF p
<1>7. /\ q \in Panel /\ q.backup = a.backup /\ q.undo = p.undo /\ q.left = p.left
      /\ q.jobs = p.jobs /\ q.answers = p.answers
  BY <1>4, <1>5 DEF Panel
<1> HIDE DEF q
<1>8. PanelOneRun(p) /\ NextGen(q) \in Panel /\ PanelOneRun(NextGen(q))
  BY <1>3, <1>4, <1>5, <1>7, NextGenPanel DEF PanelOneRun
<1>9. PICK r \in {p, NextGen(q)} : panel' = [panel EXCEPT ![w] = r]
  BY <1>6
<1>10. r \in Panel /\ PanelOneRun(r)
  BY <1>5, <1>8, <1>9
<1> QED BY <1>2, <1>3, <1>9, <1>10, PanelSound

LEMMA StartUndoSound ==
    ASSUME SoundInv, NEW w \in Window, StartUndo(w)
    PROVE  SoundInv'
<1> DEFINE p == [panel[w] EXCEPT !.pending = TRUE, !.undoing = TRUE,
                                 !.undo = panel[w].backup]
<1>1. /\ panel' = [panel EXCEPT ![w] = NextGen(p)]
      /\ UNCHANGED <<content, journal, hand, retired, forfeited>>
      /\ spent' = [spent EXCEPT !.undos = @ + 1]
  <2>1. panel' = [panel EXCEPT ![w] =
           NextGen([@ EXCEPT !.pending = TRUE, !.undoing = TRUE, !.undo = panel[w].backup])]
    BY DEF StartUndo
  <2> QED BY <2>1 DEF StartUndo
<1>2. spent \in Spent /\ panel[w] \in Panel /\ PanelOneRun(panel[w])
  BY DEF SoundInv, ReplaceTypeOK, EntriesOneRun
<1>3. spent' \in Spent /\ spent'.saves = spent.saves
  BY <1>1, <1>2 DEF Spent
<1>4. /\ p \in Panel /\ p.backup = panel[w].backup /\ p.undo = panel[w].backup
      /\ p.left = panel[w].left /\ p.jobs = panel[w].jobs /\ p.answers = panel[w].answers
  BY <1>2 DEF Panel
<1> HIDE DEF p
<1>5. NextGen(p) \in Panel /\ PanelOneRun(NextGen(p))
  BY <1>2, <1>4, NextGenPanel DEF PanelOneRun
<1> QED BY <1>1, <1>3, <1>5, PanelSound

LEMMA UndoDoneSound ==
    ASSUME SoundInv, NEW w \in Window, UndoDone(w)
    PROVE  SoundInv'
<1> DEFINE p == [panel[w] EXCEPT !.pending = FALSE, !.undoing = FALSE, !.left = Empty]
<1>1. /\ panel' = [panel EXCEPT ![w] = IF panel[w].left = Empty THEN Clear(p)
                                      ELSE Keep(p, panel[w].left)]
      /\ UNCHANGED <<content, journal, hand, spent>>
  BY DEF UndoDone
<1>2. spent \in Spent /\ panel[w] \in Panel /\ PanelOneRun(panel[w])
  BY DEF SoundInv, ReplaceTypeOK, EntriesOneRun
<1>3. /\ p \in Panel /\ p.backup = panel[w].backup /\ p.undo = panel[w].undo
      /\ p.left = Empty /\ p.jobs = panel[w].jobs /\ p.answers = panel[w].answers
      /\ panel[w].left \in Backup
  BY <1>2, EmptyBackup DEF Panel
<1> HIDE DEF p
<1>4. PanelOneRun(p)
  BY <1>2, <1>3, EmptyBackup DEF PanelOneRun
<1>5. /\ Clear(p) \in Panel /\ PanelOneRun(Clear(p))
      /\ Keep(p, panel[w].left) \in Panel /\ PanelOneRun(Keep(p, panel[w].left))
  BY <1>2, <1>3, <1>4, ClearPanel, KeepPanel DEF PanelOneRun
<1>6. PICK r \in {Clear(p), Keep(p, panel[w].left)} : panel' = [panel EXCEPT ![w] = r]
  BY <1>1
<1> QED BY <1>1, <1>2, <1>5, <1>6, PanelSound

\* Files and panels change, and no journal or work under the lock.
LEMMA FilesSound ==
    ASSUME SoundInv, content' \in [File -> Content], spent' \in Spent,
           \A f \in File : content'[f].save <= spent'.saves,
           UNCHANGED <<journal, hand>>,
           panel' \in [Window -> Panel], \A w \in Window : PanelOneRun(panel'[w])
    PROVE  SoundInv'
<1>1. ReplaceTypeOK' /\ PlacedRight(hand)'
  BY DEF SoundInv, ReplaceTypeOK
<1>2. EntriesOneRun'
  BY DEF SoundInv, EntriesOneRun
<1> QED BY <1>1, <1>2 DEF SoundInv

\* A panel whose undo is through with a file, and one that keeps it for later.
Taken(p, f) == [p EXCEPT !.undo[f] = NoEntry]
KeptFor(p, f) == [Taken(p, f) EXCEPT !.left[f] = p.undo[f]]

\* One file is restored, kept for later, or left as it is.
LEMMA UndoFileParts ==
    ASSUME SoundInv, NEW w \in Window, NEW f \in File, UndoFile(w, f)
    PROVE  LET entry == panel[w].undo[f]
               taken == Taken(panel[w], f)
               kept  == KeptFor(panel[w], f)
           IN  /\ panel[w].undoing /\ entry \in Entry /\ entry # NoEntry /\ OneRun(entry)
               /\ \/ /\ content' = content /\ content[f] = entry.old
                     /\ panel' = [panel EXCEPT ![w] = taken]
                  \/ /\ content[f] = entry.new
                     /\ content' = [content EXCEPT ![f] = entry.old]
                     /\ panel' = [panel EXCEPT ![w] = taken]
                  \/ /\ \/ content' = content
                        \/ /\ content[f] = entry.new
                           /\ content' = [content EXCEPT ![f] = entry.old]
                     /\ panel' = [panel EXCEPT ![w] = kept]
               /\ UNCHANGED <<journal, hand, retired, forfeited>>
               /\ spent' \in Spent /\ spent'.saves = spent.saves /\ spent'.runs = spent.runs
<1>1. spent \in Spent /\ panel \in [Window -> Panel] /\ panel[w] \in Panel
  BY DEF SoundInv, ReplaceTypeOK
<1>2. panel[w].undo[f] # NoEntry /\ panel[w].undoing /\ UNCHANGED <<journal, hand, retired, forfeited>>
  BY DEF UndoFile
<1>3. panel[w].undo[f] \in Entry /\ OneRun(panel[w].undo[f])
  BY <1>1, <1>2 DEF SoundInv, EntriesOneRun, PanelOneRun, OneRunEach, Panel, Backup
<1> DEFINE entry == panel[w].undo[f]
           takenAll == [panel EXCEPT ![w].undo[f] = NoEntry]
           keptAll == [takenAll EXCEPT ![w].left[f] = entry]
           taken == Taken(panel[w], f)
           kept  == KeptFor(panel[w], f)
<1>4. takenAll = [panel EXCEPT ![w] = taken]
  BY <1>1 DEF Taken
<1>5. keptAll = [panel EXCEPT ![w] = kept]
  BY <1>1 DEF KeptFor, Taken
<1>6. \/ /\ content[f] = entry.old /\ panel' = takenAll /\ UNCHANGED <<content, spent>>
      \/ /\ panel' = keptAll /\ UNCHANGED <<content, spent>>
      \/ /\ content[f] = entry.new
         /\ content' = [content EXCEPT ![f] = entry.old]
         /\ panel' = takenAll /\ UNCHANGED spent
      \/ /\ Fails /\ panel' = keptAll
         /\ \/ UNCHANGED content
            \/ /\ content[f] = entry.new
               /\ content' = [content EXCEPT ![f] = entry.old]
  BY DEF UndoFile, Restorable
<1>7. spent' \in Spent /\ spent'.saves = spent.saves /\ spent'.runs = spent.runs
  BY <1>1, <1>6, FailsSpends
<1> QED BY <1>2, <1>3, <1>4, <1>5, <1>6, <1>7

\* What a panel has left to undo, after one file.
LEMMA UndoFilePanel ==
    ASSUME NEW p \in Panel, PanelOneRun(p), NEW f \in File, p.undo[f] # NoEntry
    PROVE  /\ \A q \in {Taken(p, f), KeptFor(p, f)} :
                 /\ q \in Panel /\ PanelOneRun(q)
                 /\ q.gen = p.gen /\ q.backup = p.backup /\ q.pending = p.pending
                 /\ q.jobs = p.jobs /\ q.answers = p.answers /\ q.undoing = p.undoing
                 /\ q.undo = [p.undo EXCEPT ![f] = NoEntry]
           /\ Taken(p, f).left = p.left
           /\ KeptFor(p, f).left = [p.left EXCEPT ![f] = p.undo[f]]
<1> DEFINE taken == Taken(p, f)
           kept  == KeptFor(p, f)
<1>1. p.undo \in Backup /\ p.left \in Backup /\ p.undo[f] \in Entry
  BY DEF Panel, Backup
<1>2. /\ [p.undo EXCEPT ![f] = NoEntry] \in Backup
      /\ OneRunEach([p.undo EXCEPT ![f] = NoEntry])
      /\ [p.left EXCEPT ![f] = p.undo[f]] \in Backup
      /\ OneRunEach([p.left EXCEPT ![f] = p.undo[f]])
  BY <1>1, BackupWith DEF PanelOneRun, OneRunEach
<1>3. /\ taken \in Panel /\ taken.gen = p.gen /\ taken.backup = p.backup
      /\ taken.pending = p.pending /\ taken.jobs = p.jobs /\ taken.answers = p.answers
      /\ taken.undoing = p.undoing /\ taken.undo = [p.undo EXCEPT ![f] = NoEntry]
      /\ taken.left = p.left
  BY <1>2 DEF Panel, Taken
<1> HIDE DEF taken
<1>4. /\ kept \in Panel /\ kept.gen = p.gen /\ kept.backup = p.backup
      /\ kept.pending = p.pending /\ kept.jobs = p.jobs /\ kept.answers = p.answers
      /\ kept.undoing = p.undoing /\ kept.undo = [p.undo EXCEPT ![f] = NoEntry]
      /\ kept.left = [p.left EXCEPT ![f] = p.undo[f]]
  <2>1. kept = [taken EXCEPT !.left[f] = p.undo[f]]
    BY DEF KeptFor, taken
  <2> QED BY <1>2, <1>3, <2>1 DEF Panel
<1> HIDE DEF kept
<1>5. PanelOneRun(taken) /\ PanelOneRun(kept)
  BY <1>2, <1>3, <1>4 DEF PanelOneRun
<1>6. \A q \in {taken, kept} :
        /\ q \in Panel /\ PanelOneRun(q)
        /\ q.gen = p.gen /\ q.backup = p.backup /\ q.pending = p.pending
        /\ q.jobs = p.jobs /\ q.answers = p.answers /\ q.undoing = p.undoing
        /\ q.undo = [p.undo EXCEPT ![f] = NoEntry]
  BY <1>3, <1>4, <1>5
<1> QED BY <1>3, <1>4, <1>6 DEF taken, kept

LEMMA UndoFileSound ==
    ASSUME SoundInv, NEW w \in Window, NEW f \in File, UndoFile(w, f)
    PROVE  SoundInv'
<1> DEFINE entry == panel[w].undo[f]
           taken == Taken(panel[w], f)
           kept  == KeptFor(panel[w], f)
<1>1. /\ entry \in Entry /\ entry # NoEntry /\ OneRun(entry)
      /\ \E q \in {taken, kept} : panel' = [panel EXCEPT ![w] = q]
      /\ \/ content' = content
         \/ content[f] = entry.new /\ content' = [content EXCEPT ![f] = entry.old]
      /\ UNCHANGED <<journal, hand>>
      /\ spent' \in Spent /\ spent'.saves = spent.saves
  BY UndoFileParts
<1>2. /\ content \in [File -> Content] /\ panel \in [Window -> Panel] /\ panel[w] \in Panel
      /\ \A g \in File : content[g].save <= spent.saves
      /\ \A v \in Window : PanelOneRun(panel[v])
  BY DEF SoundInv, ReplaceTypeOK, EntriesOneRun
<1>3. \A q \in {taken, kept} : q \in Panel /\ PanelOneRun(q)
  <2>1. panel[w] \in Panel /\ PanelOneRun(panel[w]) /\ panel[w].undo[f] # NoEntry
    BY <1>1, <1>2
  <2> QED BY <2>1, UndoFilePanel
<1> HIDE DEF taken, kept
<1>4. panel' \in [Window -> Panel] /\ \A v \in Window : PanelOneRun(panel'[v])
  BY <1>1, <1>2, <1>3
<1>5. entry.old \in Content /\ entry.old.save = entry.new.save
  BY <1>1, EntryParts DEF OneRun
<1> HIDE DEF entry
<1>6. content' \in [File -> Content] /\ \A g \in File : content'[g].save <= spent'.saves
  BY <1>1, <1>2, <1>5
<1> QED BY <1>1, <1>4, <1>6, FilesSound

LEMMA SaveFileSound ==
    ASSUME SoundInv, NEW f \in File, SaveFile(f)
    PROVE  SoundInv'
<1>1. /\ content' = [content EXCEPT ![f] = [save |-> @.save + 1, runs |-> <<>>]]
      /\ spent.saves < MaxSaves /\ spent' = [spent EXCEPT !.saves = @ + 1]
      /\ UNCHANGED <<journal, hand, panel, retired, forfeited>>
  BY DEF SaveFile
<1>2. /\ content \in [File -> Content] /\ spent \in Spent /\ panel \in [Window -> Panel]
      /\ \A g \in File : content[g].save <= spent.saves
      /\ \A v \in Window : PanelOneRun(panel[v])
  BY DEF SoundInv, ReplaceTypeOK, EntriesOneRun
<1>3. /\ spent' \in Spent /\ spent'.saves = spent.saves + 1 /\ spent.saves \in Nat
      /\ MaxSaves \in Nat
  BY <1>1, <1>2, BoundsAssumption DEF Spent
<1>4. \A g \in File : content[g].save \in Nat /\ content[g] \in Content
  BY <1>2, BoundsAssumption DEF Content
<1>5. [save |-> content[f].save + 1, runs |-> <<>>] \in Content
  BY <1>1, <1>2, <1>3, <1>4 DEF Content
<1>6. content' \in [File -> Content] /\ \A g \in File : content'[g].save <= spent'.saves
  BY <1>1, <1>2, <1>3, <1>4, <1>5
<1> QED BY <1>1, <1>2, <1>3, <1>6, FilesSound

LEMMA CrashSound ==
    ASSUME SoundInv, Crash
    PROVE  SoundInv'
<1>1. /\ panel' = [w \in Window |-> ClosedPanel] /\ hand' = IdleHand
      /\ spent' = [spent EXCEPT !.crashes = @ + 1]
      /\ UNCHANGED <<content, journal, forfeited>>
  BY DEF Crash
<1>2. hand' \in Hand /\ hand'.done = Empty /\ PlacedRight(hand')
  BY <1>1, EmptyBackup, BoundsAssumption, SentinelAssumption DEF Hand, IdleHand, PlacedRight
<1>3. ClosedPanel \in Panel /\ PanelOneRun(ClosedPanel)
  BY EmptyBackup DEF Panel, ClosedPanel, PanelOneRun
<1>4. spent' \in Spent /\ spent'.saves = spent.saves
  BY <1>1 DEF SoundInv, ReplaceTypeOK, Spent
<1>5. ReplaceTypeOK'
  BY <1>1, <1>2, <1>3, <1>4 DEF SoundInv, ReplaceTypeOK
<1>6. EntriesOneRun'
  BY <1>1, <1>2, <1>3, EmptyBackup DEF SoundInv, EntriesOneRun
<1> QED BY <1>2, <1>5, <1>6 DEF SoundInv

-----------------------------------------------------------------------------
(* The work under the lock. *)

LEMMA OfferedSound ==
    ASSUME SoundInv
    PROVE  /\ Offered(journal) \in Backup /\ OneRunEach(Offered(journal))
           /\ \A f \in File : Offered(journal)[f] \in {NoEntry, journal.entry[f]}
<1>1. journal.entry \in Backup /\ OneRunEach(journal.entry)
  BY DEF SoundInv, ReplaceTypeOK, EntriesOneRun, Journal
<1>2. \A f \in File : Offered(journal)[f] \in {NoEntry, journal.entry[f]}
  BY DEF Offered
<1>3. Offered(journal) = [f \in File |-> Offered(journal)[f]]
  BY DEF Offered
<1> QED BY <1>1, <1>2, <1>3, Zenon DEF Backup, OneRunEach

\* What a worker starts with.
LEMMA HoldStepSound ==
    ASSUME NEW w \in Window, NEW j \in WorkItem, OneRunEach(j.backup),
           j.kind = "Apply" => j.run > 0,
           NEW step \in {"Next", "Manifest", "Mark"}, step = "Next" <=> j.kind = "Apply"
    PROVE  LET h == Hold(w, j, step) IN
           /\ h \in Hand /\ PlacedRight(h) /\ OneRunEach(h.done)
           /\ h.win = w /\ h.kind = j.kind /\ h.gen = j.gen /\ h.run = j.run
           /\ h.done = j.backup /\ h.file = NoFile /\ ~h.prepared /\ ~h.armed
           /\ h.step = step
<1> DEFINE h == Hold(w, j, step)
<1>1. /\ h.win = w /\ h.kind = j.kind /\ h.gen = j.gen /\ h.run = j.run
      /\ h.done = j.backup /\ h.file = NoFile /\ h.prepared = FALSE /\ h.armed = FALSE
      /\ h.step = step
  BY DEF Hold, IdleHand
<1>2. h \in Hand
  <2>1. Keys(j.backup) \subseteq File
    BY DEF Keys
  <2> QED BY <2>1 DEF Hold, IdleHand, Hand, WorkItem
<1>3. PlacedRight(h)
  <2>1. h.kind \in {"Apply", "Save", "Delete", "Load"}
    BY <1>1 DEF WorkItem
  <2> QED BY <1>1, <2>1 DEF PlacedRight
<1> QED BY <1>1, <1>2, <1>3

LEMMA HoldSound ==
    ASSUME NEW w \in Window, NEW j \in WorkItem, OneRunEach(j.backup),
           j.kind = "Apply" => j.run > 0
    PROVE  LET h == Hold(w, j, FirstStep(j)) IN
           /\ h \in Hand /\ PlacedRight(h) /\ OneRunEach(h.done)
           /\ h.win = w /\ h.kind = j.kind /\ h.gen = j.gen /\ h.run = j.run
           /\ h.done = j.backup /\ h.file = NoFile /\ ~h.prepared /\ ~h.armed
           /\ h.step = FirstStep(j)
<1>1. /\ FirstStep(j) \in {"Next", "Manifest", "Mark"}
      /\ FirstStep(j) = "Next" <=> j.kind = "Apply"
  BY DEF FirstStep, WorkItem
<1> QED BY <1>1, HoldStepSound

LEMMA TakeLockSound ==
    ASSUME SoundInv, NEW w \in Window, TakeLock(w)
    PROVE  SoundInv'
<1>1. PICK j \in panel[w].jobs :
         \/ /\ UNCHANGED hand
            /\ \/ Answer(w, j, "Superseded", Empty)
               \/ panel' = [panel EXCEPT ![w].jobs = @ \ {j}]
         \/ /\ Answer(w, j, "Load", Offered(journal)) /\ UNCHANGED hand
         \/ /\ panel' = [panel EXCEPT ![w].jobs = @ \ {j}]
            /\ hand' = Hold(w, j, FirstStep(j))
  BY DEF TakeLock
<1>2. /\ panel \in [Window -> Panel] /\ panel[w] \in Panel /\ PanelOneRun(panel[w])
      /\ spent \in Spent /\ \A v \in Window : PanelOneRun(panel[v])
  BY DEF SoundInv, ReplaceTypeOK, EntriesOneRun
<1>3. j \in WorkItem /\ OneRunEach(j.backup) /\ (j.kind = "Apply" => j.run > 0)
  BY <1>2 DEF Panel, PanelOneRun
<1>4. UNCHANGED <<content, journal, spent>>
  BY DEF TakeLock
<1> DEFINE done == [panel[w] EXCEPT !.jobs = @ \ {j}]
           answered(kind, b) ==
               [done EXCEPT !.answers = @ \cup {[kind |-> kind, gen |-> j.gen, backup |-> b]}]
<1>5. done \in Panel /\ PanelOneRun(done)
  <2>1. /\ done \in Panel /\ done.backup = panel[w].backup /\ done.undo = panel[w].undo
        /\ done.left = panel[w].left /\ done.answers = panel[w].answers
        /\ done.jobs = panel[w].jobs \ {j}
    BY <1>2 DEF Panel
  <2> QED BY <1>2, <2>1 DEF PanelOneRun
<1>6. ASSUME NEW kind \in {"Superseded", "Load"}, NEW b \in Backup, OneRunEach(b)
      PROVE  answered(kind, b) \in Panel /\ PanelOneRun(answered(kind, b))
  <2> HIDE DEF done
  <2>1. [kind |-> kind, gen |-> j.gen, backup |-> b] \in RunAnswer
    BY <1>3, <1>6 DEF RunAnswer, WorkItem
  <2>2. /\ answered(kind, b) \in Panel /\ answered(kind, b).backup = done.backup
        /\ answered(kind, b).undo = done.undo /\ answered(kind, b).left = done.left
        /\ answered(kind, b).jobs = done.jobs
        /\ answered(kind, b).answers =
               done.answers \cup {[kind |-> kind, gen |-> j.gen, backup |-> b]}
    BY <1>5, <2>1 DEF Panel
  <2> QED BY <1>5, <1>6, <2>2 DEF PanelOneRun
<1>7. ASSUME NEW kind, NEW b, Answer(w, j, kind, b)
      PROVE  panel' = [panel EXCEPT ![w] = answered(kind, b)]
  BY <1>2, <1>7 DEF Answer, Panel
<1>8. panel' = [panel EXCEPT ![w].jobs = @ \ {j}] => panel' = [panel EXCEPT ![w] = done]
  BY <1>2
<1>9. /\ Empty \in Backup /\ OneRunEach(Empty)
      /\ Offered(journal) \in Backup /\ OneRunEach(Offered(journal))
  BY EmptyBackup, OfferedSound
<1> HIDE DEF done, answered
<1>10. CASE hand' = hand
  <2>1. \E p \in {done, answered("Superseded", Empty), answered("Load", Offered(journal))} :
           panel' = [panel EXCEPT ![w] = p]
    <3>1. CASE Answer(w, j, "Superseded", Empty)
      BY <1>7, <3>1
    <3>2. CASE Answer(w, j, "Load", Offered(journal))
      BY <1>7, <3>2
    <3>3. CASE panel' = [panel EXCEPT ![w].jobs = @ \ {j}]
      BY <1>8, <3>3
    <3> QED BY <1>1, <3>1, <3>2, <3>3
  <2>2. PICK p \in {done, answered("Superseded", Empty), answered("Load", Offered(journal))} :
           panel' = [panel EXCEPT ![w] = p]
    BY <2>1
  <2>3. p \in Panel /\ PanelOneRun(p)
    <3>1. CASE p = done
      BY <1>5, <3>1
    <3>2. CASE p = answered("Superseded", Empty)
      BY <1>6, <1>9, <3>2
    <3>3. CASE p = answered("Load", Offered(journal))
      BY <1>6, <1>9, <3>3
    <3> QED BY <3>1, <3>2, <3>3
  <2> QED BY <1>2, <1>4, <1>10, <2>2, <2>3, PanelSound
<1>11. CASE panel' = [panel EXCEPT ![w].jobs = @ \ {j}] /\ hand' = Hold(w, j, FirstStep(j))
  <2>1. panel' \in [Window -> Panel] /\ \A v \in Window : PanelOneRun(panel'[v])
    BY <1>2, <1>5, <1>8, <1>11
  <2>2. hand' \in Hand /\ PlacedRight(hand') /\ OneRunEach(hand'.done)
    BY <1>3, <1>11, HoldSound
  <2>3. ReplaceTypeOK'
    BY <1>4, <2>1, <2>2 DEF SoundInv, ReplaceTypeOK
  <2>4. EntriesOneRun'
    BY <1>4, <2>1, <2>2 DEF SoundInv, EntriesOneRun
  <2> QED BY <2>2, <2>3, <2>4 DEF SoundInv
<1> QED BY <1>1, <1>10, <1>11

\* The steps work under the lock goes on with.
LEMMA HandGoesOn ==
    ASSUME SoundInv, hand.kind # "None"
    PROVE  /\ \A s \in {"Unlink", "Prune", "Manifest", "Write", "Mark", "Entry", "End"} :
                /\ ToStep(s) \in Hand /\ ToStep(s).done = hand.done
                /\ ToStep(s).step = s /\ ToStep(s).kind = hand.kind
                /\ ToStep(s).file = hand.file /\ ToStep(s).todo = hand.todo
                /\ ToStep(s).prepared = hand.prepared /\ ToStep(s).armed = hand.armed
                /\ ToStep(s).run = hand.run /\ ToStep(s).gen = hand.gen
                /\ ToStep(s).win = hand.win
           /\ NextFile \in Hand /\ NextFile.done = hand.done
           /\ NextFile.step = "Next" /\ NextFile.file = NoFile /\ NextFile.kind = hand.kind
           /\ NextFile.todo = hand.todo /\ NextFile.prepared = hand.prepared
           /\ NextFile.armed = hand.armed /\ NextFile.run = hand.run
           /\ NextFile.gen = hand.gen /\ NextFile.win = hand.win
<1>1. hand \in Hand
  BY DEF SoundInv, ReplaceTypeOK
<1> QED BY <1>1 DEF ToStep, NextFile, Hand

LEMMA GiveUpSound ==
    ASSUME SoundInv, hand.kind # "None"
    PROVE  /\ GiveUp \in Hand /\ PlacedRight(GiveUp) /\ GiveUp.done = hand.done
           /\ NextFile \in Hand /\ (hand.kind = "Apply" => PlacedRight(NextFile))
           /\ ToStep("End") \in Hand
           /\ hand.file = NoFile => PlacedRight(ToStep("End"))
<1>1. PlacedRight(hand) /\ hand \in Hand
  BY DEF SoundInv, ReplaceTypeOK
<1>2. hand.kind = "Apply" => PlacedRight(NextFile)
  BY <1>1, HandGoesOn DEF PlacedRight
<1>3. hand.file = NoFile => PlacedRight(ToStep("End"))
  BY <1>1, HandGoesOn DEF PlacedRight
<1>4. hand.file # NoFile => hand.kind = "Apply"
  BY <1>1 DEF PlacedRight
<1> QED BY <1>2, <1>3, <1>4, HandGoesOn DEF GiveUp

\* The journal with a member less.
LEMMA WithoutSound ==
    ASSUME NEW j \in Journal, OneRunEach(j.entry), NEW m \in Members(j) \cup File
    PROVE  /\ Without(j, m) \in Journal /\ OneRunEach(Without(j, m).entry)
           /\ \A f \in File : Without(j, m).entry[f] \in {NoEntry, j.entry[f]}
<1>1. j.entry \in Backup
  BY DEF Journal
<1>2. CASE m = "marker"
  BY <1>1, <1>2 DEF Without, Journal
<1>3. CASE m # "marker" /\ m = "manifest"
  BY <1>1, <1>3 DEF Without, Journal
<1>4. CASE m # "marker" /\ m # "manifest"
  <2>1. m \in File
    BY <1>4, Zenon DEF Members
  <2>2. Without(j, m) = [j EXCEPT !.entry = [j.entry EXCEPT ![m] = NoEntry]]
    BY <1>4 DEF Without
  <2>3. /\ [j.entry EXCEPT ![m] = NoEntry] \in Backup
        /\ OneRunEach([j.entry EXCEPT ![m] = NoEntry])
        /\ [j.entry EXCEPT ![m] = NoEntry][m] = NoEntry
        /\ \A g \in File : g # m => [j.entry EXCEPT ![m] = NoEntry][g] = j.entry[g]
    BY <1>1, <2>1, BackupWith
  <2>4. /\ Without(j, m) \in Journal
        /\ Without(j, m).entry = [j.entry EXCEPT ![m] = NoEntry]
    BY <2>2, <2>3 DEF Journal
  <2> QED BY <2>3, <2>4
<1> QED BY <1>2, <1>3, <1>4

LEMMA CleanedSound ==
    ASSUME NEW j \in Journal, OneRunEach(j.entry), hand \in Hand, NEW c \in Cleaned(j)
    PROVE  c \in Journal /\ OneRunEach(c.entry)
<1>1. CASE c = j
  BY <1>1
<1>2. CASE hand.file # NoFile /\ c = Without(j, hand.file)
  <2>1. hand.file \in File
    BY <1>2 DEF Hand
  <2> QED BY <1>2, <2>1, WithoutSound
<1> QED BY <1>1, <1>2 DEF Cleaned

\* A worker takes the lock and a read fails: the journal loses at most a member.
LEMMA MisreadSound ==
    ASSUME SoundInv, NEW w \in Window, Misread(w)
    PROVE  SoundInv'
<1> DEFINE done(j) == [panel[w] EXCEPT !.jobs = @ \ {j}]
           answer(j) == [kind |-> "Load", gen |-> j.gen, backup |-> Offered(journal)]
           answered(j) == [done(j) EXCEPT !.answers = @ \cup {answer(j)}]
<1>1. PICK j \in panel[w].jobs :
         /\ \/ journal' \in {journal, Unmarked}
            \/ \E m \in Members(journal) : journal' = Without(journal, m)
         /\ \/ /\ panel' = [panel EXCEPT ![w].jobs = @ \ {j}]
               /\ hand' \in {Hold(w, j, "Mark"), Hold(w, j, "Manifest")}
               /\ j.kind \in {"Load", "Save"}
            \/ Answer(w, j, "Load", Offered(journal)) /\ hand' = hand
  BY DEF Misread
<1>2. UNCHANGED content /\ Fails
  BY DEF Misread
<1>3. /\ panel \in [Window -> Panel] /\ panel[w] \in Panel /\ PanelOneRun(panel[w])
      /\ spent \in Spent /\ \A v \in Window : PanelOneRun(panel[v])
      /\ journal \in Journal /\ OneRunEach(journal.entry) /\ hand \in Hand
      /\ PlacedRight(hand) /\ OneRunEach(hand.done)
  BY DEF SoundInv, ReplaceTypeOK, EntriesOneRun
<1>4. j \in WorkItem /\ OneRunEach(j.backup) /\ (j.kind = "Apply" => j.run > 0)
  BY <1>3 DEF Panel, PanelOneRun
<1>5. journal' \in Journal /\ OneRunEach(journal'.entry)
  <2>1. Unmarked \in Journal /\ Unmarked.entry = journal.entry
    BY <1>3 DEF Unmarked, Journal
  <2> QED BY <1>1, <1>3, <2>1, WithoutSound
<1>6. spent' \in Spent /\ spent'.saves = spent.saves
  BY <1>2, <1>3, FailsSpends
<1>7. done(j) \in Panel /\ PanelOneRun(done(j))
  <2>1. /\ done(j) \in Panel /\ done(j).backup = panel[w].backup
        /\ done(j).undo = panel[w].undo /\ done(j).left = panel[w].left
        /\ done(j).answers = panel[w].answers /\ done(j).jobs = panel[w].jobs \ {j}
    BY <1>3 DEF Panel
  <2> QED BY <1>3, <2>1 DEF PanelOneRun
<1>8. answered(j) \in Panel /\ PanelOneRun(answered(j))
  <2>1. answer(j) \in RunAnswer /\ OneRunEach(answer(j).backup)
    BY <1>4, OfferedSound DEF RunAnswer, WorkItem
  <2> HIDE DEF done, answer
  <2>2. /\ answered(j) \in Panel /\ answered(j).backup = done(j).backup
        /\ answered(j).undo = done(j).undo /\ answered(j).left = done(j).left
        /\ answered(j).jobs = done(j).jobs
        /\ answered(j).answers = done(j).answers \cup {answer(j)}
    BY <1>7, <2>1 DEF Panel
  <2> QED BY <1>7, <2>1, <2>2 DEF PanelOneRun
<1>9. \/ panel' = [panel EXCEPT ![w] = done(j)]
      \/ panel' = [panel EXCEPT ![w] = answered(j)]
  BY <1>1, <1>3 DEF Answer, Panel
<1> HIDE DEF done, answered
<1>10. panel' \in [Window -> Panel] /\ \A v \in Window : PanelOneRun(panel'[v])
  BY <1>3, <1>7, <1>8, <1>9
<1>11. hand' \in Hand /\ PlacedRight(hand') /\ OneRunEach(hand'.done)
  <2>1. CASE hand' = hand
    BY <1>3, <2>1
  <2>2. CASE hand' \in {Hold(w, j, "Mark"), Hold(w, j, "Manifest")} /\ j.kind \in {"Load", "Save"}
    <3>1. PICK step \in {"Mark", "Manifest"} : hand' = Hold(w, j, step)
      BY <2>2
    <3> QED BY <1>4, <2>2, <3>1, HoldStepSound
  <2> QED BY <1>1, <2>1, <2>2
<1>12. ReplaceTypeOK'
  BY <1>2, <1>5, <1>6, <1>10, <1>11 DEF SoundInv, ReplaceTypeOK
<1>13. EntriesOneRun'
  BY <1>5, <1>10, <1>11 DEF EntriesOneRun
<1> QED BY <1>11, <1>12, <1>13 DEF SoundInv

\* Work with a step is somebody's.
LEMMA Working ==
    ASSUME SoundInv, hand.step # "None"
    PROVE  /\ hand.kind \in {"Apply", "Save", "Delete", "Load"} /\ hand \in Hand
           /\ PlacedRight(hand) /\ hand.win \in Window
           /\ journal \in Journal /\ OneRunEach(journal.entry) /\ OneRunEach(hand.done)
           /\ hand.done \in Backup /\ spent \in Spent /\ content \in [File -> Content]
<1>1. hand \in Hand /\ journal \in Journal /\ PlacedRight(hand) /\ spent \in Spent
      /\ OneRunEach(journal.entry) /\ OneRunEach(hand.done) /\ content \in [File -> Content]
  BY DEF SoundInv, ReplaceTypeOK, EntriesOneRun
<1>2. hand.kind # "None"
  BY <1>1 DEF PlacedRight, IdleHand
<1> QED BY <1>1, <1>2 DEF Hand, PlacedRight

LEMMA ClearedSound ==
    ASSUME SoundInv, hand.step \in {"Mark", "Unlink"}
    PROVE  Cleared \in Hand /\ PlacedRight(Cleared) /\ Cleared.done = hand.done
<1>1. PlacedRight(hand) /\ hand \in Hand /\ hand.kind # "None" /\ hand.win \in Window
  BY Working
<1>2. CASE hand.file # NoFile
  <2>1. /\ Cleared \in Hand /\ Cleared.done = hand.done /\ Cleared.kind = hand.kind
        /\ Cleared.file = hand.file /\ Cleared.step = "Entry" /\ Cleared.run = hand.run
        /\ Cleared.win = hand.win
    BY <1>1, <1>2 DEF Cleared, Hand
  <2> QED BY <1>1, <1>2, <2>1 DEF PlacedRight, Hand
<1>3. CASE hand.file = NoFile /\ hand.kind = "Save"
  BY <1>1, <1>3, HandGoesOn DEF Cleared, PlacedRight
<1>4. CASE hand.file = NoFile /\ hand.kind # "Save"
  BY <1>1, <1>4, HandGoesOn DEF Cleared, PlacedRight
<1> QED BY <1>2, <1>3, <1>4

LEMMA MarkSound ==
    ASSUME SoundInv, Mark
    PROVE  SoundInv'
<1>1. /\ hand.step = "Mark" /\ UNCHANGED <<content, panel>>
      /\ journal' = journal \/ \E b \in BOOLEAN : journal' = [journal EXCEPT !.marker = b]
      /\ hand' \in {Cleared, ToStep("Unlink"), GiveUp, hand}
      /\ spent' = spent \/ Fails
  BY DEF Mark, Step, Unmarked
<1>2. /\ hand.kind # "None" /\ hand \in Hand /\ PlacedRight(hand) /\ journal \in Journal
      /\ OneRunEach(journal.entry) /\ OneRunEach(hand.done) /\ spent \in Spent
  BY <1>1, Working
<1>3. journal' \in Journal /\ OneRunEach(journal'.entry)
  BY <1>1, <1>2 DEF Journal
<1>4. spent' \in Spent /\ spent'.saves = spent.saves
  BY <1>1, <1>2, FailsSpends
<1>5. PlacedRight(ToStep("Unlink"))
  BY <1>1, <1>2, HandGoesOn DEF PlacedRight
<1>6. hand' \in Hand /\ PlacedRight(hand') /\ hand'.done = hand.done
  BY <1>1, <1>2, <1>5, HandGoesOn, GiveUpSound, ClearedSound
<1> QED BY <1>1, <1>2, <1>3, <1>4, <1>6, HandSound

LEMMA UnlinkSound ==
    ASSUME SoundInv, Unlink
    PROVE  SoundInv'
<1>1. /\ hand.step = "Unlink" /\ UNCHANGED <<content, panel>>
      /\ \/ journal' = journal
         \/ \E m \in Members(journal) : journal' = Without(journal, m)
      /\ hand' \in {Cleared, hand, GiveUp}
      /\ spent' = spent \/ Fails
  BY DEF Unlink, Step
<1>2. /\ hand.kind # "None" /\ hand \in Hand /\ PlacedRight(hand) /\ journal \in Journal
      /\ OneRunEach(journal.entry) /\ OneRunEach(hand.done) /\ spent \in Spent
  BY <1>1, Working
<1>3. journal' \in Journal /\ OneRunEach(journal'.entry)
  BY <1>1, <1>2, WithoutSound
<1>4. spent' \in Spent /\ spent'.saves = spent.saves
  BY <1>1, <1>2, FailsSpends
<1>5. hand' \in Hand /\ PlacedRight(hand') /\ hand'.done = hand.done
  BY <1>1, <1>2, GiveUpSound, ClearedSound
<1> QED BY <1>1, <1>2, <1>3, <1>4, <1>5, HandSound

LEMMA NextFilesSound ==
    ASSUME SoundInv, TakeFile \/ SkipFile \/ EndRun
    PROVE  SoundInv'
<1>1. hand.step = "Next" /\ UNCHANGED <<content, journal, panel, spent>>
  BY DEF TakeFile, SkipFile, EndRun, Step
<1>2. /\ hand.kind = "Apply" /\ hand \in Hand /\ PlacedRight(hand) /\ journal \in Journal
      /\ OneRunEach(journal.entry) /\ OneRunEach(hand.done) /\ spent \in Spent
      /\ hand.win \in Window /\ hand.run > 0 /\ hand.file = NoFile
  <2>1. hand.kind # "None" /\ hand \in Hand /\ PlacedRight(hand)
    BY <1>1, Working
  <2>2. hand.kind = "Apply"
    BY <1>1, <2>1 DEF PlacedRight
  <2> QED BY <1>1, <2>1, <2>2, Working DEF PlacedRight
<1>3. hand' \in Hand /\ PlacedRight(hand') /\ hand'.done = hand.done
  <2>1. CASE TakeFile
    <3>1. PICK f \in hand.todo :
             hand' = [hand EXCEPT !.todo = @ \ {f}, !.file = f,
                                  !.step = IF hand.prepared THEN "Entry" ELSE "Mark"]
      BY <2>1 DEF TakeFile
    <3>2. f \in File
      BY <1>2 DEF Hand
    <3>3. /\ hand' \in Hand /\ hand'.done = hand.done /\ hand'.kind = "Apply"
          /\ hand'.file \in File /\ hand'.step \in {"Entry", "Mark"} /\ hand'.run = hand.run
          /\ hand'.win = hand.win
      BY <1>2, <3>1, <3>2 DEF Hand
    <3> QED BY <1>2, <3>3 DEF PlacedRight
  <2>2. CASE SkipFile
    <3>1. PICK f \in hand.todo : hand' = [hand EXCEPT !.todo = @ \ {f}]
      BY <2>2 DEF SkipFile
    <3>2. /\ hand' \in Hand /\ hand'.done = hand.done /\ hand'.kind = "Apply"
          /\ hand'.file = hand.file /\ hand'.step = hand.step /\ hand'.run = hand.run
          /\ hand'.win = hand.win
      BY <1>2, <3>1 DEF Hand
    <3> QED BY <1>1, <1>2, <3>2 DEF PlacedRight
  <2>3. CASE EndRun
    <3>1. \E s \in {"Mark", "End"} : hand' = ToStep(s)
      BY <2>3 DEF EndRun
    <3> QED BY <1>2, <3>1, HandGoesOn DEF PlacedRight
  <2> QED BY <2>1, <2>2, <2>3
<1> QED BY <1>1, <1>2, <1>3, HandSound

LEMMA SaveEntrySound ==
    ASSUME SoundInv, SaveEntry
    PROVE  SoundInv'
<1>1. hand.step = "Entry" /\ UNCHANGED <<content, panel, forfeited>>
  BY DEF SaveEntry, Step
<1>2. /\ hand.kind # "None" /\ hand \in Hand /\ PlacedRight(hand) /\ journal \in Journal
      /\ OneRunEach(journal.entry) /\ OneRunEach(hand.done) /\ spent \in Spent
      /\ content \in [File -> Content] /\ hand.done \in Backup
  BY <1>1, Working
<1>3. PICK f \in (IF hand.kind = "Apply" THEN {hand.file} ELSE hand.todo) :
          LET entry == IF hand.kind = "Apply" THEN RunEntry(f) ELSE hand.done[f]
              saved == [journal EXCEPT !.entry[f] = entry]
          IN  \/ /\ journal' = saved
                 /\ hand' = AfterEntry(f) /\ UNCHANGED spent
              \/ /\ Fails /\ journal' \in {journal, saved}
                 /\ hand' = GiveUp
  BY DEF SaveEntry
<1>4. f \in File /\ (hand.kind = "Apply" => f = hand.file /\ hand.run \in 1 .. MaxRuns)
  BY <1>1, <1>2, BoundsAssumption DEF PlacedRight, Hand
<1> DEFINE entry == IF hand.kind = "Apply" THEN RunEntry(f) ELSE hand.done[f]
           saved == [journal EXCEPT !.entry[f] = entry]
<1>5. entry \in {NoEntry} \cup Entry /\ (entry # NoEntry => OneRun(entry))
  <2>1. CASE hand.kind = "Apply"
    BY <1>2, <1>4, <2>1, RunEntrySound
  <2>2. CASE hand.kind # "Apply"
    BY <1>2, <1>4, <2>2 DEF Backup, OneRunEach
  <2> QED BY <2>1, <2>2
<1>6. /\ journal' \in {journal, saved} /\ hand' \in {AfterEntry(f), GiveUp}
      /\ spent' = spent \/ Fails
  BY <1>3
<1> HIDE DEF entry
<1>7. saved \in Journal /\ OneRunEach(saved.entry)
  <2>1. journal.entry \in Backup
    BY <1>2 DEF Journal
  <2>2. [journal.entry EXCEPT ![f] = entry] \in Backup
        /\ OneRunEach([journal.entry EXCEPT ![f] = entry])
    BY <1>2, <1>4, <1>5, <2>1, BackupWith
  <2> QED BY <1>2, <2>2 DEF Journal
<1>8. AfterEntry(f) \in Hand /\ PlacedRight(AfterEntry(f)) /\ AfterEntry(f).done = hand.done
  <2>1. CASE hand.kind = "Apply"
    <3>1. \E s \in {"Write", "Manifest"} : AfterEntry(f) = ToStep(s)
      BY <2>1 DEF AfterEntry
    <3> QED BY <1>1, <1>2, <2>1, <3>1, HandGoesOn DEF PlacedRight
  <2>2. CASE hand.kind # "Apply"
    <3>1. /\ AfterEntry(f) \in Hand /\ AfterEntry(f).done = hand.done
          /\ AfterEntry(f).kind = hand.kind /\ AfterEntry(f).file = hand.file
          /\ AfterEntry(f).win = hand.win /\ AfterEntry(f).step \in {"Manifest", "Entry"}
      BY <1>2, <2>2 DEF AfterEntry, Hand
    <3> QED BY <1>2, <2>2, <3>1 DEF PlacedRight
  <2> QED BY <2>1, <2>2
<1> HIDE DEF saved
<1>9. spent' \in Spent /\ spent'.saves = spent.saves
  BY <1>2, <1>6, FailsSpends
<1>10. hand' \in Hand /\ PlacedRight(hand') /\ hand'.done = hand.done
  BY <1>2, <1>6, <1>8, GiveUpSound
<1>11. journal' \in Journal /\ OneRunEach(journal'.entry)
  BY <1>2, <1>6, <1>7
<1> QED BY <1>1, <1>2, <1>9, <1>10, <1>11, HandSound

LEMMA SaveManifestSound ==
    ASSUME SoundInv, SaveManifest
    PROVE  SoundInv'
<1> DEFINE manifest == IF hand.kind = "Apply" THEN Incremental ELSE Keys(hand.done)
           saved == [journal EXCEPT !.marker = FALSE, !.manifest = manifest]
           armed == [hand EXCEPT !.armed = TRUE, !.step = "Write"]
           unmanifested == [Unmarked EXCEPT !.manifest = NoManifest]
<1>1. /\ hand.step = "Manifest" /\ UNCHANGED <<content, panel>>
      /\ \/ journal' \in {saved, unmanifested}
         \/ journal' \in Cleaned(journal) \cup Cleaned(saved)
      /\ \/ hand' \in {GiveUp, hand}
         \/ hand.kind = "Apply" /\ hand' = armed
         \/ hand.kind # "Apply" /\ hand' = ToStep("Prune")
      /\ spent' = spent \/ Fails
  BY DEF SaveManifest, Step
<1>2. /\ hand.kind # "None" /\ hand \in Hand /\ PlacedRight(hand) /\ journal \in Journal
      /\ OneRunEach(journal.entry) /\ OneRunEach(hand.done) /\ spent \in Spent
      /\ content \in [File -> Content] /\ hand.done \in Backup
  BY <1>1, Working
<1>3. /\ saved \in Journal /\ saved.entry = journal.entry
      /\ unmanifested \in Journal /\ unmanifested.entry = journal.entry
  BY <1>2 DEF Journal, Keys, Unmarked
<1>4. /\ armed \in Hand /\ armed.done = hand.done
      /\ hand.kind = "Apply" => PlacedRight(armed)
  <2>1. /\ armed \in Hand /\ armed.done = hand.done /\ armed.kind = hand.kind
        /\ armed.file = hand.file /\ armed.run = hand.run /\ armed.step = "Write"
        /\ armed.win = hand.win
    BY <1>2 DEF Hand
  <2> QED BY <1>1, <1>2, <2>1 DEF PlacedRight
<1>5. hand.kind # "Apply" => PlacedRight(ToStep("Prune"))
  BY <1>2, HandGoesOn DEF PlacedRight
<1> HIDE DEF saved, armed, unmanifested
<1>6. journal' \in Journal /\ OneRunEach(journal'.entry)
  BY <1>1, <1>2, <1>3, CleanedSound
<1>7. spent' \in Spent /\ spent'.saves = spent.saves
  BY <1>1, <1>2, FailsSpends
<1>8. hand' \in Hand /\ PlacedRight(hand') /\ hand'.done = hand.done
  BY <1>1, <1>2, <1>4, <1>5, HandGoesOn, GiveUpSound
<1> QED BY <1>1, <1>2, <1>6, <1>7, <1>8, HandSound

LEMMA PruneSound ==
    ASSUME SoundInv, Prune
    PROVE  SoundInv'
<1>1. /\ hand.step = "Prune" /\ hand' = ToStep("End") /\ UNCHANGED <<content, panel, spent>>
  BY DEF Prune, Step
<1>2. PICK removed \in SUBSET (Keys(journal.entry) \ Keys(hand.done)) :
          journal' = [journal EXCEPT !.entry =
              [f \in File |-> IF f \in removed THEN NoEntry ELSE @[f]]]
  BY DEF Prune
<1>3. /\ hand.kind # "None" /\ hand \in Hand /\ PlacedRight(hand) /\ journal \in Journal
      /\ OneRunEach(journal.entry) /\ OneRunEach(hand.done) /\ spent \in Spent
      /\ hand.done \in Backup
  BY <1>1, Working
<1>4. hand.file = NoFile
  BY <1>1, <1>3 DEF PlacedRight
<1> DEFINE entries == [f \in File |-> IF f \in removed THEN NoEntry ELSE journal.entry[f]]
<1>5. entries \in Backup /\ OneRunEach(entries)
  BY <1>3 DEF Backup, Journal, OneRunEach
<1>6. journal' = [journal EXCEPT !.entry = entries]
  BY <1>2
<1> HIDE DEF entries
<1>7. journal' \in Journal /\ OneRunEach(journal'.entry)
  BY <1>3, <1>5, <1>6 DEF Journal
<1>8. hand' \in Hand /\ PlacedRight(hand') /\ hand'.done = hand.done
  BY <1>1, <1>3, <1>4, HandGoesOn, GiveUpSound
<1> QED BY <1>1, <1>3, <1>7, <1>8, HandSound

LEMMA WriteTargetSound ==
    ASSUME SoundInv, WriteTarget
    PROVE  SoundInv'
<1> DEFINE f == hand.file
           next == [NextFile EXCEPT !.done[f] = RunEntry(f)]
<1>1. /\ hand.step = "Write" /\ UNCHANGED <<panel, forfeited>>
      /\ \/ /\ content' = [content EXCEPT ![f] = Replaced(f)]
            /\ hand' = next /\ UNCHANGED <<journal, spent>>
         \/ /\ Fails /\ journal' \in Cleaned(journal)
            /\ hand' = NextFile /\ UNCHANGED content
  BY DEF WriteTarget, Step
<1>2. /\ hand.kind # "None" /\ hand \in Hand /\ PlacedRight(hand) /\ journal \in Journal
      /\ OneRunEach(journal.entry) /\ OneRunEach(hand.done) /\ spent \in Spent
      /\ content \in [File -> Content] /\ hand.done \in Backup
  BY <1>1, Working
<1>3. hand.kind = "Apply" /\ f \in File /\ hand.run \in 1 .. MaxRuns
  BY <1>1, <1>2, BoundsAssumption DEF PlacedRight, Hand
<1>4. NextFile \in Hand /\ PlacedRight(NextFile) /\ NextFile.done = hand.done
  BY <1>2, <1>3, HandGoesOn, GiveUpSound
<1> HIDE DEF f
<1>5. CASE UNCHANGED content
  <2>1. /\ journal' \in Journal /\ OneRunEach(journal'.entry)
        /\ spent' \in Spent /\ spent'.saves = spent.saves
        /\ hand' = NextFile \/ hand' = next
    BY <1>1, <1>2, CleanedSound, FailsSpends
  <2>2. CASE hand' = NextFile
    BY <1>1, <1>2, <1>4, <1>5, <2>1, <2>2, HandSound
  <2>3. CASE hand' # NextFile
    <3>1. content' = [content EXCEPT ![f] = Replaced(f)]
      BY <1>1, <2>3
    <3>2. content[f] = Replaced(f) /\ OneRun(RunEntry(f))
          /\ RunEntry(f).old = content[f] /\ RunEntry(f).new = Replaced(f)
      BY <1>2, <1>3, <1>5, <3>1, RunEntrySound
    <3>3. content[f].runs \in Seq(1 .. MaxRuns)
          /\ Replaced(f).runs = Append(content[f].runs, hand.run)
      BY <1>2, <1>3, RunEntrySound DEF Content
    <3>4. Len(Append(content[f].runs, hand.run)) = Len(content[f].runs) + 1
          /\ Len(content[f].runs) \in Nat
      BY <3>3
    <3>5. Len(content[f].runs) = Len(content[f].runs) + 1 /\ Len(content[f].runs) \in Nat
      BY <3>2, <3>3, <3>4
    <3> QED BY <3>5
  <2> QED BY <2>2, <2>3
<1>6. CASE content' = [content EXCEPT ![f] = Replaced(f)] /\ hand' = next
           /\ UNCHANGED <<journal, spent>>
  <2>1. /\ Replaced(f) \in Content /\ Replaced(f).save = content[f].save
        /\ RunEntry(f) \in Entry /\ OneRun(RunEntry(f))
    BY <1>2, <1>3, RunEntrySound
  <2>2. content' \in [File -> Content] /\ \A g \in File : content'[g].save <= spent'.saves
    BY <1>2, <1>3, <1>6, <2>1 DEF SoundInv, ReplaceTypeOK
  <2>3. /\ [hand.done EXCEPT ![f] = RunEntry(f)] \in Backup
        /\ OneRunEach([hand.done EXCEPT ![f] = RunEntry(f)])
    BY <1>2, <1>3, <2>1, BackupWith
  <2>4. /\ hand' \in Hand /\ hand'.done = [hand.done EXCEPT ![f] = RunEntry(f)]
        /\ hand'.kind = NextFile.kind /\ hand'.file = NextFile.file
        /\ hand'.step = NextFile.step /\ hand'.run = NextFile.run /\ hand'.win = NextFile.win
    BY <1>4, <1>6, <2>3 DEF Hand
  <2>5. PlacedRight(hand')
    BY <1>2, <1>3, <1>4, <2>4, HandGoesOn DEF PlacedRight
  <2>6. ReplaceTypeOK'
    BY <1>1, <1>2, <1>6, <2>2, <2>4 DEF SoundInv, ReplaceTypeOK
  <2>7. EntriesOneRun'
    BY <1>1, <1>6, <2>3, <2>4 DEF SoundInv, EntriesOneRun
  <2> QED BY <2>5, <2>6, <2>7 DEF SoundInv
<1> QED BY <1>1, <1>5, <1>6

LEMMA ReleaseSound ==
    ASSUME SoundInv, Release
    PROVE  SoundInv'
<1> DEFINE w == hand.win
           report(kind) == [kind |-> kind, gen |-> hand.gen, backup |-> hand.done]
           reported(kind) == [panel[w] EXCEPT !.answers = @ \cup {report(kind)}]
<1>1. /\ hand.step = "End" /\ hand' = IdleHand
      /\ UNCHANGED <<content, journal, retired, forfeited, spent>>
      /\ \/ UNCHANGED panel
         \/ \E kind \in {"Applied", "Failed"} :
               panel' = [panel EXCEPT ![w].answers = @ \cup {report(kind)}]
  BY DEF Release, Step, Unlocked
<1>2. /\ hand \in Hand /\ OneRunEach(hand.done) /\ w \in Window
      /\ panel \in [Window -> Panel] /\ \A v \in Window : PanelOneRun(panel[v])
  BY <1>1, Working DEF SoundInv, ReplaceTypeOK, EntriesOneRun
<1>3. ASSUME NEW kind \in {"Applied", "Failed"}
      PROVE  reported(kind) \in Panel /\ PanelOneRun(reported(kind))
  <2>1. report(kind) \in RunAnswer /\ report(kind).backup = hand.done
    BY <1>2 DEF RunAnswer, Hand
  <2> HIDE DEF report
  <2>2. panel[w] \in Panel /\ PanelOneRun(panel[w])
    BY <1>2
  <2>3. /\ reported(kind) \in Panel /\ reported(kind).backup = panel[w].backup
        /\ reported(kind).undo = panel[w].undo /\ reported(kind).left = panel[w].left
        /\ reported(kind).jobs = panel[w].jobs
        /\ reported(kind).answers = panel[w].answers \cup {report(kind)}
    BY <2>1, <2>2 DEF Panel
  <2> QED BY <1>2, <2>1, <2>2, <2>3 DEF PanelOneRun
<1>4. panel' \in [Window -> Panel] /\ \A v \in Window : PanelOneRun(panel'[v])
  <2>1. CASE UNCHANGED panel
    BY <1>2, <2>1
  <2>2. ASSUME NEW kind \in {"Applied", "Failed"},
               panel' = [panel EXCEPT ![w].answers = @ \cup {report(kind)}]
        PROVE  panel' \in [Window -> Panel] /\ \A v \in Window : PanelOneRun(panel'[v])
    <3>1. panel' = [panel EXCEPT ![w] = reported(kind)]
      BY <2>2
    <3> HIDE DEF reported
    <3> QED BY <1>2, <1>3, <3>1
  <2> QED BY <1>1, <2>1, <2>2
<1>5. hand' \in Hand /\ PlacedRight(hand') /\ hand'.done = Empty
  BY <1>1, EmptyBackup, BoundsAssumption, SentinelAssumption DEF PlacedRight, IdleHand, Hand
<1>6. ReplaceTypeOK'
  BY <1>1, <1>4, <1>5 DEF SoundInv, ReplaceTypeOK
<1>7. EntriesOneRun'
  BY <1>1, <1>4, <1>5, EmptyBackup DEF SoundInv, EntriesOneRun
<1> QED BY <1>5, <1>6, <1>7 DEF SoundInv

LEMMA NextSound == SoundInv /\ [Next]_vars => SoundInv'
<1> SUFFICES ASSUME SoundInv, [Next]_vars PROVE SoundInv'
  OBVIOUS
<1>1. CASE LockStep
  BY <1>1, MarkSound, UnlinkSound, NextFilesSound, SaveEntrySound, SaveManifestSound,
     WriteTargetSound, PruneSound, ReleaseSound DEF LockStep
<1>2. ASSUME NEW w \in Window,
             \/ OpenWindow(w) \/ StartReplace(w) \/ RefuseReplace(w) \/ RunDone(w)
             \/ LoadDone(w) \/ StartUndo(w) \/ Undo(w) \/ TakeLock(w) \/ Misread(w)
      PROVE  SoundInv'
  BY <1>2, OpenWindowSound, StartReplaceSound, RefuseReplaceSound, RunDoneSound,
     LoadDoneSound, StartUndoSound, UndoFileSound, UndoDoneSound, TakeLockSound,
     MisreadSound DEF Undo
<1>3. ASSUME NEW f \in File, SaveFile(f)
      PROVE  SoundInv'
  BY <1>3, SaveFileSound
<1>4. CASE Crash
  BY <1>4, CrashSound
<1>5. CASE UNCHANGED vars
  BY <1>5 DEF vars, SoundInv, ReplaceTypeOK, EntriesOneRun
<1> QED BY <1>1, <1>2, <1>3, <1>4, <1>5 DEF Next

\* The inductive invariant behind the two theorems that follow.
THEOREM SoundAlways == Spec => []SoundInv
BY InitSound, NextSound, PTL DEF Spec

LEMMA LastOfSeq ==
    ASSUME NEW S, NEW s \in Seq(S), s # <<>>
    PROVE  Last(s) \in S
<1>1. Len(s) \in Nat /\ Len(s) # 0
  OBVIOUS
<1>2. Len(s) \in 1 .. Len(s)
  BY <1>1
<1> QED BY <1>2 DEF Last

\* The journal's entries are of runs that were started.
LEMMA RunsOfJournal ==
    ASSUME SoundInv
    PROVE  JournalRuns \subseteq 1 .. MaxRuns
<1>1. ASSUME NEW f \in Keys(journal.entry)
      PROVE  Last(journal.entry[f].new.runs) \in 1 .. MaxRuns
  <2> DEFINE e == journal.entry[f]
  <2>1. e \in Entry /\ OneRun(e)
    BY <1>1 DEF SoundInv, ReplaceTypeOK, Journal, Backup, Keys, EntriesOneRun, OneRunEach
  <2>2. e.new.runs \in Seq(1 .. MaxRuns) /\ e.new.runs # <<>>
    BY <2>1 DEF Entry, Content, OneRun
  <2> QED BY <2>2, LastOfSeq
<1> QED BY <1>1 DEF JournalRuns

\* Only the writing of a cleanup marker retires runs, and only a failed read
\* forfeits them: those whose entries the journal has.
LEMMA RetiredGrows ==
    ASSUME SoundInv, [Next]_vars
    PROVE  /\ retired' \in {retired, retired \cup JournalRuns}
           /\ forfeited' \in {forfeited, forfeited \cup JournalRuns}
<1>1. CASE LockStep
  <2>1. CASE Mark \/ Unlink
    BY <2>1 DEF Mark, Unlink
  <2>2. CASE TakeFile \/ SkipFile
    <3>1. CASE TakeFile
      BY <3>1, Zenon DEF TakeFile
    <3>2. CASE SkipFile
      BY <3>2, Zenon DEF SkipFile
    <3> QED BY <2>2, <3>1, <3>2
  <2>3. CASE SaveEntry
    BY <2>3 DEF SaveEntry
  <2>4. CASE SaveManifest
    <3>1. /\ UNCHANGED retired
          /\ \/ forfeited' = forfeited
             \/ forfeited' = forfeited \cup (IF hand.kind = "Save" THEN JournalRuns ELSE {})
      BY <2>4 DEF SaveManifest
    <3>2. forfeited \cup {} = forfeited
      OBVIOUS
    <3> QED BY <3>1, <3>2
  <2>5. CASE WriteTarget
    BY <2>5 DEF WriteTarget
  <2>6. CASE EndRun \/ Prune \/ Release
    BY <2>6 DEF EndRun, Prune, Release
  <2> QED BY <1>1, <2>1, <2>2, <2>3, <2>4, <2>5, <2>6 DEF LockStep
<1>2. ASSUME NEW w \in Window,
             \/ OpenWindow(w) \/ StartReplace(w) \/ RefuseReplace(w) \/ RunDone(w)
             \/ LoadDone(w) \/ StartUndo(w) \/ Undo(w) \/ TakeLock(w) \/ Misread(w)
      PROVE  /\ retired' = retired
             /\ forfeited' \in {forfeited, forfeited \cup JournalRuns}
  <2>1. CASE OpenWindow(w) \/ RefuseReplace(w)
    BY <2>1 DEF OpenWindow, RefuseReplace
  <2>2. CASE StartReplace(w)
    BY <2>2 DEF StartReplace
  <2>3. CASE RunDone(w) \/ LoadDone(w) \/ TakeLock(w)
    BY <2>3 DEF RunDone, LoadDone, TakeLock
  <2>4. CASE StartUndo(w)
    BY <2>4 DEF StartUndo
  <2>5. CASE Undo(w)
    <3>1. ASSUME NEW f \in File, UndoFile(w, f)
          PROVE  retired' = retired /\ forfeited' = forfeited
      BY <3>1, Zenon DEF UndoFile
    <3>2. CASE UndoDone(w)
      BY <3>2, Zenon DEF UndoDone
    <3> QED BY <2>5, <3>1, <3>2 DEF Undo
  <2>6. CASE Misread(w)
    BY <2>6 DEF Misread
  <2> QED BY <1>2, <2>1, <2>2, <2>3, <2>4, <2>5, <2>6
<1>3. CASE \/ \E f \in File : SaveFile(f)
           \/ Crash \/ UNCHANGED vars
  BY <1>3 DEF SaveFile, Crash, vars
<1> QED BY <1>1, <1>2, <1>3 DEF Next

\* Every entry, wherever it is kept, is one run of one file: what was read of
\* it, and that with the run on top; and every variable has its type.
THEOREM EntriesAlwaysAreRuns == Spec => []EntriesAreRuns
<1>1. Init => SoundInv /\ retired \cup forfeited \subseteq 1 .. MaxRuns
  BY InitSound DEF Init
<1>2. SoundInv /\ retired \cup forfeited \subseteq 1 .. MaxRuns /\ [Next]_vars
      => (SoundInv /\ retired \cup forfeited \subseteq 1 .. MaxRuns)'
  <2> SUFFICES ASSUME SoundInv, retired \cup forfeited \subseteq 1 .. MaxRuns, [Next]_vars
               PROVE  (SoundInv /\ retired \cup forfeited \subseteq 1 .. MaxRuns)'
    OBVIOUS
  <2> QED BY NextSound, RetiredGrows, RunsOfJournal
<1> QED BY <1>1, <1>2, PTL DEF Spec, EntriesAreRuns

\* Undo takes a file back by exactly the run that was last applied to it: a
\* step that changes a file is a save, the replacement under way, or an undo
\* that drops the last run of the same save.
THEOREM TakesBackOneRun == Spec => UndoTakesBackOneRun
<1> DEFINE Rule == \A f \in File : content'[f] # content[f] =>
           \/ content'[f].save > content[f].save
           \/ content'[f].runs = Append(content[f].runs, hand.run)
           \/ /\ content'[f].save = content[f].save
              /\ content'[f].runs = Front(content[f].runs)
<1>1. ASSUME SoundInv, [Next]_vars
      PROVE  Rule
  <2> SUFFICES ASSUME content' # content PROVE Rule
    BY DEF SoundInv
  <2>1. \/ WriteTarget
        \/ \E w \in Window, f \in File : UndoFile(w, f)
        \/ \E f \in File : SaveFile(f)
    BY <1>1 DEF Next, LockStep, Mark, Unlink, TakeFile, SkipFile, SaveEntry, SaveManifest,
           EndRun, Prune, Release, OpenWindow, StartReplace, RefuseReplace, RunDone,
           LoadDone, StartUndo, Undo, UndoDone, TakeLock, Misread, Crash, vars
  <2>2. content \in [File -> Content] /\ \A g \in File : content[g].save \in Nat
    BY <1>1, BoundsAssumption DEF SoundInv, ReplaceTypeOK, Content
  <2>3. CASE WriteTarget
    <3>1. content' = [content EXCEPT ![hand.file] = Replaced(hand.file)]
      BY <2>3 DEF WriteTarget
    <3>2. hand.file \in File /\ hand.run \in 1 .. MaxRuns
      <4>1. hand.step = "Write"
        BY <2>3 DEF WriteTarget, Step
      <4>2. hand \in Hand /\ PlacedRight(hand)
        BY <1>1, <4>1, Working
      <4> QED BY <4>1, <4>2, BoundsAssumption DEF PlacedRight, Hand
    <3>3. Replaced(hand.file).runs = Append(content[hand.file].runs, hand.run)
      BY <2>2, <3>2, RunEntrySound
    <3> QED BY <2>2, <3>1, <3>2, <3>3
  <2>4. ASSUME NEW w \in Window, NEW f \in File, UndoFile(w, f)
        PROVE  Rule
    <3>1. /\ panel[w].undo[f] \in Entry /\ OneRun(panel[w].undo[f])
          /\ content[f] = panel[w].undo[f].new
          /\ content' = [content EXCEPT ![f] = panel[w].undo[f].old]
      BY <1>1, <2>4, UndoFileParts
    <3> QED BY <2>2, <3>1 DEF OneRun
  <2>5. ASSUME NEW f \in File, SaveFile(f)
        PROVE  Rule
    <3>1. content' = [content EXCEPT ![f] = [save |-> @.save + 1, runs |-> <<>>]]
      BY <2>5 DEF SaveFile
    <3> QED BY <2>2, <3>1
  <2> QED BY <2>1, <2>3, <2>4, <2>5
<1>2. SoundInv /\ [Next]_vars => [Rule]_vars
  BY <1>1
<1> QED BY <1>2, SoundAlways, PTL DEF Spec, UndoTakesBackOneRun

-----------------------------------------------------------------------------
(* The durable invariant: what a step that changes little leaves as it was. *)

\* The last run of a file is a run.
LEMMA LastRun ==
    ASSUME NEW c \in Content, c.runs # <<>>
    PROVE  Last(c.runs) \in 1 .. MaxRuns
<1>1. c.runs \in Seq(1 .. MaxRuns)
  BY DEF Content
<1>2. Len(c.runs) \in Nat /\ Len(c.runs) # 0
  BY <1>1, EmptySeq
<1>3. c.runs[Len(c.runs)] \in 1 .. MaxRuns
  <2>1. Len(c.runs) \in 1 .. Len(c.runs)
    BY <1>2
  <2> QED BY <1>1, <2>1, ElementOfSeq
<1> QED BY <1>1, <1>3 DEF Last

\* No file comes to hold more of the latest run, and its bytes stay.
HeldStays ==
    \A f \in File : /\ HoldsLatest(f)' => HoldsLatest(f) /\ content'[f] = content[f]
                    /\ WroteLast(f)' => WroteLast(f)

LEMMA SameHeld ==
    ASSUME content' = content, spent'.runs = spent.runs, forfeited' = forfeited
    PROVE  HeldStays /\ (HoldsSome' <=> HoldsSome)
BY DEF HeldStays, HoldsLatest, WroteLast, HoldsSome

\* A failed read forfeits the runs of the journal, and nothing is held of them.
LEMMA Forfeits ==
    ASSUME UndoDurable, content' = content, spent'.runs = spent.runs,
           forfeited' = forfeited \cup JournalRuns
    PROVE  HeldStays /\ ~HoldsSome'
<1>1. HeldStays
  BY DEF HeldStays, HoldsLatest, WroteLast
<1>2. ASSUME NEW f \in File, HoldsLatest(f)'
      PROVE  FALSE
  <2>1. HoldsLatest(f) /\ Last(content[f].runs) = spent.runs /\ spent.runs \notin JournalRuns
    BY <1>2 DEF HoldsLatest, WroteLast
  <2>2. Offered(journal)[f] # NoEntry /\ Offered(journal)[f].new = content[f]
    BY <2>1 DEF UndoDurable
  <2>3. Offered(journal)[f] = journal.entry[f]
    BY <2>2 DEF Offered
  <2> QED BY <2>1, <2>2, <2>3 DEF JournalRuns, Keys
<1> QED BY <1>1, <1>2 DEF HoldsSome

LEMMA HeldStaysSome ==
    ASSUME HeldStays, HoldsSome'
    PROVE  HoldsSome
BY DEF HeldStays, HoldsSome

LEMMA UndoStays ==
    ASSUME UndoDurable, HeldStays, journal' = journal
    PROVE  UndoDurable'
BY DEF UndoDurable, HeldStays, Active, Offered

\* A backup, wherever it is kept, goes on covering the latest run.
LEMMA CoversStays ==
    ASSUME HeldStays, NEW b, Covers(b)
    PROVE  Covers(b)'
BY DEF HeldStays, Covers

LEMMA JournaledStays ==
    ASSUME HeldStays, NEW b, Journaled(b),
           HoldsSome' => Keys(journal.entry) \subseteq Keys(journal'.entry)
    PROVE  Journaled(b)'
<1>1. HoldsSome' => HoldsSome
  BY HeldStaysSome
<1> QED BY <1>1 DEF Journaled, Keys

LEMMA OrderStays ==
    ASSUME spent'.runs = spent.runs
    PROVE  /\ \A b : InOrderEach(b) => InOrderEach(b)'
           /\ \A p : PanelInOrder(p) => PanelInOrder(p)'
<1>1. ASSUME NEW b, InOrderEach(b)
      PROVE  InOrderEach(b)'
  BY <1>1 DEF InOrderEach, InOrder
<1>2. ASSUME NEW p, PanelInOrder(p)
      PROVE  PanelInOrder(p)'
  BY <1>2 DEF PanelInOrder, InOrderEach, InOrder
<1> QED BY <1>1, <1>2

\* A panel nothing was done to, while work of the same kind goes on.
LEMMA PanelStays ==
    ASSUME NEW p, PanelDurable(p), HeldStays, spent'.runs = spent.runs,
           hand'.kind = hand.kind, hand'.gen = hand.gen,
           HoldsSome' => Keys(journal.entry) \subseteq Keys(journal'.entry)
    PROVE  PanelDurable(p)'
<1>1. HoldsSome' => HoldsSome
  BY HeldStaysSome
<1>2. \A b : Covers(b) => Covers(b)'
  BY CoversStays
<1>3. \A b : Journaled(b) => Journaled(b)'
  BY JournaledStays
<1>4. RunTicket(p)'
  BY <1>1, <1>2, <1>3 DEF PanelDurable, RunTicket, HeldStays
<1>5. CurrentWork(p)'
  BY <1>1, <1>2, <1>3 DEF PanelDurable, CurrentWork
<1>6. PanelCovers(p)'
  <2>1. \A f \in File : HoldsLatest(f)' => HoldsLatest(f) /\ content'[f] = content[f]
    BY DEF HeldStays
  <2> QED BY <1>2, <1>3, <2>1 DEF PanelDurable, PanelCovers
<1> QED BY <1>4, <1>5, <1>6 DEF PanelDurable

\* The panel of a run under way: it has no undo and no other run.
LEMMA PanelUnderRun ==
    ASSUME NEW p \in Panel, PanelDurable(p), spent'.runs = spent.runs,
           hand.kind = "Apply", hand'.kind = hand.kind, hand'.gen = hand.gen
    PROVE  PanelDurable(p)'
<1>1. p.pending /\ ~p.undoing /\ p.backup = Empty /\ p.gen # 0 /\ p.left = Empty
  BY DEF PanelDurable, RunTicket, PanelCovers, CurrentWork
<1>2. /\ \A j \in p.jobs : j.kind # "Apply"
      /\ \A a \in p.answers : ~IsOutcome(a)
  BY DEF PanelDurable, RunTicket
<1>3. RunTicket(p)'
  BY <1>2 DEF PanelDurable, RunTicket, IsOutcome
<1>4. CurrentWork(p)'
  BY <1>1 DEF PanelDurable, CurrentWork
<1>5. Journaled(Empty)'
  BY EmptyBackup DEF Journaled
<1>6. PanelCovers(p)'
  BY <1>1, <1>5 DEF PanelCovers
<1> QED BY <1>3, <1>4, <1>6 DEF PanelDurable

\* The work under the lock, the files and the journal stay.
LEMMA ApplyStays ==
    ASSUME ApplyJournals, HeldStays, UNCHANGED <<journal, hand>>, spent'.runs = spent.runs,
           hand \in Hand, hand.file \in File => content'[hand.file] = content[hand.file],
           hand.step \in {"Manifest", "Write"} /\ hand.kind = "Apply" => hand.file \in File
    PROVE  ApplyJournals'
<1> SUFFICES ASSUME hand.kind = "Apply" PROVE ApplyJournals'
  BY DEF ApplyJournals
<1>1. \A f \in File : WroteLast(f)' => WroteLast(f)
  BY DEF HeldStays
<1>2. Covers(hand.done)'
  BY CoversStays DEF ApplyJournals
<1>3. hand.step \in {"Manifest", "Write"} => RunEntry(hand.file)' = RunEntry(hand.file)
  BY DEF RunEntry, Replaced
<1> QED BY <1>1, <1>2, <1>3 DEF ApplyJournals

\* A panel changes; the files, the journal and the work under the lock do not.
LEMMA PanelActs ==
    ASSUME OneWindow, DurableInv, SoundInv', NEW w \in Window, NEW p \in Panel,
           panel' = [panel EXCEPT ![w] = p], UNCHANGED <<content, journal, hand, forfeited>>,
           spent'.runs = spent.runs, PanelInOrder(p), PanelDurable(p),
           hand.kind = "Save" /\ HoldsSome => Keys(p.backup) \subseteq Keys(hand.done)
    PROVE  DurableInv'
<1>1. HeldStays /\ (HoldsSome' <=> HoldsSome)
  BY SameHeld
<1>2. \A v \in Window : panel'[v] = p
  BY DEF OneWindow, DurableInv, SoundInv, ReplaceTypeOK
<1>3. RunsInOrder'
  <2>1. InOrderEach(journal.entry)' /\ InOrderEach(hand.done)'
    BY OrderStays DEF DurableInv, RunsInOrder
  <2>2. PanelInOrder(p)'
    BY OrderStays
  <2>3. \A v \in Window : PanelInOrder(panel[v])'
    BY <1>2, <2>2
  <2> QED BY <2>1, <2>3 DEF DurableInv, RunsInOrder
<1>4. UndoDurable'
  BY <1>1, UndoStays DEF DurableInv
<1>5. ApplyJournals'
  BY <1>1, ApplyStays DEF DurableInv, SoundInv, ReplaceTypeOK, PlacedRight
<1>6. OthersSpare'
  <2>1. Covers(hand.done) => Covers(hand.done)'
    BY <1>1, CoversStays
  <2> QED BY <1>1, <1>2, <2>1 DEF DurableInv, OthersSpare
<1>7. PanelDurable(p)'
  BY <1>1, PanelStays
<1>8. \A v \in Window : PanelDurable(panel[v])'
  BY <1>2, <1>7
<1> QED BY <1>3, <1>4, <1>5, <1>6, <1>8 DEF DurableInv

LEMMA Owner ==
    ASSUME DurableInv, NEW w \in Window
    PROVE  /\ SoundInv /\ panel \in [Window -> Panel] /\ panel[w] \in Panel
           /\ PanelDurable(panel[w]) /\ PanelInOrder(panel[w])
BY DEF DurableInv, SoundInv, ReplaceTypeOK, RunsInOrder

LEMMA OpenWindowDurable ==
    ASSUME OneWindow, DurableInv, SoundInv', NEW w \in Window, OpenWindow(w)
    PROVE  DurableInv'
<1> DEFINE opened == [ClosedPanel EXCEPT !.open = TRUE]
           p == Queue(opened, "Load", Empty)
<1>1. /\ panel' = [panel EXCEPT ![w] = p] /\ ~panel[w].open
      /\ UNCHANGED <<content, journal, hand, retired, forfeited, spent>>
  BY DEF OpenWindow
<1>2. /\ opened \in Panel /\ opened.backup = Empty /\ opened.undo = Empty
      /\ opened.left = Empty /\ opened.jobs = {} /\ opened.answers = {}
      /\ opened.gen = 0 /\ opened.open /\ ~opened.pending /\ ~opened.undoing
  BY EmptyBackup DEF Panel, ClosedPanel
<1> HIDE DEF opened
<1>3. "Load" \in {"Save", "Delete", "Load"} /\ Empty \in Backup
  BY EmptyBackup
<1>4. /\ p \in Panel /\ p.gen = opened.gen /\ p.backup = opened.backup /\ p.open = opened.open
      /\ p.pending = opened.pending /\ p.answers = opened.answers /\ p.undo = opened.undo
      /\ p.left = opened.left /\ p.undoing = opened.undoing
      /\ p.jobs = opened.jobs \cup
             {[kind |-> "Load", gen |-> opened.gen, run |-> 0, backup |-> Empty]}
  BY <1>2, <1>3, QueuePanel
<1> HIDE DEF p
<1>5. \A j \in p.jobs : j.kind = "Load" /\ j.gen = 0 /\ j.backup = Empty
  BY <1>2, <1>4
<1>6. hand.kind \in {"None", "Load"}
  BY <1>1, Owner DEF PanelDurable, CurrentWork, ClosedPanel
<1>7. PanelInOrder(p)
  BY <1>2, <1>4, <1>5, EmptyBackup DEF PanelInOrder
<1>8. Journaled(Empty)
  BY EmptyBackup DEF Journaled
<1>9. PanelDurable(p)
  <2>1. RunTicket(p)
    BY <1>2, <1>4, <1>5, <1>6 DEF RunTicket
  <2>2. CurrentWork(p)
    BY <1>2, <1>4, <1>5, <1>6 DEF CurrentWork
  <2>3. PanelCovers(p)
    BY <1>2, <1>4, <1>8 DEF PanelCovers
  <2> QED BY <2>1, <2>2, <2>3 DEF PanelDurable
<1> QED BY <1>1, <1>4, <1>6, <1>7, <1>9, PanelActs

\* When a panel's generation goes up, all the work it knows of is older.
LEMMA OlderWork ==
    ASSUME NEW p \in Panel, CurrentWork(p)
    PROVE  /\ \A j \in p.jobs : /\ j.gen <= p.gen + 1 /\ j.gen # p.gen + 1
                                /\ j.kind = "Load" <=> j.gen = 0
           /\ \A a \in p.answers : /\ a.gen <= p.gen + 1 /\ a.gen # p.gen + 1
                                   /\ a.kind = "Load" <=> a.gen = 0
           /\ p.gen \in Nat /\ p.gen + 1 # 0 /\ p.gen + 1 \in Nat
<1>1. /\ p.gen \in Nat
      /\ \A j \in p.jobs : j.gen \in Nat
      /\ \A a \in p.answers : a.gen \in Nat
  BY DEF Panel, WorkItem, RunAnswer
<1>2. /\ \A j \in p.jobs : j.gen <= p.gen /\ (j.kind = "Load" <=> j.gen = 0)
      /\ \A a \in p.answers : a.gen <= p.gen /\ (a.kind = "Load" <=> a.gen = 0)
  BY DEF CurrentWork
<1> DEFINE gen == p.gen
<1>3. \A g \in Nat : g <= gen => g <= gen + 1 /\ g # gen + 1
  BY <1>1
<1>4. gen + 1 # 0 /\ gen + 1 \in Nat
  BY <1>1
<1> HIDE DEF gen
<1> QED BY <1>1, <1>2, <1>3, <1>4 DEF gen

\* A panel that queues work under its next generation: only that is current.
LEMMA QueuesWork ==
    ASSUME NEW p \in Panel, CurrentWork(p), NEW c, p.open, c.open, c.gen = p.gen + 1,
           NEW kind \in {"Apply", "Save", "Delete"}, NEW run, NEW b,
           c.answers = p.answers,
           c.jobs = p.jobs \cup {[kind |-> kind, gen |-> p.gen + 1, run |-> run, backup |-> b]},
           kind = "Delete" => ~c.pending /\ ~HoldsSome,
           kind = "Save" => ~c.pending /\ b = c.backup /\ c.backup # Empty
    PROVE  CurrentWork(c)
<1> DEFINE gen == p.gen + 1
<1>1. /\ \A j \in p.jobs : j.gen <= gen /\ j.gen # gen /\ (j.kind = "Load" <=> j.gen = 0)
      /\ \A a \in p.answers : a.gen <= gen /\ a.gen # gen /\ (a.kind = "Load" <=> a.gen = 0)
      /\ gen # 0 /\ gen \in Nat
  BY OlderWork
<1>2. c.gen = gen /\ gen <= gen
  BY <1>1
<1> DEFINE job == [kind |-> kind, gen |-> gen, run |-> run, backup |-> b]
<1>3. /\ c.jobs = p.jobs \cup {job}
      /\ job.kind = kind /\ job.gen = gen /\ job.backup = b
  OBVIOUS
<1> HIDE DEF gen, job
<1>4. \A j \in c.jobs : j.gen <= gen /\ (j.kind = "Load" <=> j.gen = 0)
  BY <1>1, <1>2, <1>3
<1>5. \A j \in c.jobs : j.gen = gen => j = job
  BY <1>1, <1>3
<1> QED BY <1>1, <1>2, <1>3, <1>4, <1>5 DEF CurrentWork

LEMMA RefuseReplaceDurable ==
    ASSUME OneWindow, DurableInv, SoundInv', NEW w \in Window, RefuseReplace(w)
    PROVE  DurableInv'
<1> DEFINE p == NextGen(panel[w])
<1>1. /\ panel' = [panel EXCEPT ![w] = p] /\ ~panel[w].pending
      /\ UNCHANGED <<content, journal, hand, forfeited>>
      /\ spent' = [spent EXCEPT !.undos = @ + 1]
  BY DEF RefuseReplace
<1>2. panel[w] \in Panel /\ PanelDurable(panel[w]) /\ PanelInOrder(panel[w]) /\ panel[w].gen \in Nat
      /\ panel[w].open
  BY Owner DEF Panel, RefuseReplace
<1>3. spent'.runs = spent.runs
  BY <1>1 DEF DurableInv, SoundInv, ReplaceTypeOK, Spent
<1>4. /\ p \in Panel /\ p.gen = panel[w].gen + 1 /\ p.open = panel[w].open
      /\ p.backup = panel[w].backup /\ p.pending = panel[w].pending
      /\ p.jobs = panel[w].jobs /\ p.answers = panel[w].answers
      /\ p.undo = panel[w].undo /\ p.left = panel[w].left /\ p.undoing = panel[w].undoing
  BY <1>2, NextGenPanel
<1> HIDE DEF p
<1>5. PanelInOrder(p)
  BY <1>2, <1>4 DEF PanelInOrder
<1>6. RunTicket(p)
  BY <1>1, <1>2, <1>4 DEF PanelDurable, RunTicket
<1>7. CurrentWork(p)
  BY <1>2, <1>4, OlderWork DEF PanelDurable, CurrentWork
<1>8. PanelCovers(p)
  BY <1>2, <1>4 DEF PanelDurable, PanelCovers
<1>9. hand.kind = "Save" /\ HoldsSome => Keys(p.backup) \subseteq Keys(hand.done)
  BY <1>4 DEF DurableInv, OthersSpare
<1> QED BY <1>1, <1>3, <1>4, <1>5, <1>6, <1>7, <1>8, <1>9, PanelActs DEF PanelDurable

LEMMA RunDoneDurable ==
    ASSUME OneWindow, DurableInv, SoundInv', NEW w \in Window, RunDone(w)
    PROVE  DurableInv'
<1>1. PICK a \in panel[w].answers :
        LET p == [panel[w] EXCEPT !.answers = @ \ {a}, !.pending = FALSE] IN
        /\ a.kind \in {"Applied", "Failed", "Superseded"}
        /\ panel' = [panel EXCEPT ![w] =
               IF a.kind # "Applied" \/ ~Current(w, a.gen) THEN p
               ELSE IF a.backup = Empty THEN Clear(p)
               ELSE [p EXCEPT !.backup = a.backup]]
  BY DEF RunDone
<1>2. UNCHANGED <<content, journal, hand, forfeited, spent>>
  BY DEF RunDone
<1>3. panel[w] \in Panel /\ PanelDurable(panel[w]) /\ PanelInOrder(panel[w])
  BY Owner
<1>4. /\ a \in RunAnswer /\ a.backup \in Backup /\ InOrderEach(a.backup) /\ IsOutcome(a)
  BY <1>1, <1>3 DEF Panel, PanelInOrder, RunAnswer, IsOutcome
<1>5. /\ panel[w].pending /\ ~panel[w].undoing /\ hand.kind = "None"
      /\ \A b \in panel[w].answers : IsOutcome(b) => b = a
      /\ Covers(a.backup) /\ Journaled(a.backup)
      /\ panel[w].backup = Empty /\ panel[w].left = Empty /\ panel[w].gen # 0
      /\ \A j \in panel[w].jobs : j.kind # "Apply"
      /\ \A j \in panel[w].jobs : j.kind \in {"Save", "Delete"} => j.gen # panel[w].gen
  BY <1>3, <1>4 DEF PanelDurable, RunTicket, PanelCovers, CurrentWork
<1> DEFINE p == [panel[w] EXCEPT !.answers = @ \ {a}, !.pending = FALSE]
           q == [p EXCEPT !.backup = a.backup]
<1>6. /\ p \in Panel /\ p.gen = panel[w].gen /\ p.backup = Empty /\ ~p.pending
      /\ p.jobs = panel[w].jobs /\ p.answers = panel[w].answers \ {a}
      /\ p.undo = panel[w].undo /\ p.left = Empty /\ ~p.undoing
      /\ p.open = panel[w].open
  BY <1>3, <1>5 DEF Panel
<1>7. panel' = [panel EXCEPT ![w] =
            IF a.kind # "Applied" \/ ~Current(w, a.gen) THEN p
            ELSE IF a.backup = Empty THEN Clear(p) ELSE q]
  BY <1>1
<1> HIDE DEF p
<1>8. /\ q \in Panel /\ q.gen = p.gen /\ q.backup = a.backup /\ ~q.pending
      /\ q.jobs = p.jobs /\ q.answers = p.answers /\ q.undo = p.undo
      /\ q.left = Empty /\ ~q.undoing /\ q.open = p.open
  BY <1>4, <1>6 DEF Panel
<1> HIDE DEF q
<1>9. PanelInOrder(p) /\ PanelInOrder(q) /\ panel[w].open
  BY <1>3, <1>4, <1>5, <1>6, <1>8, EmptyBackup DEF PanelInOrder, PanelDurable, CurrentWork,
     ClosedPanel
<1>10. Journaled(Empty) /\ \A b \in p.answers : ~IsOutcome(b)
  BY <1>5, <1>6, EmptyBackup DEF Journaled
<1>11. CurrentWork(p) /\ CurrentWork(q)
  BY <1>3, <1>5, <1>6, <1>8, <1>9 DEF PanelDurable, CurrentWork
<1>12. PanelDurable(p)
  BY <1>5, <1>6, <1>10, <1>11 DEF PanelDurable, RunTicket, PanelCovers
<1>13. PanelDurable(q)
  BY <1>5, <1>6, <1>8, <1>10, <1>11 DEF PanelDurable, RunTicket, PanelCovers
<1>14. CASE panel' = [panel EXCEPT ![w] = p]
  BY <1>2, <1>5, <1>6, <1>9, <1>12, <1>14, PanelActs
<1>15. CASE panel' = [panel EXCEPT ![w] = q]
  BY <1>2, <1>5, <1>8, <1>9, <1>13, <1>15, PanelActs
<1>16. CASE panel' = [panel EXCEPT ![w] = Clear(p)] /\ a.backup = Empty
  <2> DEFINE c == Clear(p)
  <2>1. /\ c \in Panel /\ c.gen = p.gen + 1 /\ c.backup = Empty /\ c.open = p.open
        /\ c.pending = p.pending /\ c.answers = p.answers /\ c.undo = p.undo
        /\ c.left = p.left /\ c.undoing = p.undoing
        /\ c.jobs = p.jobs \cup
               {[kind |-> "Delete", gen |-> p.gen + 1, run |-> 0, backup |-> Empty]}
    BY <1>6, ClearFields
  <2> HIDE DEF c
  <2>2. ~HoldsSome
    BY <1>5, <1>16, EmptyBackup DEF Covers, HoldsSome
  <2>3. PanelInOrder(c)
    BY <1>9, <2>1, EmptyBackup DEF PanelInOrder
  <2>4. RunTicket(c)
    BY <1>5, <1>6, <1>10, <2>1 DEF RunTicket
  <2>5. CurrentWork(c)
    BY <1>6, <1>9, <1>11, <2>1, <2>2, QueuesWork
  <2>6. PanelCovers(c)
    BY <1>6, <1>10, <2>1 DEF PanelCovers
  <2> QED BY <1>2, <1>5, <1>16, <2>1, <2>3, <2>4, <2>5, <2>6, PanelActs DEF c, PanelDurable
<1> QED BY <1>7, <1>14, <1>15, <1>16

LEMMA LoadDoneDurable ==
    ASSUME OneWindow, DurableInv, SoundInv', NEW w \in Window, LoadDone(w)
    PROVE  DurableInv'
<1>1. PICK a \in panel[w].answers :
        LET p == [panel[w] EXCEPT !.answers = @ \ {a}] IN
        /\ a.kind = "Load"
        /\ panel' = [panel EXCEPT ![w] =
               IF Current(w, a.gen) THEN NextGen([p EXCEPT !.backup = a.backup]) ELSE p]
  BY DEF LoadDone
<1>2. UNCHANGED <<content, journal, hand, forfeited, spent>>
  BY DEF LoadDone
<1>3. panel[w] \in Panel /\ PanelDurable(panel[w]) /\ PanelInOrder(panel[w])
  BY Owner
<1>4. a \in RunAnswer /\ a.backup \in Backup /\ InOrderEach(a.backup) /\ a.gen = 0
  BY <1>1, <1>3 DEF Panel, PanelInOrder, RunAnswer, PanelDurable, CurrentWork
<1> DEFINE p == [panel[w] EXCEPT !.answers = @ \ {a}]
           q == [p EXCEPT !.backup = a.backup]
           n == NextGen(q)
<1>5. /\ p \in Panel /\ p.gen = panel[w].gen /\ p.backup = panel[w].backup
      /\ p.jobs = panel[w].jobs /\ p.answers = panel[w].answers \ {a}
      /\ p.undo = panel[w].undo /\ p.left = panel[w].left /\ p.undoing = panel[w].undoing
      /\ p.open = panel[w].open /\ p.pending = panel[w].pending
  BY <1>3 DEF Panel
<1>6. panel' = [panel EXCEPT ![w] = IF Current(w, a.gen) THEN n ELSE p]
  BY <1>1
<1> HIDE DEF p
<1>7. /\ q \in Panel /\ q.gen = p.gen /\ q.backup = a.backup /\ q.pending = p.pending
      /\ q.jobs = p.jobs /\ q.answers = p.answers /\ q.undo = p.undo
      /\ q.left = p.left /\ q.undoing = p.undoing /\ q.open = p.open
  BY <1>4, <1>5 DEF Panel
<1> HIDE DEF q
<1>8. /\ n \in Panel /\ n.gen = q.gen + 1 /\ n.open = q.open /\ n.backup = q.backup
      /\ n.pending = q.pending /\ n.jobs = q.jobs /\ n.answers = q.answers /\ n.undo = q.undo
      /\ n.left = q.left /\ n.undoing = q.undoing
  BY <1>7, NextGenPanel
<1> HIDE DEF n
<1>9. PanelInOrder(p) /\ PanelInOrder(n)
  BY <1>3, <1>4, <1>5, <1>7, <1>8 DEF PanelInOrder
<1>10. panel[w].open
  BY <1>3 DEF PanelDurable, CurrentWork, ClosedPanel
<1>11. PanelDurable(p)
  <2>1. RunTicket(p)
    BY <1>3, <1>5 DEF PanelDurable, RunTicket
  <2>2. CurrentWork(p)
    BY <1>3, <1>5, <1>10 DEF PanelDurable, CurrentWork
  <2>3. PanelCovers(p)
    BY <1>3, <1>5 DEF PanelDurable, PanelCovers
  <2> QED BY <2>1, <2>2, <2>3 DEF PanelDurable
<1>12. CASE ~Current(w, a.gen)
  <2>1. hand.kind = "Save" /\ HoldsSome => Keys(p.backup) \subseteq Keys(hand.done)
    BY <1>5 DEF DurableInv, OthersSpare
  <2> QED BY <1>2, <1>5, <1>6, <1>9, <1>11, <1>12, <2>1, PanelActs
<1>13. CASE Current(w, a.gen)
  <2>1. /\ panel[w].gen = 0 /\ ~panel[w].pending /\ ~panel[w].undoing
        /\ hand.kind \in {"None", "Load"} /\ panel[w].left = Empty
        /\ Covers(a.backup) /\ Journaled(a.backup)
    BY <1>1, <1>3, <1>4, <1>13 DEF PanelDurable, CurrentWork, PanelCovers, Current
  <2>2. RunTicket(n)
    BY <1>3, <1>5, <1>7, <1>8, <2>1 DEF PanelDurable, RunTicket
  <2>3. CurrentWork(n)
    BY <1>3, <1>5, <1>7, <1>8, <1>10, OlderWork DEF PanelDurable, CurrentWork
  <2>4. PanelCovers(n)
    BY <1>5, <1>7, <1>8, <2>1 DEF PanelCovers
  <2> QED BY <1>2, <1>6, <1>8, <1>9, <1>13, <2>1, <2>2, <2>3, <2>4, PanelActs DEF PanelDurable
<1> QED BY <1>12, <1>13

LEMMA StartUndoDurable ==
    ASSUME OneWindow, DurableInv, SoundInv', NEW w \in Window, StartUndo(w)
    PROVE  DurableInv'
<1> DEFINE q == [panel[w] EXCEPT !.pending = TRUE, !.undoing = TRUE, !.undo = panel[w].backup]
           n == NextGen(q)
<1>1. /\ panel' = [panel EXCEPT ![w] = n]
      /\ panel[w].backup # Empty /\ ~panel[w].pending
      /\ spent' = [spent EXCEPT !.undos = @ + 1]
      /\ UNCHANGED <<content, journal, hand, retired, forfeited>>
  BY DEF StartUndo
<1>2. panel[w] \in Panel /\ PanelDurable(panel[w]) /\ PanelInOrder(panel[w])
  BY Owner
<1>3. spent'.runs = spent.runs
  BY <1>1 DEF DurableInv, SoundInv, ReplaceTypeOK, Spent
<1>4. /\ q \in Panel /\ q.gen = panel[w].gen /\ q.backup = panel[w].backup /\ q.pending
      /\ q.jobs = panel[w].jobs /\ q.answers = panel[w].answers
      /\ q.undo = panel[w].backup /\ q.left = panel[w].left /\ q.undoing
      /\ q.open = panel[w].open
  BY <1>2 DEF Panel
<1> HIDE DEF q
<1>5. /\ n \in Panel /\ n.gen = q.gen + 1 /\ n.open = q.open /\ n.backup = q.backup
      /\ n.pending = q.pending /\ n.jobs = q.jobs /\ n.answers = q.answers /\ n.undo = q.undo
      /\ n.left = q.left /\ n.undoing = q.undoing
  BY <1>4, NextGenPanel
<1> HIDE DEF n
<1>6. PanelInOrder(n)
  BY <1>2, <1>4, <1>5 DEF PanelInOrder
<1>7. panel[w].open /\ ~panel[w].undoing /\ panel[w].left = Empty /\ Covers(panel[w].backup)
      /\ Journaled(panel[w].backup)
  BY <1>1, <1>2 DEF PanelDurable, CurrentWork, PanelCovers, ClosedPanel
<1>8. RunTicket(n)
  BY <1>1, <1>2, <1>4, <1>5 DEF PanelDurable, RunTicket
<1>9. CurrentWork(n)
  BY <1>2, <1>4, <1>5, <1>7, OlderWork DEF PanelDurable, CurrentWork
<1>10. PanelCovers(n)
  BY <1>4, <1>5, <1>7, EmptyBackup DEF PanelCovers, Covers
<1>11. hand.kind = "Save" /\ HoldsSome => Keys(n.backup) \subseteq Keys(hand.done)
  BY <1>4, <1>5 DEF DurableInv, OthersSpare
<1> QED BY <1>1, <1>3, <1>5, <1>6, <1>8, <1>9, <1>10, <1>11, PanelActs DEF PanelDurable

LEMMA UndoDoneDurable ==
    ASSUME OneWindow, DurableInv, SoundInv', NEW w \in Window, UndoDone(w)
    PROVE  DurableInv'
<1> DEFINE left == panel[w].left
           p == [panel[w] EXCEPT !.pending = FALSE, !.undoing = FALSE, !.left = Empty]
<1>1. /\ panel[w].undoing /\ panel[w].undo = Empty
      /\ panel' = [panel EXCEPT ![w] = IF left = Empty THEN Clear(p) ELSE Keep(p, left)]
      /\ UNCHANGED <<content, journal, hand, retired, forfeited, spent>>
  BY DEF UndoDone
<1>2. panel[w] \in Panel /\ PanelDurable(panel[w]) /\ PanelInOrder(panel[w])
      /\ panel[w].left \in Backup /\ panel[w].backup \in Backup
  BY Owner DEF Panel
<1>3. /\ p \in Panel /\ p.gen = panel[w].gen /\ p.backup = panel[w].backup /\ ~p.pending
      /\ p.jobs = panel[w].jobs /\ p.answers = panel[w].answers
      /\ p.undo = Empty /\ p.left = Empty /\ ~p.undoing /\ p.open = panel[w].open
  BY <1>1, <1>2, EmptyBackup DEF Panel
<1> HIDE DEF p
<1>4. /\ panel[w].open /\ panel[w].pending /\ hand.kind # "Apply" /\ panel[w].gen # 0
      /\ \A j \in p.jobs : j.kind # "Apply"
      /\ \A a \in p.answers : ~IsOutcome(a)
      /\ Journaled(panel[w].backup)
      /\ \A f \in File : left[f] \in {NoEntry, panel[w].backup[f]}
      /\ \A f \in File : HoldsLatest(f) =>
            panel[w].backup[f].new = content[f] /\ left[f] # NoEntry
  BY <1>1, <1>2, <1>3, EmptyBackup DEF PanelDurable, RunTicket, CurrentWork, PanelCovers,
     ClosedPanel
<1>5. Covers(left) /\ Journaled(left) /\ Keys(left) \subseteq Keys(panel[w].backup)
  <2>1. Covers(left) /\ Keys(left) \subseteq Keys(panel[w].backup)
    BY <1>4 DEF Covers, Keys
  <2> QED BY <1>4, <2>1 DEF Journaled
<1>6. CurrentWork(p)
  BY <1>2, <1>3, <1>4 DEF PanelDurable, CurrentWork
<1>7. Journaled(Empty) /\ Keys(Empty) = {}
  BY EmptyBackup DEF Journaled
<1>8. CASE left = Empty
  <2> DEFINE c == Clear(p)
  <2>1. /\ c \in Panel /\ c.gen = p.gen + 1 /\ c.backup = Empty /\ c.open = p.open
        /\ c.pending = p.pending /\ c.answers = p.answers /\ c.undo = p.undo
        /\ c.left = p.left /\ c.undoing = p.undoing
        /\ c.jobs = p.jobs \cup
               {[kind |-> "Delete", gen |-> p.gen + 1, run |-> 0, backup |-> Empty]}
    BY <1>3, ClearFields
  <2>2. panel' = [panel EXCEPT ![w] = c]
    BY <1>1, <1>8
  <2> HIDE DEF c
  <2>3. ~HoldsSome
    BY <1>5, <1>8, EmptyBackup DEF Covers, HoldsSome
  <2>4. PanelInOrder(c)
    BY <1>2, <1>3, <2>1, EmptyBackup DEF PanelInOrder
  <2>5. RunTicket(c)
    BY <1>4, <2>1 DEF RunTicket
  <2>6. CurrentWork(c)
    <3>1. PICK kind \in {"Apply", "Save", "Delete"} : kind = "Delete"
      OBVIOUS
    <3>2. c.jobs = p.jobs \cup {[kind |-> kind, gen |-> p.gen + 1, run |-> 0, backup |-> Empty]}
      BY <2>1, <3>1
    <3>3. p.open /\ c.open /\ ~c.pending /\ c.gen = p.gen + 1 /\ c.answers = p.answers
      BY <1>3, <1>4, <2>1
    <3> QED BY <1>3, <1>6, <2>3, <3>1, <3>2, <3>3, QueuesWork
  <2>7. PanelCovers(c)
    BY <1>3, <1>7, <2>1 DEF PanelCovers
  <2>8. PanelDurable(c)
    BY <2>5, <2>6, <2>7 DEF PanelDurable
  <2> QED BY <1>1, <1>7, <2>1, <2>2, <2>3, <2>4, <2>8, PanelActs
<1>9. CASE left # Empty
  <2> DEFINE k == Keep(p, left)
  <2>1. /\ k \in Panel /\ k.gen = p.gen + 1 /\ k.backup = left /\ k.open = p.open
        /\ k.pending = p.pending /\ k.answers = p.answers /\ k.undo = p.undo
        /\ k.left = p.left /\ k.undoing = p.undoing
        /\ k.jobs = p.jobs \cup
               {[kind |-> "Save", gen |-> p.gen + 1, run |-> 0, backup |-> left]}
    BY <1>2, <1>3, KeepFields
  <2>2. panel' = [panel EXCEPT ![w] = k]
    BY <1>1, <1>9
  <2> HIDE DEF k
  <2>3. InOrderEach(left)
    BY <1>2 DEF PanelInOrder
  <2>4. PanelInOrder(k)
    BY <1>2, <1>3, <2>1, <2>3, EmptyBackup DEF PanelInOrder
  <2>5. RunTicket(k)
    BY <1>4, <2>1 DEF RunTicket
  <2>6. CurrentWork(k)
    BY <1>3, <1>4, <1>6, <1>9, <2>1, QueuesWork
  <2>7. PanelCovers(k)
    BY <1>3, <1>5, <2>1 DEF PanelCovers
  <2>8. PanelDurable(k)
    BY <2>5, <2>6, <2>7 DEF PanelDurable
  <2>9. hand.kind = "Save" /\ HoldsSome => Keys(left) \subseteq Keys(hand.done)
    BY <1>5 DEF DurableInv, OthersSpare
  <2> QED BY <1>1, <2>1, <2>2, <2>4, <2>8, <2>9, PanelActs
<1> QED BY <1>8, <1>9

\* A new run is later than whatever any entry says.
LEMMA OrderGrows ==
    ASSUME spent.runs \in Nat, spent'.runs = spent.runs + 1
    PROVE  /\ \A b \in Backup : InOrderEach(b) /\ OneRunEach(b) => InOrderEach(b)'
           /\ \A p \in Panel : PanelInOrder(p) /\ PanelOneRun(p) => PanelInOrder(p)'
<1>1. ASSUME NEW n \in 1 .. MaxRuns, n <= spent.runs
      PROVE  n <= spent'.runs
  BY <1>1, BoundsAssumption
<1>2. ASSUME NEW e \in Entry, InOrder(e), OneRun(e)
      PROVE  InOrder(e)'
  <2>1. Last(e.new.runs) \in 1 .. MaxRuns
    BY <1>2, EntryParts, LastRun DEF OneRun
  <2> QED BY <1>1, <1>2, <2>1 DEF InOrder
<1>3. ASSUME NEW b \in Backup, InOrderEach(b), OneRunEach(b)
      PROVE  InOrderEach(b)'
  BY <1>2, <1>3, NonEmptyKey DEF InOrderEach, OneRunEach
<1>4. ASSUME NEW p \in Panel, PanelInOrder(p), PanelOneRun(p)
      PROVE  PanelInOrder(p)'
  <2>1. /\ p.backup \in Backup /\ p.undo \in Backup /\ p.left \in Backup
        /\ \A j \in p.jobs : j.backup \in Backup
        /\ \A a \in p.answers : a.backup \in Backup
    BY DEF Panel, WorkItem, RunAnswer
  <2> QED BY <1>3, <1>4, <2>1 DEF PanelInOrder, PanelOneRun
<1> QED BY <1>3, <1>4

LEMMA StartReplaceDurable ==
    ASSUME OneWindow, DurableInv, SoundInv', NEW w \in Window, StartReplace(w)
    PROVE  DurableInv'
<1> DEFINE run == spent.runs + 1
           cleared == [panel[w] EXCEPT !.pending = TRUE, !.backup = Empty]
           claimed == NextGen(cleared)
           job == Work("Apply", claimed.gen, run, Empty)
           p == [claimed EXCEPT !.jobs = @ \cup {job}]
<1>1. /\ panel' = [panel EXCEPT ![w] = p] /\ spent' = [spent EXCEPT !.runs = run]
      /\ UNCHANGED <<content, journal, hand, retired, forfeited>>
      /\ panel[w].open /\ ~panel[w].pending
  BY DEF StartReplace
<1>2. /\ panel[w] \in Panel /\ PanelDurable(panel[w]) /\ PanelInOrder(panel[w])
      /\ panel \in [Window -> Panel] /\ PanelOneRun(panel[w]) /\ SoundInv
      /\ spent.runs \in Nat /\ spent \in Spent /\ content \in [File -> Content]
      /\ journal.entry \in Backup /\ OneRunEach(journal.entry)
      /\ hand.done \in Backup /\ OneRunEach(hand.done)
  BY Owner, BoundsAssumption DEF SoundInv, EntriesOneRun, ReplaceTypeOK, Spent, Journal, Hand
<1>3. spent'.runs = run
  BY <1>1, <1>2 DEF Spent
<1>4. /\ cleared \in Panel /\ cleared.backup = Empty /\ cleared.undo = panel[w].undo
      /\ cleared.left = panel[w].left /\ cleared.jobs = panel[w].jobs
      /\ cleared.answers = panel[w].answers /\ cleared.gen = panel[w].gen
      /\ cleared.pending /\ cleared.undoing = panel[w].undoing /\ cleared.open
  BY <1>1, <1>2, EmptyBackup DEF Panel
<1> HIDE DEF cleared
<1>5. /\ claimed \in Panel /\ claimed.backup = Empty /\ claimed.undo = panel[w].undo
      /\ claimed.left = panel[w].left /\ claimed.jobs = panel[w].jobs
      /\ claimed.answers = panel[w].answers /\ claimed.gen = panel[w].gen + 1
      /\ claimed.pending /\ claimed.undoing = panel[w].undoing /\ claimed.open
  BY <1>4, NextGenPanel
<1> HIDE DEF claimed
<1>6. job = [kind |-> "Apply", gen |-> panel[w].gen + 1, run |-> run, backup |-> Empty]
  BY <1>5 DEF Work
<1> HIDE DEF job, run
<1>7. /\ p.backup = Empty /\ p.undo = panel[w].undo
      /\ p.left = panel[w].left /\ p.answers = panel[w].answers
      /\ p.jobs = panel[w].jobs \cup {job} /\ p.gen = panel[w].gen + 1
      /\ p.pending /\ p.undoing = panel[w].undoing /\ p.open
  BY <1>5 DEF Panel
<1> HIDE DEF p
<1>8. PICK q :
         /\ q.backup = Empty /\ q.undo = panel[w].undo
         /\ q.left = panel[w].left /\ q.answers = panel[w].answers
         /\ q.jobs = panel[w].jobs \cup {job} /\ q.gen = panel[w].gen + 1
         /\ q.pending /\ q.undoing = panel[w].undoing /\ q.open
         /\ \A v \in Window : panel'[v] = q
  <2>1. \A v \in Window : panel'[v] = p
    BY <1>1, <1>2 DEF OneWindow
  <2> QED BY <1>7, <2>1
<1>9. \A f \in File : content[f].runs # <<>> =>
          Last(content[f].runs) <= spent'.runs /\ Last(content[f].runs) # spent'.runs
  <2>1. ASSUME NEW f \in File, content[f].runs # <<>>
        PROVE  Last(content[f].runs) <= spent'.runs /\ Last(content[f].runs) # spent'.runs
    <3>1. Last(content[f].runs) \in Nat
      BY <1>2, <2>1, LastRun, BoundsAssumption
    <3>2. Last(content[f].runs) <= spent.runs
      BY <2>1 DEF DurableInv, RunsInOrder
    <3> QED BY <1>2, <1>3, <3>1, <3>2 DEF run
  <2> QED BY <2>1
<1>10. ~HoldsSome' /\ \A f \in File : ~HoldsLatest(f)' /\ ~WroteLast(f)'
  BY <1>1, <1>9 DEF HoldsSome, HoldsLatest, WroteLast
<1>11. \A b : Covers(b)' /\ Journaled(b)'
  BY <1>10 DEF Covers, Journaled
<1>12. /\ ~panel[w].undoing /\ panel[w].left = Empty /\ hand.kind # "Apply"
       /\ \A j \in panel[w].jobs : j.kind # "Apply"
       /\ \A a \in panel[w].answers : ~IsOutcome(a)
  BY <1>1, <1>2 DEF PanelDurable, PanelCovers, RunTicket
<1>13. RunsInOrder'
  <2>1. InOrderEach(journal.entry)' /\ InOrderEach(hand.done)'
    BY <1>1, <1>2, <1>3, OrderGrows DEF DurableInv, RunsInOrder, run
  <2>2. \A o \in Panel : PanelInOrder(o) /\ PanelOneRun(o) => PanelInOrder(o)'
    BY <1>2, <1>3, OrderGrows DEF run
  <2>3. PICK o \in Panel : o = panel[w]
    BY <1>2
  <2>4. PanelInOrder(o)' /\ InOrderEach(Empty)'
    BY <1>2, <2>2, <2>3, EmptyBackup DEF InOrderEach
  <2>5. PanelInOrder(q)'
    <3>1. \A j \in q.jobs : j \in o.jobs \/ j.backup = Empty
      BY <1>6, <1>8, <2>3
    <3>2. Empty' = Empty
      BY DEF Empty
    <3>3. \A j \in q.jobs : InOrderEach(j.backup)'
      BY <2>4, <3>1, <3>2 DEF PanelInOrder
    <3> QED BY <1>8, <2>3, <2>4, <3>2, <3>3 DEF PanelInOrder
  <2>6. \A v \in Window : PanelInOrder(panel[v])'
    BY <1>8, <2>5
  <2> QED BY <1>1, <1>9, <2>1, <2>6 DEF RunsInOrder
<1>14. UndoDurable' /\ ApplyJournals' /\ OthersSpare'
  BY <1>1, <1>10, <1>12 DEF UndoDurable, ApplyJournals, OthersSpare
<1>15. RunTicket(q)'
  <2>1. \A j \in q.jobs : j.kind = "Apply" => j = job
    BY <1>8, <1>12
  <2>2. job.run = spent'.runs /\ job.backup = Empty
    BY <1>3, <1>6
  <2> QED BY <1>1, <1>8, <1>10, <1>12, <2>1, <2>2 DEF RunTicket
<1>16. CurrentWork(q)'
  <2>1. CurrentWork(q)
    <3>1. CurrentWork(panel[w])
      BY <1>2 DEF PanelDurable
    <3> QED BY <1>1, <1>2, <1>6, <1>8, <3>1, QueuesWork
  <2> QED BY <1>1, <1>10, <1>11, <2>1 DEF CurrentWork
<1>17. PanelCovers(q)'
  BY <1>8, <1>11, <1>12 DEF PanelCovers
<1>18. \A v \in Window : PanelDurable(panel[v])'
  BY <1>8, <1>15, <1>16, <1>17 DEF PanelDurable
<1> QED BY <1>13, <1>14, <1>18 DEF DurableInv

\* What a run read of a file is the work of an earlier one.
LEMMA OldIsOlder ==
    ASSUME NEW e \in Entry, OneRun(e), InOrder(e), e.old.runs # <<>>, spent.runs \in Nat
    PROVE  Last(e.old.runs) <= spent.runs /\ Last(e.old.runs) # spent.runs
<1>1. Last(e.old.runs) \in 1 .. MaxRuns /\ Last(e.new.runs) \in 1 .. MaxRuns
  BY EntryParts, LastRun DEF OneRun
<1>2. Last(e.old.runs) \in Nat /\ Last(e.new.runs) \in Nat
  BY <1>1, BoundsAssumption
<1>3. Last(e.old.runs) < Last(e.new.runs) /\ Last(e.new.runs) <= spent.runs
  BY DEF InOrder
<1> QED BY <1>2, <1>3

LEMMA UndoFileDurable ==
    ASSUME OneWindow, DurableInv, SoundInv', NEW w \in Window, NEW f \in File, UndoFile(w, f)
    PROVE  DurableInv'
<1>1. /\ panel[w] \in Panel /\ PanelDurable(panel[w]) /\ PanelInOrder(panel[w])
      /\ panel \in [Window -> Panel] /\ PanelOneRun(panel[w]) /\ SoundInv
      /\ spent.runs \in Nat /\ content \in [File -> Content]
  BY Owner, BoundsAssumption DEF SoundInv, EntriesOneRun, ReplaceTypeOK, Spent
<1>2. PICK o \in Panel : o = panel[w]
  BY <1>1
<1>3. PICK e \in Entry : e = o.undo[f]
  BY <1>1, <1>2, UndoFileParts
<1>4. /\ o.undoing /\ e # NoEntry /\ OneRun(e)
      /\ \/ /\ panel' = [panel EXCEPT ![w] = Taken(o, f)]
            /\ \/ content' = content /\ content[f] = e.old
               \/ content' = [content EXCEPT ![f] = e.old]
         \/ /\ panel' = [panel EXCEPT ![w] = KeptFor(o, f)]
            /\ content' = content \/ content' = [content EXCEPT ![f] = e.old]
      /\ UNCHANGED <<journal, hand, retired, forfeited>> /\ spent'.runs = spent.runs
  BY <1>1, <1>2, <1>3, UndoFileParts
<1>5. PICK q \in {Taken(o, f), KeptFor(o, f)} : panel' = [panel EXCEPT ![w] = q]
  BY <1>4
<1>6. /\ q.gen = o.gen /\ q.backup = o.backup /\ q.pending = o.pending
      /\ q.jobs = o.jobs /\ q.answers = o.answers /\ q.undoing = o.undoing
      /\ q.undo = [o.undo EXCEPT ![f] = NoEntry]
      /\ q.left \in {o.left, [o.left EXCEPT ![f] = e]}
      /\ q = Taken(o, f) => q.left = o.left
      /\ q = KeptFor(o, f) => q.left = [o.left EXCEPT ![f] = e]
  <2>1. PanelOneRun(o) /\ o.undo[f] # NoEntry
    BY <1>1, <1>2, <1>3, <1>4
  <2>2. /\ \A r \in {Taken(o, f), KeptFor(o, f)} :
             /\ r \in Panel /\ PanelOneRun(r)
             /\ r.gen = o.gen /\ r.backup = o.backup /\ r.pending = o.pending
             /\ r.jobs = o.jobs /\ r.answers = o.answers /\ r.undoing = o.undoing
             /\ r.undo = [o.undo EXCEPT ![f] = NoEntry]
        /\ Taken(o, f).left = o.left
        /\ KeptFor(o, f).left = [o.left EXCEPT ![f] = o.undo[f]]
    BY <2>1, UndoFilePanel
  <2> QED BY <1>3, <1>5, <2>2
<1>7. /\ InOrder(e) /\ o.backup[f] = e /\ hand.kind # "Apply"
      /\ o.undo \in Backup /\ o.left \in Backup /\ o.open
  BY <1>1, <1>2, <1>3, <1>4 DEF PanelInOrder, InOrderEach, PanelDurable, PanelCovers,
     RunTicket, CurrentWork, ClosedPanel, Panel
<1>8. e.old.runs # <<>> => Last(e.old.runs) <= spent.runs /\ Last(e.old.runs) # spent.runs
  BY <1>1, <1>4, <1>7, OldIsOlder
<1>9. content'[f] = e.old => ~HoldsLatest(f)' /\ ~WroteLast(f)'
  BY <1>4, <1>8 DEF HoldsLatest, WroteLast
<1>10. \/ content' = content
       \/ content' = [content EXCEPT ![f] = e.old]
  BY <1>4
<1>11. HeldStays
  BY <1>1, <1>4, <1>9, <1>10 DEF HeldStays, HoldsLatest, WroteLast
<1>12. HoldsLatest(f)' => q.left[f] # NoEntry
  <2>1. CASE panel' = [panel EXCEPT ![w] = KeptFor(o, f)]
    <3>1. q = KeptFor(o, f)
      BY <1>1, <1>5, <2>1
    <3> QED BY <1>4, <1>6, <1>7, <3>1 DEF Backup
  <2>2. CASE content'[f] = e.old
    BY <1>9, <2>2
  <2> QED BY <1>1, <1>4, <2>1, <2>2
<1>13. PanelDurable(o)'
  BY <1>1, <1>2, <1>4, <1>11, PanelStays
<1>14. RunTicket(q)' /\ CurrentWork(q)'
  <2>1. q.open = o.open
    BY <1>5 DEF Taken, KeptFor, Panel
  <2> QED BY <1>6, <1>7, <1>13, <2>1 DEF PanelDurable, RunTicket, CurrentWork
<1>15. PanelCovers(q)'
  <2>1. \A g \in File : g # f => q.undo[g] = o.undo[g] /\ q.left[g] = o.left[g]
    BY <1>6, <1>7 DEF Backup
  <2>2. q.undo[f] = NoEntry /\ q.left[f] \in {o.left[f], e}
    BY <1>6, <1>7 DEF Backup
  <2>3. \A g \in File : /\ q.undo[g] \in {NoEntry, q.backup[g]}
                        /\ q.left[g] \in {NoEntry, q.backup[g]}
    BY <1>4, <1>6, <1>7, <1>13, <2>1, <2>2 DEF PanelDurable, PanelCovers
  <2>4. \A g \in File : HoldsLatest(g)' =>
            q.backup[g].new = content'[g] /\ (q.undo[g] # NoEntry \/ q.left[g] # NoEntry)
    BY <1>4, <1>6, <1>12, <1>13, <2>1 DEF PanelDurable, PanelCovers
  <2> QED BY <1>4, <1>6, <1>13, <2>3, <2>4 DEF PanelDurable, PanelCovers
<1>16. \A v \in Window : panel'[v] = q /\ panel[v] = o
  BY <1>1, <1>2, <1>5 DEF OneWindow
<1>17. RunsInOrder'
  <2>1. PanelInOrder(q)
    <3>1. InOrderEach(o.undo) /\ InOrderEach(o.left)
      BY <1>1, <1>2 DEF PanelInOrder
    <3>2. InOrderEach([o.undo EXCEPT ![f] = NoEntry])
      BY <1>7, <3>1, BackupWith
    <3>3. InOrderEach([o.left EXCEPT ![f] = e])
      BY <1>7, <3>1, BackupWith
    <3> QED BY <1>1, <1>2, <1>6, <3>1, <3>2, <3>3 DEF PanelInOrder
  <2>2. PanelInOrder(q)'
    BY <1>4, <2>1, OrderStays
  <2>3. \A v \in Window : PanelInOrder(panel[v])'
    BY <1>16, <2>2
  <2>4. InOrderEach(journal.entry)' /\ InOrderEach(hand.done)'
    BY <1>4, OrderStays DEF DurableInv, RunsInOrder
  <2>5. \A g \in File : content'[g].runs # <<>> => Last(content'[g].runs) <= spent'.runs
    BY <1>1, <1>4, <1>8, <1>10 DEF DurableInv, RunsInOrder
  <2> QED BY <2>3, <2>4, <2>5 DEF RunsInOrder
<1>18. UndoDurable'
  BY <1>4, <1>11, UndoStays DEF DurableInv
<1>19. ApplyJournals'
  BY <1>4, <1>7 DEF ApplyJournals
<1>20. OthersSpare'
  <2>1. HoldsSome' => HoldsSome
    BY <1>11, HeldStaysSome
  <2>2. Covers(hand.done) => Covers(hand.done)'
    BY <1>4, <1>11, CoversStays
  <2> QED BY <1>4, <1>6, <1>16, <2>1, <2>2 DEF DurableInv, OthersSpare
<1>21. \A v \in Window : PanelDurable(panel[v])'
  BY <1>14, <1>15, <1>16 DEF PanelDurable
<1> QED BY <1>17, <1>18, <1>19, <1>20, <1>21 DEF DurableInv

LEMMA SaveFileDurable ==
    ASSUME DurableInv, SoundInv', NEW f \in File, SaveFile(f)
    PROVE  DurableInv'
<1>1. /\ content' = [content EXCEPT ![f] = [save |-> @.save + 1, runs |-> <<>>]]
      /\ hand.file # f /\ UNCHANGED <<journal, hand, panel, retired, forfeited>>
      /\ spent' = [spent EXCEPT !.saves = @ + 1]
  BY DEF SaveFile
<1>2. content \in [File -> Content] /\ spent'.runs = spent.runs /\ hand \in Hand
      /\ PlacedRight(hand)
  BY <1>1 DEF DurableInv, SoundInv, ReplaceTypeOK, Spent
<1>3. content'[f].runs = <<>> /\ \A g \in File : g # f => content'[g] = content[g]
  BY <1>1, <1>2
<1>4. HeldStays
  BY <1>1, <1>2, <1>3 DEF HeldStays, HoldsLatest, WroteLast
<1>5. RunsInOrder'
  <2>1. \A v \in Window : PanelInOrder(panel[v])'
    BY <1>1, <1>2, OrderStays DEF DurableInv, RunsInOrder
  <2>2. InOrderEach(journal.entry)' /\ InOrderEach(hand.done)'
    BY <1>1, <1>2, OrderStays DEF DurableInv, RunsInOrder
  <2> QED BY <1>2, <1>3, <2>1, <2>2 DEF DurableInv, RunsInOrder
<1>6. UndoDurable'
  BY <1>1, <1>4, UndoStays DEF DurableInv
<1>7. ApplyJournals'
  BY <1>1, <1>2, <1>3, <1>4, ApplyStays DEF DurableInv, PlacedRight
<1>8. OthersSpare'
  <2>1. HoldsSome' => HoldsSome
    BY <1>4, HeldStaysSome
  <2>2. Covers(hand.done) => Covers(hand.done)'
    BY <1>1, <1>4, CoversStays
  <2> QED BY <1>1, <2>1, <2>2 DEF DurableInv, OthersSpare
<1>9. \A v \in Window : PanelDurable(panel[v])'
  <2>1. ASSUME NEW v \in Window
        PROVE  PanelDurable(panel[v])'
    <3>1. PICK o : o = panel[v]
      OBVIOUS
    <3>2. PanelDurable(o)'
      BY <1>1, <1>2, <1>4, <3>1, PanelStays DEF DurableInv
    <3> QED BY <1>1, <3>1, <3>2
  <2> QED BY <2>1
<1> QED BY <1>5, <1>6, <1>7, <1>8, <1>9 DEF DurableInv

LEMMA InitDurable == Init => DurableInv
<1> SUFFICES ASSUME Init PROVE DurableInv
  OBVIOUS
<1>1. SoundInv
  BY InitSound
<1>2. /\ \A f \in File : content[f].runs = <<>>
      /\ journal.entry = Empty /\ hand = IdleHand /\ hand.kind = "None" /\ hand.done = Empty
      /\ \A w \in Window : panel[w] = ClosedPanel
  BY DEF Init, NoJournal, IdleHand
<1>3. ~HoldsSome /\ \A f \in File : ~HoldsLatest(f)
  BY <1>2 DEF HoldsSome, HoldsLatest, WroteLast
<1>4. RunsInOrder
  <2>1. PanelInOrder(ClosedPanel)
    BY EmptyBackup DEF PanelInOrder, ClosedPanel
  <2> QED BY <1>2, <2>1, EmptyBackup DEF RunsInOrder
<1>5. UndoDurable /\ ApplyJournals /\ OthersSpare
  BY <1>2, <1>3 DEF UndoDurable, ApplyJournals, OthersSpare
<1>6. PanelDurable(ClosedPanel)
  BY <1>2, <1>3 DEF PanelDurable, RunTicket, CurrentWork, PanelCovers, ClosedPanel, Journaled
<1> QED BY <1>1, <1>2, <1>4, <1>5, <1>6 DEF DurableInv

LEMMA CrashDurable ==
    ASSUME DurableInv, SoundInv', Crash
    PROVE  DurableInv'
<1>1. /\ panel' = [w \in Window |-> ClosedPanel] /\ hand' = IdleHand
      /\ spent' = [spent EXCEPT !.crashes = @ + 1]
      /\ UNCHANGED <<content, journal, forfeited>>
  BY DEF Crash
<1>2. /\ spent'.runs = spent.runs /\ hand'.kind = "None" /\ hand'.done = Empty
      /\ \A w \in Window : panel'[w] = ClosedPanel
  BY <1>1 DEF DurableInv, SoundInv, ReplaceTypeOK, Spent, IdleHand
<1>3. HeldStays
  BY <1>1, <1>2, SameHeld
<1>4. RunsInOrder'
  <2>1. PanelInOrder(ClosedPanel)
    BY EmptyBackup DEF PanelInOrder, ClosedPanel
  <2>2. PICK o : o = ClosedPanel
    OBVIOUS
  <2>3. PanelInOrder(o)'
    BY <1>2, <2>1, <2>2, OrderStays
  <2>4. \A v \in Window : PanelInOrder(panel[v])'
    BY <1>2, <2>2, <2>3
  <2>5. InOrderEach(journal.entry)'
    BY <1>1, <1>2, OrderStays DEF DurableInv, RunsInOrder
  <2>6. InOrderEach(hand.done)'
    BY <1>2, EmptyBackup DEF InOrderEach
  <2> QED BY <1>1, <1>2, <2>4, <2>5, <2>6 DEF DurableInv, RunsInOrder
<1>5. UndoDurable'
  BY <1>1, <1>3, UndoStays DEF DurableInv
<1>6. ApplyJournals' /\ OthersSpare'
  BY <1>2 DEF ApplyJournals, OthersSpare
<1>7. \A w \in Window : PanelDurable(panel[w])'
  <2>1. /\ ClosedPanel.jobs = {} /\ ClosedPanel.answers = {} /\ ~ClosedPanel.pending
        /\ ~ClosedPanel.undoing /\ ClosedPanel.left = Empty /\ ClosedPanel.backup = Empty
    BY DEF ClosedPanel
  <2>2. PICK o : o = ClosedPanel
    OBVIOUS
  <2>3. Journaled(Empty)'
    BY EmptyBackup DEF Journaled
  <2>4. RunTicket(o)' /\ CurrentWork(o)'
    BY <1>2, <2>1, <2>2 DEF RunTicket, CurrentWork, ClosedPanel
  <2>5. PanelCovers(o)'
    BY <2>1, <2>2, <2>3 DEF PanelCovers
  <2> QED BY <1>2, <2>2, <2>4, <2>5 DEF PanelDurable
<1> QED BY <1>4, <1>5, <1>6, <1>7 DEF DurableInv

\* What an active journal offers is still in it.
LEMMA OfferedDurable ==
    ASSUME DurableInv
    PROVE  /\ Covers(Offered(journal)) /\ Journaled(Offered(journal))
           /\ InOrderEach(Offered(journal)) /\ (HoldsSome => Active(journal))
<1>1. \A f \in File : Offered(journal)[f] \in {NoEntry, journal.entry[f]}
  BY OfferedSound DEF DurableInv
<1>2. Keys(Offered(journal)) \subseteq Keys(journal.entry)
  BY <1>1 DEF Keys
<1>3. Covers(Offered(journal)) /\ (HoldsSome => Active(journal))
  BY DEF DurableInv, UndoDurable, Covers, HoldsSome
<1>4. InOrderEach(Offered(journal))
  BY <1>1, Zenon DEF DurableInv, RunsInOrder, InOrderEach
<1> QED BY <1>2, <1>3, <1>4 DEF Journaled

\* A worker that takes the lock and ends there.
LEMMA TakeLockEnds ==
    ASSUME OneWindow, DurableInv, SoundInv', NEW w \in Window, NEW j \in panel[w].jobs,
           hand = IdleHand, UNCHANGED <<content, journal, hand, forfeited>>,
           spent'.runs = spent.runs,
           \/ /\ ~Current(w, j.gen)
              /\ IF j.kind = "Apply" THEN Answer(w, j, "Superseded", Empty)
                 ELSE panel' = [panel EXCEPT ![w].jobs = @ \ {j}]
           \/ Current(w, j.gen) /\ j.kind = "Load" /\ Answer(w, j, "Load", Offered(journal))
    PROVE  DurableInv'
<1>1. /\ panel[w] \in Panel /\ PanelDurable(panel[w]) /\ PanelInOrder(panel[w])
      /\ panel \in [Window -> Panel] /\ SoundInv /\ panel[w].open
  BY Owner DEF PanelDurable, CurrentWork, ClosedPanel
<1>2. /\ j \in WorkItem /\ hand.kind = "None"
  BY <1>1 DEF Panel, IdleHand
<1> DEFINE d == [panel[w] EXCEPT !.jobs = @ \ {j}]
<1>3. /\ d \in Panel /\ d.gen = panel[w].gen /\ d.backup = panel[w].backup
      /\ d.jobs = panel[w].jobs \ {j} /\ d.answers = panel[w].answers
      /\ d.undo = panel[w].undo /\ d.left = panel[w].left /\ d.undoing = panel[w].undoing
      /\ d.open = panel[w].open /\ d.pending = panel[w].pending
  BY <1>1 DEF Panel
<1>4. PanelInOrder(d)
  BY <1>1, <1>3 DEF PanelInOrder
<1>5. RunTicket(d) /\ CurrentWork(d) /\ PanelCovers(d)
  BY <1>1, <1>3 DEF PanelDurable, RunTicket, CurrentWork, PanelCovers
<1>6. CASE panel' = [panel EXCEPT ![w].jobs = @ \ {j}]
  <2>1. panel' = [panel EXCEPT ![w] = d]
    BY <1>1, <1>6
  <2> HIDE DEF d
  <2> QED BY <1>2, <1>3, <1>4, <1>5, <2>1, PanelActs DEF PanelDurable
<1>7. ASSUME NEW kind \in {"Superseded", "Load"}, NEW b \in Backup, InOrderEach(b),
             Covers(b), Journaled(b), Answer(w, j, kind, b),
             kind = "Load" <=> j.kind = "Load",
             kind = "Superseded" => j.kind = "Apply"
      PROVE  DurableInv'
  <2> DEFINE r == [kind |-> kind, gen |-> j.gen, backup |-> b]
             a == [d EXCEPT !.answers = @ \cup {r}]
  <2>1. panel' = [panel EXCEPT ![w] = a]
    BY <1>1, <1>7 DEF Answer, Panel
  <2>2. r \in RunAnswer /\ r.kind = kind /\ r.gen = j.gen /\ r.backup = b
    BY <1>2 DEF RunAnswer, WorkItem
  <2> HIDE DEF d, r
  <2>3. /\ a \in Panel /\ a.gen = d.gen /\ a.backup = d.backup
        /\ a.jobs = d.jobs /\ a.answers = d.answers \cup {r}
        /\ a.undo = d.undo /\ a.left = d.left /\ a.undoing = d.undoing
        /\ a.open = d.open /\ a.pending = d.pending
    BY <1>3, <2>2 DEF Panel
  <2> HIDE DEF a
  <2>4. PanelInOrder(a)
    BY <1>4, <1>7, <2>2, <2>3 DEF PanelInOrder
  <2>5. j.gen <= a.gen /\ (j.kind = "Load" <=> j.gen = 0)
    BY <1>1, <1>3, <2>3 DEF PanelDurable, CurrentWork
  <2>6. CurrentWork(a)
    BY <1>1, <1>3, <1>5, <1>7, <2>2, <2>3, <2>5 DEF CurrentWork
  <2>7. PanelCovers(a)
    BY <1>5, <2>3 DEF PanelCovers
  <2>8. RunTicket(a)
    <3>1. CASE kind = "Load"
      <4>1. ~IsOutcome(r)
        BY <2>2, <3>1 DEF IsOutcome
      <4> QED BY <1>5, <2>3, <4>1 DEF RunTicket
    <3>2. CASE kind = "Superseded"
      <4>1. /\ panel[w].pending /\ ~panel[w].undoing
            /\ \A k \in panel[w].jobs : k.kind = "Apply" => k = j
            /\ \A o \in panel[w].answers : ~IsOutcome(o)
        BY <1>1, <1>7, <3>2 DEF PanelDurable, RunTicket
      <4>2. /\ a.pending /\ ~a.undoing
            /\ \A k \in a.jobs : k.kind # "Apply"
            /\ \A o \in a.answers : IsOutcome(o) => o = r
        BY <1>3, <2>3, <4>1
      <4> QED BY <1>2, <1>7, <2>2, <4>2 DEF RunTicket
    <3> QED BY <3>1, <3>2
  <2> QED BY <1>2, <2>1, <2>3, <2>4, <2>6, <2>7, <2>8, PanelActs DEF PanelDurable
<1>8. CASE ~Current(w, j.gen) /\ j.kind = "Apply" /\ Answer(w, j, "Superseded", Empty)
  <2>1. ~HoldsSome
    BY <1>1, <1>8 DEF PanelDurable, RunTicket, HoldsSome, HoldsLatest
  <2>2. Empty \in Backup /\ InOrderEach(Empty) /\ Covers(Empty) /\ Journaled(Empty)
    BY <2>1, EmptyBackup DEF Covers, HoldsSome, Journaled
  <2> QED BY <1>7, <1>8, <2>2
<1>9. CASE j.kind = "Load" /\ Answer(w, j, "Load", Offered(journal))
  BY <1>1, <1>7, <1>9, OfferedSound, OfferedDurable
<1> QED BY <1>6, <1>8, <1>9

\* A worker that takes the lock and goes to work.
LEMMA TakeLockHolds ==
    ASSUME OneWindow, DurableInv, SoundInv', NEW w \in Window, NEW j \in panel[w].jobs,
           hand = IdleHand, UNCHANGED content, spent'.runs = spent.runs, HeldStays,
           Current(w, j.gen), panel' = [panel EXCEPT ![w].jobs = @ \ {j}],
           NEW step \in {"Next", "Manifest", "Mark"}, step = "Next" <=> j.kind = "Apply",
           hand' = Hold(w, j, step), InOrderEach(journal'.entry),
           HoldsSome' => j.kind # "Load" /\ journal' = journal,
           HoldsSome' /\ j.kind = "Save" => step = "Manifest"
    PROVE  DurableInv'
<1>1. /\ panel \in [Window -> Panel] /\ SoundInv /\ PanelOneRun(panel[w])
      /\ PanelDurable(panel[w]) /\ PanelInOrder(panel[w])
  BY Owner DEF SoundInv, EntriesOneRun
<1>2. PICK o \in Panel : o = panel[w]
  BY Owner
<1>3. PICK q \in Panel :
         /\ q.gen = o.gen /\ q.backup = o.backup /\ q.jobs = o.jobs \ {j}
         /\ q.answers = o.answers /\ q.undo = o.undo /\ q.left = o.left
         /\ q.undoing = o.undoing /\ q.open = o.open /\ q.pending = o.pending
         /\ \A v \in Window : panel'[v] = q
  <2> DEFINE d == [o EXCEPT !.jobs = @ \ {j}]
  <2>1. /\ d \in Panel
        /\ d.gen = o.gen /\ d.backup = o.backup /\ d.jobs = o.jobs \ {j}
        /\ d.answers = o.answers /\ d.undo = o.undo /\ d.left = o.left
        /\ d.undoing = o.undoing /\ d.open = o.open /\ d.pending = o.pending
    BY DEF Panel
  <2>2. \A v \in Window : panel'[v] = d
    BY <1>1, <1>2 DEF OneWindow
  <2> HIDE DEF d
  <2> QED BY <2>1, <2>2
<1>4. /\ j \in o.jobs /\ j \in WorkItem /\ OneRunEach(j.backup) /\ InOrderEach(j.backup)
      /\ (j.kind = "Apply" => j.run > 0) /\ j.gen = o.gen /\ j.backup \in Backup
  BY <1>1, <1>2 DEF Panel, PanelOneRun, PanelInOrder, Current, WorkItem
<1>5. /\ hand' \in Hand /\ hand'.win = w /\ hand'.kind = j.kind /\ hand'.gen = j.gen
      /\ hand'.run = j.run /\ hand'.done = j.backup /\ hand'.file = NoFile
      /\ ~hand'.prepared /\ ~hand'.armed /\ hand'.step = step
  BY <1>4, HoldStepSound
<1>6. hand.kind = "None" /\ hand.done = Empty /\ j.kind \in {"Apply", "Save", "Delete", "Load"}
  BY <1>4 DEF IdleHand, WorkItem
<1>7. /\ PanelDurable(o) /\ PanelInOrder(o) /\ o.open
      /\ j.kind = "Load" <=> j.gen = 0
      /\ ~o.pending => ~o.undoing
  BY <1>1, <1>2, <1>4 DEF PanelDurable, CurrentWork, PanelCovers, ClosedPanel
<1>8. /\ j.kind = "Delete" => ~HoldsSome
      /\ j.kind = "Apply" => \A f \in File : ~WroteLast(f)
      /\ j.kind = "Save" =>
            /\ ~o.pending /\ j.backup = o.backup /\ Covers(j.backup) /\ Journaled(j.backup)
  BY <1>4, <1>7 DEF PanelDurable, CurrentWork, PanelCovers, RunTicket
<1>9. j.kind = "Apply" =>
        /\ o.pending /\ ~o.undoing /\ j.run = spent.runs /\ j.backup = Empty
        /\ \A k \in o.jobs : k.kind = "Apply" => k = j
        /\ \A a \in o.answers : ~IsOutcome(a)
  BY <1>4, <1>7 DEF PanelDurable, RunTicket
<1>10. HeldStays /\ (HoldsSome' => HoldsSome) /\ spent'.runs = spent.runs
  BY HeldStaysSome
<1>11. j.kind = "Apply" => \A f \in File : ~WroteLast(f)' /\ ~HoldsLatest(f)'
  BY <1>8, <1>10 DEF HeldStays, HoldsLatest
<1>12. RunsInOrder'
  <2>1. PanelInOrder(q)
    BY <1>3, <1>7 DEF PanelInOrder
  <2>2. PanelInOrder(q)'
    BY <1>10, <2>1, OrderStays
  <2>3. \A v \in Window : PanelInOrder(panel[v])'
    BY <1>3, <2>2
  <2>4. InOrderEach(j.backup)'
    BY <1>4, <1>10, OrderStays
  <2>5. InOrderEach(journal.entry)' /\ InOrderEach(hand.done)'
    BY <1>5, <1>10, <2>4, OrderStays
  <2> QED BY <1>10, <2>3, <2>5 DEF DurableInv, RunsInOrder
<1>13. UndoDurable'
  <2>1. CASE HoldsSome'
    BY <1>10, <2>1, UndoStays DEF DurableInv
  <2>2. CASE ~HoldsSome'
    BY <2>2 DEF UndoDurable, HoldsSome
  <2> QED BY <2>1, <2>2
<1>14. ApplyJournals'
  <2> SUFFICES ASSUME j.kind = "Apply" PROVE ApplyJournals'
    BY <1>5 DEF ApplyJournals
  <2>1. hand'.step = "Next" /\ hand'.done = Empty /\ hand'.run = spent'.runs
    BY <1>5, <1>9, <1>10
  <2>2. hand'.file \notin hand'.todo
    BY <1>5, SentinelAssumption DEF Hand
  <2>3. \A f \in File : ~WroteLast(f)' /\ ~HoldsLatest(f)'
    BY <1>11
  <2>4. Covers(hand.done)'
    BY <2>3 DEF Covers
  <2> QED BY <1>5, <2>1, <2>2, <2>3, <2>4, EmptyBackup DEF ApplyJournals
<1>15. OthersSpare'
  <2>1. ASSUME j.kind = "Save", HoldsSome'
        PROVE  /\ hand'.step = "Manifest" /\ Covers(hand.done)'
               /\ Keys(hand'.done) \subseteq Keys(journal'.entry)
               /\ \A v \in Window : Keys(panel'[v].backup) \subseteq Keys(hand'.done)
    <3>1. Keys(j.backup) \subseteq Keys(journal.entry)
      BY <1>8, <1>10, <2>1 DEF Journaled
    <3>4. Covers(j.backup)'
      BY <1>8, <1>10, <2>1, CoversStays
    <3>5. Covers(hand.done)'
      BY <1>5, <3>4
    <3> QED BY <1>3, <1>5, <1>8, <2>1, <3>1, <3>5
  <2>2. j.kind \in {"Load", "Delete"} => ~HoldsSome'
    BY <1>8, <1>10
  <2> QED BY <1>5, <1>10, <2>1, <2>2 DEF OthersSpare, Keys
<1>16. RunTicket(q)'
  <2>1. o.gen \in Nat /\ (j.kind = "Apply" => o.gen # 0)
    BY <1>4, <1>7 DEF Panel
  <2>2. j.kind = "Apply" => hand'.gen \in 1 .. q.gen
    BY <1>3, <1>4, <1>5, <2>1
  <2>3. \A k \in q.jobs : k.kind = "Apply" =>
          /\ q.pending /\ ~q.undoing /\ j.kind # "Apply"
          /\ k.run = spent.runs /\ k.backup = Empty /\ \A f \in File : ~WroteLast(f)
          /\ \A l \in q.jobs : l.kind = "Apply" => l = k
          /\ \A a \in q.answers : ~IsOutcome(a)
    BY <1>3, <1>7, <1>9 DEF PanelDurable, RunTicket
  <2>4. \A a \in q.answers : ~IsOutcome(a)
    <3>1. CASE j.kind = "Apply"
      BY <1>3, <1>9, <3>1
    <3>2. CASE j.kind # "Apply"
      <4>1. ~o.pending
        BY <1>4, <1>6, <1>7, <3>2 DEF PanelDurable, CurrentWork
      <4> QED BY <1>3, <1>7, <4>1 DEF PanelDurable, RunTicket
    <3> QED BY <3>1, <3>2
  <2> QED BY <1>3, <1>5, <1>9, <1>10, <2>2, <2>3, <2>4 DEF RunTicket, HeldStays
<1>17. CurrentWork(q)'
  <2>1. \A b : Covers(b) => Covers(b)'
    BY <1>10, CoversStays
  <2>2. \A b : Journaled(b) => Journaled(b)'
    BY <1>10 DEF Journaled
  <2>3. q.gen = 0 => hand'.kind = "Load"
    BY <1>3, <1>4, <1>5, <1>7
  <2> QED BY <1>3, <1>7, <1>10, <2>1, <2>2, <2>3 DEF PanelDurable, CurrentWork
<1>18. PanelCovers(q)'
  <2>1. Covers(q.backup) => Covers(q.backup)'
    BY <1>10, CoversStays
  <2>2. Journaled(q.backup) => Journaled(q.backup)'
    BY <1>10 DEF Journaled
  <2>3. \A f \in File : HoldsLatest(f)' => HoldsLatest(f) /\ content'[f] = content[f]
    BY <1>10 DEF HeldStays
  <2> QED BY <1>3, <1>7, <2>1, <2>2, <2>3 DEF PanelDurable, PanelCovers
<1>19. \A v \in Window : PanelDurable(panel[v])'
  BY <1>3, <1>16, <1>17, <1>18 DEF PanelDurable
<1> QED BY <1>12, <1>13, <1>14, <1>15, <1>19 DEF DurableInv

LEMMA TakeLockDurable ==
    ASSUME OneWindow, DurableInv, SoundInv', NEW w \in Window, TakeLock(w)
    PROVE  DurableInv'
<1>1. hand = IdleHand /\ UNCHANGED <<content, journal, forfeited, spent>>
  BY DEF TakeLock
<1>2. PICK j \in panel[w].jobs :
         \/ /\ ~Current(w, j.gen) /\ UNCHANGED hand
            /\ IF j.kind = "Apply" THEN Answer(w, j, "Superseded", Empty)
               ELSE panel' = [panel EXCEPT ![w].jobs = @ \ {j}]
         \/ /\ Current(w, j.gen) /\ j.kind = "Load" /\ Active(journal)
            /\ Answer(w, j, "Load", Offered(journal)) /\ UNCHANGED hand
         \/ /\ Current(w, j.gen) /\ ~(j.kind = "Load" /\ Active(journal))
            /\ panel' = [panel EXCEPT ![w].jobs = @ \ {j}]
            /\ hand' = Hold(w, j, FirstStep(j))
  BY DEF TakeLock
<1>3. CASE hand' = hand /\
           \/ /\ ~Current(w, j.gen)
              /\ IF j.kind = "Apply" THEN Answer(w, j, "Superseded", Empty)
                 ELSE panel' = [panel EXCEPT ![w].jobs = @ \ {j}]
           \/ Current(w, j.gen) /\ j.kind = "Load" /\ Answer(w, j, "Load", Offered(journal))
  BY <1>1, <1>3, TakeLockEnds
<1>4. CASE /\ Current(w, j.gen) /\ ~(j.kind = "Load" /\ Active(journal))
           /\ panel' = [panel EXCEPT ![w].jobs = @ \ {j}]
           /\ hand' = Hold(w, j, FirstStep(j))
  <2>1. j \in WorkItem /\ PanelDurable(panel[w]) /\ InOrderEach(journal.entry)
    BY Owner DEF Panel, DurableInv, RunsInOrder
  <2>2. /\ FirstStep(j) \in {"Next", "Manifest", "Mark"}
        /\ FirstStep(j) = "Next" <=> j.kind = "Apply"
    BY <2>1 DEF FirstStep, WorkItem
  <2>3. HeldStays /\ (HoldsSome' <=> HoldsSome)
    BY <1>1, SameHeld
  <2>4. HoldsSome => Active(journal)
    BY OfferedDurable
  <2>5. ASSUME HoldsSome, j.kind = "Save"
        PROVE  FirstStep(j) = "Manifest"
    <3>1. j.backup = panel[w].backup /\ Journaled(panel[w].backup)
      BY <1>4, <2>1, <2>5 DEF PanelDurable, CurrentWork, PanelCovers, Current
    <3>2. Keys(j.backup) \subseteq Keys(journal.entry) /\ ~journal.marker
      BY <2>4, <2>5, <3>1 DEF Journaled, Active
    <3> QED BY <2>5, <3>2 DEF FirstStep, CanShrink
  <2> HIDE DEF FirstStep
  <2> QED BY <1>1, <1>4, <2>1, <2>2, <2>3, <2>4, <2>5, TakeLockHolds
<1> QED BY <1>2, <1>3, <1>4

\* A worker that takes the lock misreads the journal: what the journal held is
\* forfeited, unless only its marker was not seen.
LEMMA MisreadDurable ==
    ASSUME OneWindow, DurableInv, SoundInv', NEW w \in Window, Misread(w)
    PROVE  DurableInv'
<1>1. hand = IdleHand /\ UNCHANGED content /\ Fails
  BY DEF Misread
<1>2. PICK j \in panel[w].jobs :
         /\ Current(w, j.gen)
         /\ \/ /\ j.kind \in {"Load", "Save"}
               /\ \/ journal' = journal
                  \/ \E m \in Members(journal) : journal' = Without(journal, m)
               /\ forfeited' = forfeited \cup JournalRuns
               /\ hand' = Hold(w, j, "Mark")
               /\ panel' = [panel EXCEPT ![w].jobs = @ \ {j}]
            \/ /\ j.kind = "Load"
               /\ Answer(w, j, "Load", Offered(journal))
               /\ UNCHANGED <<journal, hand, forfeited>>
            \/ /\ j.kind = "Save"
               /\ panel' = [panel EXCEPT ![w].jobs = @ \ {j}]
               /\ hand' = Hold(w, j, "Manifest")
               /\ journal' \in {journal, Unmarked} /\ UNCHANGED forfeited
  BY DEF Misread
<1>3. /\ j \in WorkItem /\ InOrderEach(journal.entry) /\ UndoDurable
      /\ journal \in Journal /\ OneRunEach(journal.entry) /\ spent \in Spent
  BY Owner DEF Panel, DurableInv, RunsInOrder, SoundInv, ReplaceTypeOK, EntriesOneRun
<1>4. spent'.runs = spent.runs
  BY <1>1, <1>3, FailsSpends
<1>5. CASE /\ j.kind \in {"Load", "Save"}
           /\ \/ journal' = journal
              \/ \E m \in Members(journal) : journal' = Without(journal, m)
           /\ forfeited' = forfeited \cup JournalRuns
           /\ hand' = Hold(w, j, "Mark")
           /\ panel' = [panel EXCEPT ![w].jobs = @ \ {j}]
  <2>1. HeldStays /\ ~HoldsSome'
    BY <1>1, <1>3, <1>4, <1>5, Forfeits
  <2>2. \A f \in File : journal'.entry[f] \in {NoEntry, journal.entry[f]}
    BY <1>3, <1>5, WithoutSound
  <2>3. InOrderEach(journal'.entry)
    BY <1>3, <2>2, Zenon DEF InOrderEach
  <2> QED BY <1>1, <1>2, <1>3, <1>4, <1>5, <2>1, <2>3, TakeLockHolds
<1>6. CASE /\ j.kind = "Load" /\ Answer(w, j, "Load", Offered(journal))
           /\ UNCHANGED <<journal, hand, forfeited>>
  BY <1>1, <1>2, <1>4, <1>6, TakeLockEnds
<1>7. CASE /\ j.kind = "Save" /\ panel' = [panel EXCEPT ![w].jobs = @ \ {j}]
           /\ hand' = Hold(w, j, "Manifest") /\ journal' \in {journal, Unmarked}
           /\ UNCHANGED forfeited
  <2>1. HeldStays /\ (HoldsSome' <=> HoldsSome)
    BY <1>1, <1>4, <1>7, SameHeld
  <2>2. HoldsSome => journal' = journal
    BY <1>3, <1>7, OfferedDurable DEF Active, Unmarked, Journal
  <2>3. InOrderEach(journal'.entry)
    BY <1>3, <1>7 DEF Unmarked, Journal
  <2> QED BY <1>1, <1>2, <1>3, <1>4, <1>7, <2>1, <2>2, <2>3, TakeLockHolds
<1> QED BY <1>2, <1>5, <1>6, <1>7

-----------------------------------------------------------------------------
(* The durable invariant under the lock. *)

\* A run that journals what it writes leaves an active journal of it.
LEMMA RunJournals ==
    ASSUME ApplyJournals', hand'.kind = "Apply"
    PROVE  UndoDurable'
<1>1. ASSUME NEW f \in File, HoldsLatest(f)'
      PROVE  /\ Active(journal)' /\ Offered(journal)'[f] # NoEntry
             /\ Offered(journal)'[f].new = content'[f]
  <2>1. hand'.done[f] # NoEntry /\ hand'.done[f].new = content'[f]
    BY <1>1 DEF ApplyJournals, Covers
  <2>2. /\ journal'.entry[f] = hand'.done[f]
        /\ ~journal'.marker /\ journal'.manifest = Incremental
    BY <2>1 DEF ApplyJournals
  <2>3. Active(journal)'
    BY <2>1, <2>2 DEF Active, Keys
  <2>4. Offered(journal)'[f] = journal'.entry[f]
    BY <2>2 DEF Offered
  <2> QED BY <2>1, <2>2, <2>3, <2>4
<1> QED BY <1>1 DEF UndoDurable

\* A run goes on.
LEMMA RunStep ==
    ASSUME DurableInv, SoundInv', hand.kind = "Apply", hand'.kind = "Apply",
           hand'.gen = hand.gen, panel' = panel, spent'.runs = spent.runs, ApplyJournals',
           \A f \in File : content'[f].runs # <<>> => Last(content'[f].runs) <= spent.runs,
           InOrderEach(journal'.entry), InOrderEach(hand'.done)
    PROVE  DurableInv'
<1>1. RunsInOrder'
  <2>1. \A w \in Window : PanelInOrder(panel[w])'
    BY OrderStays DEF DurableInv, RunsInOrder
  <2>2. InOrderEach(journal.entry)' /\ InOrderEach(hand.done)'
    BY DEF InOrderEach, InOrder
  <2> QED BY <2>1, <2>2 DEF RunsInOrder
<1>2. UndoDurable'
  BY RunJournals
<1>3. OthersSpare'
  BY DEF OthersSpare
<1>4. \A w \in Window : PanelDurable(panel[w])'
  <2>1. ASSUME NEW w \in Window
        PROVE  PanelDurable(panel[w])'
    <3>1. PICK o \in Panel : o = panel[w]
      BY Owner
    <3>2. PanelDurable(o)
      BY <3>1, Owner
    <3>3. PanelDurable(o)'
      BY <3>2, PanelUnderRun
    <3> QED BY <3>1, <3>3
  <2> QED BY <2>1
<1> QED BY <1>1, <1>2, <1>3, <1>4 DEF DurableInv

\* Other work goes on, while the journal keeps what it wants.
LEMMA OtherStep ==
    ASSUME DurableInv, SoundInv', hand.kind # "Apply", hand'.kind = hand.kind,
           hand'.gen = hand.gen, hand'.done = hand.done,
           UNCHANGED <<content, panel>>, spent'.runs = spent.runs, HeldStays,
           InOrderEach(journal'.entry),
           HoldsSome' => UndoDurable' /\ OthersSpare',
           HoldsSome' => \A w \in Window : Keys(panel[w].backup) \subseteq Keys(journal'.entry),
           hand.kind # "None"
    PROVE  DurableInv'
<1>1. HeldStays /\ (HoldsSome' => HoldsSome)
  BY HeldStaysSome
<1>2. RunsInOrder'
  <2>1. \A w \in Window : PanelInOrder(panel[w])'
    BY OrderStays DEF DurableInv, RunsInOrder
  <2>2. InOrderEach(journal.entry)'
    BY DEF InOrderEach, InOrder
  <2>3. InOrderEach(hand.done)'
    BY OrderStays DEF DurableInv, RunsInOrder
  <2> QED BY <2>1, <2>2, <2>3 DEF DurableInv, RunsInOrder
<1>3. UndoDurable'
  BY <1>1 DEF UndoDurable, HoldsSome
<1>4. ApplyJournals'
  BY DEF ApplyJournals
<1>5. OthersSpare'
  BY <1>1 DEF OthersSpare
<1>6. \A w \in Window : PanelDurable(panel[w])'
  <2>1. ASSUME NEW w \in Window
        PROVE  PanelDurable(panel[w])'
    <3>1. PICK o \in Panel : o = panel[w]
      BY Owner
    <3>2. PanelDurable(o)
      BY <3>1, Owner
    <3>3. \A b : Covers(b) => Covers(b)'
      BY <1>1, CoversStays
    <3>4. Journaled(o.backup)'
      BY <1>1, <3>1 DEF Journaled, Keys
    <3>5. RunTicket(o)'
      BY <1>1, <3>2 DEF PanelDurable, RunTicket, HeldStays
    <3>6. CurrentWork(o)'
      <4>1. \A a \in o.answers : a.gen = o.gen /\ a.kind = "Load" => Journaled(a.backup)'
        <5>1. hand.kind = "Load" => ~HoldsSome'
          BY <1>1 DEF DurableInv, OthersSpare
        <5> QED BY <3>2, <5>1 DEF PanelDurable, CurrentWork, Journaled
      <4> QED BY <1>1, <3>2, <3>3, <4>1 DEF PanelDurable, CurrentWork
    <3>7. PanelCovers(o)'
      <4>1. \A f \in File : HoldsLatest(f)' => HoldsLatest(f) /\ content'[f] = content[f]
        BY <1>1 DEF HeldStays
      <4> QED BY <3>2, <3>3, <3>4, <4>1 DEF PanelDurable, PanelCovers
    <3> QED BY <3>1, <3>5, <3>6, <3>7 DEF PanelDurable
  <2> QED BY <2>1
<1> QED BY <1>2, <1>3, <1>4, <1>5, <1>6 DEF DurableInv

\* The journal is only cleared while there is nothing to undo.
LEMMA ClearsUnheld ==
    ASSUME DurableInv
    PROVE  /\ hand.step \in {"Mark", "Unlink"} => ~HoldsSome
           /\ hand.step = "Entry" /\ hand.kind # "Apply" => ~HoldsSome
<1>1. ASSUME hand.step \in {"Mark", "Unlink", "Entry"}, hand.kind # "Apply", HoldsSome
      PROVE  FALSE
  <2>1. hand.kind \in {"Save", "Delete", "Load"}
    BY <1>1, Working DEF DurableInv
  <2> QED BY <1>1, <2>1 DEF DurableInv, OthersSpare
<1>2. ASSUME hand.step \in {"Mark", "Unlink"}, hand.kind = "Apply"
      PROVE  ~HoldsSome
  BY <1>2, EmptyBackup DEF DurableInv, ApplyJournals, Covers, HoldsSome
<1> QED BY <1>1, <1>2

\* A run clears the journal before its first file, or at its end.
LEMMA RunClears ==
    ASSUME DurableInv, hand.kind = "Apply", hand.step \in {"Mark", "Unlink"},
           content' = content, spent'.runs = spent.runs, forfeited' = forfeited,
           \/ hand' \in {hand, ToStep("Unlink"), GiveUp}
           \/ hand' = Cleared /\ ~journal'.marker
    PROVE  ApplyJournals'
<1>1. /\ hand \in Hand /\ SoundInv /\ hand.kind # "None" /\ ~HoldsSome
      /\ \A f \in hand.todo \cup {hand.file} : f \in File => ~WroteLast(f)
      /\ hand.done = Empty /\ (hand.file # NoFile => ~hand.prepared) /\ hand.run = spent.runs
      /\ hand.file \notin hand.todo /\ (~hand.prepared => ~hand.armed)
  BY ClearsUnheld DEF DurableInv, SoundInv, ReplaceTypeOK, ApplyJournals
<1>2. /\ HeldStays /\ ~HoldsSome' /\ \A f \in File : ~HoldsLatest(f)'
      /\ \A f \in hand.todo \cup {hand.file} : f \in File => ~WroteLast(f)'
  BY <1>1, SameHeld DEF HoldsSome, HeldStays
<1>3. /\ hand'.done = hand.done /\ hand'.todo = hand.todo /\ hand'.run = hand.run
      /\ hand'.armed = hand.armed
      /\ \/ hand'.step \in {"Mark", "Unlink"} /\ hand'.file = hand.file
            /\ hand'.prepared = hand.prepared
         \/ hand'.step = "Next" /\ hand'.file = NoFile /\ hand'.prepared = hand.prepared
            /\ hand.file # NoFile
         \/ hand'.step = "End" /\ hand'.file = hand.file /\ hand'.prepared = hand.prepared
         \/ hand'.step = "Entry" /\ hand'.file = hand.file /\ hand'.prepared
            /\ ~journal'.marker /\ hand.file # NoFile
  <2>1. CASE hand' \in {hand, ToStep("Unlink")}
    BY <1>1, <2>1, HandGoesOn
  <2>2. CASE hand' = GiveUp
    BY <1>1, <2>2, HandGoesOn DEF GiveUp
  <2>3. CASE hand' = Cleared /\ ~journal'.marker /\ hand.file # NoFile
    BY <1>1, <2>3 DEF Cleared, Hand
  <2>4. CASE hand' = Cleared /\ hand.file = NoFile
    BY <1>1, <2>4, HandGoesOn DEF Cleared
  <2> QED BY <2>1, <2>2, <2>3, <2>4
<1>4. NoFile \notin hand.todo /\ NoFile \notin File
  BY <1>1, SentinelAssumption DEF Hand
<1>5. Covers(hand.done)'
  BY <1>2 DEF Covers
<1> QED BY <1>1, <1>2, <1>3, <1>4, <1>5, EmptyBackup DEF ApplyJournals

LEMMA UnderLock ==
    ASSUME DurableInv, hand.step # "None"
    PROVE  /\ SoundInv /\ hand \in Hand /\ PlacedRight(hand) /\ hand.kind # "None"
           /\ hand.kind \in {"Apply", "Save", "Delete", "Load"} /\ hand.win \in Window
           /\ journal \in Journal /\ journal.entry \in Backup /\ hand.done \in Backup
           /\ spent \in Spent /\ spent.runs \in Nat /\ content \in [File -> Content]
           /\ InOrderEach(journal.entry) /\ InOrderEach(hand.done)
           /\ ApplyJournals /\ OthersSpare /\ UndoDurable
           /\ \A f \in File : content[f].runs # <<>> => Last(content[f].runs) <= spent.runs
BY Working, BoundsAssumption DEF DurableInv, RunsInOrder, Journal, Spent

\* Steps that clear the journal.
LEMMA ClearingDurable ==
    ASSUME DurableInv, SoundInv', hand.step \in {"Mark", "Unlink"},
           UNCHANGED <<content, panel, forfeited>>, spent'.runs = spent.runs,
           \A f \in File : journal'.entry[f] \in {NoEntry, journal.entry[f]},
           \/ hand' \in {hand, ToStep("Unlink"), GiveUp}
           \/ hand' = Cleared /\ ~journal'.marker
    PROVE  DurableInv'
<1>1. /\ SoundInv /\ hand \in Hand /\ hand.kind # "None" /\ ~HoldsSome
      /\ InOrderEach(journal.entry) /\ InOrderEach(hand.done)
      /\ \A f \in File : content[f].runs # <<>> => Last(content[f].runs) <= spent.runs
  BY UnderLock, ClearsUnheld
<1>2. InOrderEach(journal'.entry)
  BY <1>1, Zenon DEF InOrderEach
<1>3. hand'.kind = hand.kind /\ hand'.gen = hand.gen /\ hand'.done = hand.done
  <2>1. CASE hand' \in {hand, ToStep("Unlink"), GiveUp}
    BY <1>1, <2>1, HandGoesOn DEF GiveUp
  <2>2. CASE hand' = Cleared
    BY <1>1, <2>2, HandGoesOn DEF Cleared, Hand
  <2> QED BY <2>1, <2>2
<1>4. CASE hand.kind = "Apply"
  <2>1. ApplyJournals'
    BY <1>4, RunClears
  <2> QED BY <1>1, <1>2, <1>3, <1>4, <2>1, RunStep
<1>5. CASE hand.kind # "Apply"
  BY <1>1, <1>2, <1>3, <1>5, SameHeld, OtherStep
<1> QED BY <1>4, <1>5

LEMMA MarkDurable ==
    ASSUME DurableInv, SoundInv', Mark
    PROVE  DurableInv'
<1>1. /\ hand.step = "Mark" /\ UNCHANGED <<content, panel, forfeited>>
      /\ journal' = journal \/ \E b \in BOOLEAN : journal' = [journal EXCEPT !.marker = b]
      /\ \/ hand' \in {ToStep("Unlink"), GiveUp, hand}
         \/ hand' = Cleared /\ journal' = journal /\ Members(journal) = {}
      /\ spent' = spent \/ Fails
  BY DEF Mark, Step, Unmarked
<1>2. journal \in Journal /\ spent \in Spent
  BY <1>1, UnderLock
<1>3. spent'.runs = spent.runs
  BY <1>1, <1>2, FailsSpends
<1>4. \A f \in File : journal'.entry[f] \in {NoEntry, journal.entry[f]}
  BY <1>1, <1>2 DEF Journal
<1>5. Members(journal) = {} => ~journal.marker
  BY DEF Members
<1> QED BY <1>1, <1>3, <1>4, <1>5, ClearingDurable

LEMMA UnlinkDurable ==
    ASSUME DurableInv, SoundInv', Unlink
    PROVE  DurableInv'
<1>1. /\ hand.step = "Unlink" /\ UNCHANGED <<content, panel, forfeited>>
      /\ \/ journal' = journal
         \/ \E m \in Members(journal) : journal' = Without(journal, m)
      /\ \/ hand' \in {hand, GiveUp}
         \/ hand' = Cleared /\ Members(journal') = {}
      /\ spent' = spent \/ Fails
  BY DEF Unlink, Step
<1>2. journal \in Journal /\ spent \in Spent /\ OneRunEach(journal.entry)
  BY <1>1, UnderLock, Working
<1>3. spent'.runs = spent.runs
  BY <1>1, <1>2, FailsSpends
<1>4. \A f \in File : journal'.entry[f] \in {NoEntry, journal.entry[f]}
  BY <1>1, <1>2, WithoutSound
<1>5. Members(journal') = {} => ~journal'.marker
  BY DEF Members
<1> QED BY <1>1, <1>3, <1>4, <1>5, ClearingDurable

LEMMA NextFilesDurable ==
    ASSUME DurableInv, SoundInv', TakeFile \/ SkipFile \/ EndRun
    PROVE  DurableInv'
<1>1. hand.step = "Next" /\ UNCHANGED <<content, journal, panel, forfeited, spent>>
  BY DEF TakeFile, SkipFile, EndRun, Step
<1>2. /\ SoundInv /\ hand.kind = "Apply" /\ hand \in Hand /\ hand.file = NoFile
      /\ ApplyJournals /\ InOrderEach(journal.entry) /\ InOrderEach(hand.done)
      /\ \A f \in File : content[f].runs # <<>> => Last(content[f].runs) <= spent.runs
  BY <1>1, UnderLock DEF PlacedRight
<1>3. HeldStays /\ \A f \in File : WroteLast(f)' <=> WroteLast(f)
  BY <1>1, SameHeld DEF WroteLast
<1>4. Covers(hand.done)
  BY <1>2 DEF ApplyJournals
<1>5. ASSUME hand'.done = hand.done
      PROVE  Covers(hand.done)'
  BY <1>3, <1>4, <1>5, CoversStays
<1>6. NoFile \notin hand.todo /\ \A s : s \subseteq hand.todo => NoFile \notin s
  BY <1>2, SentinelAssumption DEF Hand
<1>7. CASE TakeFile
  <2>1. PICK f \in hand.todo :
           hand' = [hand EXCEPT !.todo = @ \ {f}, !.file = f,
                                !.step = IF hand.prepared THEN "Entry" ELSE "Mark"]
    BY <1>7 DEF TakeFile
  <2>2. /\ hand'.todo = hand.todo \ {f} /\ hand'.file = f /\ hand'.run = hand.run
        /\ hand'.step = (IF hand.prepared THEN "Entry" ELSE "Mark")
        /\ hand'.done = hand.done /\ hand'.prepared = hand.prepared
        /\ hand'.armed = hand.armed /\ hand'.kind = hand.kind /\ hand'.gen = hand.gen
    BY <1>2, <2>1 DEF Hand
  <2>3. Covers(hand.done)'
    BY <1>5, <2>2
  <2>4. ApplyJournals'
    BY <1>1, <1>2, <1>3, <2>2, <2>3 DEF ApplyJournals
  <2> QED BY <1>1, <1>2, <2>2, <2>4, RunStep
<1>8. CASE SkipFile
  <2>1. PICK f \in hand.todo : hand' = [hand EXCEPT !.todo = @ \ {f}]
    BY <1>8 DEF SkipFile
  <2>2. /\ hand'.todo = hand.todo \ {f} /\ hand'.file = hand.file /\ hand'.run = hand.run
        /\ hand'.step = hand.step
        /\ hand'.done = hand.done /\ hand'.prepared = hand.prepared
        /\ hand'.armed = hand.armed /\ hand'.kind = hand.kind /\ hand'.gen = hand.gen
    BY <1>2, <2>1 DEF Hand
  <2>3. Covers(hand.done)'
    BY <1>5, <2>2
  <2>4. ApplyJournals'
    BY <1>1, <1>2, <1>3, <2>2, <2>3 DEF ApplyJournals
  <2> QED BY <1>1, <1>2, <2>2, <2>4, RunStep
<1>9. CASE EndRun
  <2>1. \/ hand' = ToStep("End")
        \/ hand' = ToStep("Mark") /\ hand.done = Empty
    BY <1>9 DEF EndRun
  <2>2. /\ hand'.todo = hand.todo /\ hand'.file = hand.file /\ hand'.run = hand.run
        /\ hand'.step = "End" \/ (hand'.step = "Mark" /\ hand.done = Empty)
        /\ hand'.done = hand.done /\ hand'.prepared = hand.prepared
        /\ hand'.armed = hand.armed /\ hand'.kind = hand.kind /\ hand'.gen = hand.gen
    BY <1>2, <2>1, HandGoesOn
  <2>3. Covers(hand.done)'
    BY <1>5, <2>2
  <2>4. ApplyJournals'
    BY <1>1, <1>2, <1>3, <2>2, <2>3 DEF ApplyJournals
  <2> QED BY <1>1, <1>2, <2>2, <2>4, RunStep
<1> QED BY <1>7, <1>8, <1>9

\* The entry a run saves says that the run is the last of its file.
LEMMA RunEntryInOrder ==
    ASSUME DurableInv, hand.kind = "Apply", hand.file \in File, hand.step # "None"
    PROVE  /\ InOrder(RunEntry(hand.file)) /\ RunEntry(hand.file) # NoEntry
           /\ hand.run \in 1 .. MaxRuns /\ hand.run = spent.runs
           /\ ~WroteLast(hand.file) /\ hand.done[hand.file] = NoEntry
           /\ Last(Replaced(hand.file).runs) = spent.runs
           /\ Replaced(hand.file).runs # <<>>
           /\ RunEntry(hand.file).new = Replaced(hand.file)
<1> DEFINE f == hand.file
<1>1. /\ content \in [File -> Content] /\ hand.run \in 1 .. MaxRuns /\ hand.run = spent.runs
      /\ ~WroteLast(f) /\ hand.done[f] = NoEntry
      /\ content[f].runs # <<>> => Last(content[f].runs) <= spent.runs
  BY UnderLock, BoundsAssumption DEF Hand, PlacedRight, ApplyJournals
<1>2. /\ Last(Replaced(f).runs) = hand.run /\ RunEntry(f).old = content[f]
      /\ RunEntry(f).new = Replaced(f) /\ RunEntry(f) # NoEntry /\ Replaced(f).runs # <<>>
  BY <1>1, RunEntrySound
<1>3. content[f].runs # <<>> => Last(content[f].runs) < spent.runs
  <2>1. content[f].runs # <<>> => Last(content[f].runs) \in Nat
    BY <1>1, LastRun, BoundsAssumption
  <2>2. content[f].runs # <<>> => Last(content[f].runs) # spent.runs
    BY <1>1 DEF WroteLast
  <2> QED BY <1>1, <2>1, <2>2, BoundsAssumption
<1>4. InOrder(RunEntry(f))
  BY <1>1, <1>2, <1>3, BoundsAssumption DEF InOrder
<1> QED BY <1>1, <1>2, <1>4

\* The entry of the run's file goes, or stays; nothing else of the journal does.
LEMMA CleanedParts ==
    ASSUME NEW j \in Journal, hand.file \in File, NEW c \in Cleaned(j)
    PROVE  /\ c.marker = j.marker /\ c.manifest = j.manifest
           /\ \A g \in File : /\ c.entry[g] \in {NoEntry, j.entry[g]}
                              /\ g # hand.file => c.entry[g] = j.entry[g]
<1>1. CASE c = j
  BY <1>1
<1>2. CASE c = Without(j, hand.file)
  <2>1. hand.file # "marker" /\ hand.file # "manifest"
    BY SentinelAssumption
  <2>2. c = [j EXCEPT !.entry[hand.file] = NoEntry]
    BY <1>2, <2>1 DEF Without
  <2> QED BY <2>2 DEF Journal, Backup
<1> QED BY <1>1, <1>2 DEF Cleaned

LEMMA SaveEntryDurable ==
    ASSUME DurableInv, SoundInv', SaveEntry
    PROVE  DurableInv'
<1>1. hand.step = "Entry" /\ UNCHANGED <<content, panel, forfeited>>
  BY DEF SaveEntry, Step
<1>2. /\ SoundInv /\ hand \in Hand /\ PlacedRight(hand) /\ hand.kind # "None"
      /\ journal \in Journal /\ journal.entry \in Backup /\ spent \in Spent
      /\ ApplyJournals /\ InOrderEach(journal.entry) /\ InOrderEach(hand.done)
      /\ hand.done \in Backup
      /\ \A f \in File : content[f].runs # <<>> => Last(content[f].runs) <= spent.runs
  BY <1>1, UnderLock
<1>3. PICK f \in (IF hand.kind = "Apply" THEN {hand.file} ELSE hand.todo) :
          LET entry == IF hand.kind = "Apply" THEN RunEntry(f) ELSE hand.done[f]
              saved == [journal EXCEPT !.entry[f] = entry]
          IN  \/ /\ journal' = saved
                 /\ hand' = AfterEntry(f) /\ UNCHANGED spent
              \/ /\ Fails /\ journal' \in {journal, saved}
                 /\ hand' = GiveUp
  BY DEF SaveEntry
<1>4. spent'.runs = spent.runs
  BY <1>2, <1>3, FailsSpends
<1>5. CASE hand.kind = "Apply"
  <2>1. f = hand.file /\ f \in File /\ f # NoFile
    BY <1>1, <1>2, <1>3, <1>5, SentinelAssumption DEF PlacedRight
  <2>2. /\ InOrder(RunEntry(f)) /\ RunEntry(f) # NoEntry /\ hand.done[f] = NoEntry
        /\ ~WroteLast(f)
    BY <1>1, <1>5, <2>1, RunEntryInOrder
  <2> DEFINE saved == [journal EXCEPT !.entry[f] = RunEntry(f)]
  <2>3. /\ saved.marker = journal.marker /\ saved.manifest = journal.manifest
        /\ saved.entry[f] = RunEntry(f)
        /\ \A g \in File : g # f => saved.entry[g] = journal.entry[g]
    BY <1>2, <2>1 DEF Journal, Backup
  <2>4. \/ /\ journal' = saved
           /\ hand' = ToStep(IF hand.armed THEN "Write" ELSE "Manifest")
        \/ journal' \in {journal, saved} /\ hand' = NextFile
    BY <1>3, <1>5, <2>1 DEF AfterEntry, GiveUp
  <2> HIDE DEF saved
  <2>5. /\ journal'.marker = journal.marker /\ journal'.manifest = journal.manifest
        /\ journal'.entry[f] \in {RunEntry(f), journal.entry[f]}
        /\ \A g \in File : g # f => journal'.entry[g] = journal.entry[g]
    BY <2>3, <2>4
  <2>6. InOrderEach(journal'.entry)
    BY <1>2, <2>2, <2>5 DEF InOrderEach
  <2>7. /\ hand'.kind = hand.kind /\ hand'.gen = hand.gen /\ hand'.run = hand.run
        /\ hand'.done = hand.done /\ hand'.todo = hand.todo /\ hand'.armed = hand.armed
        /\ hand'.prepared = hand.prepared
        /\ \/ hand'.step = "Write" /\ hand'.file = f /\ hand.armed /\ journal' = saved
           \/ hand'.step = "Manifest" /\ hand'.file = f /\ ~hand.armed /\ journal' = saved
           \/ hand'.step = "Next" /\ hand'.file = NoFile
    BY <1>2, <2>1, <2>4, HandGoesOn
  <2>8. HeldStays /\ \A g \in File : WroteLast(g)' <=> WroteLast(g)
    BY <1>1, <1>4, SameHeld DEF WroteLast
  <2>9. Covers(hand.done)'
    BY <1>2, <1>5, <2>7, <2>8, CoversStays DEF ApplyJournals
  <2>10. NoFile \notin hand.todo
    BY <1>2, SentinelAssumption DEF Hand
  <2>11. hand'.step \in {"Manifest", "Write"} =>
            journal'.entry[hand'.file] = RunEntry(hand.file)'
    <3>1. hand'.step \in {"Manifest", "Write"} =>
             hand'.file = f /\ journal'.entry[hand'.file] = RunEntry(f)
      BY <2>3, <2>7
    <3>2. hand'.file = f => RunEntry(hand.file)' = RunEntry(f)
      BY <1>1, <2>7 DEF RunEntry, Replaced
    <3> QED BY <3>1, <3>2
  <2>12. \A g \in File : hand'.done[g] # NoEntry =>
              /\ journal'.entry[g] = hand'.done[g]
              /\ ~journal'.marker /\ journal'.manifest = Incremental
    BY <1>2, <1>5, <2>2, <2>5, <2>7 DEF ApplyJournals
  <2>13. /\ hand'.run = spent'.runs /\ hand'.prepared /\ ~journal'.marker
         /\ hand'.armed => journal'.manifest = Incremental
         /\ hand'.file \notin hand'.todo
         /\ hand'.step \notin {"Mark", "Unlink"} /\ (hand'.step = "Write" => hand'.armed)
         /\ (~hand'.armed => hand'.done = Empty) /\ (hand'.step = "Manifest" => ~hand'.armed)
    BY <1>1, <1>2, <1>4, <1>5, <2>1, <2>5, <2>7, <2>10 DEF ApplyJournals
  <2>14. \A g \in hand'.todo \cup {hand'.file} : g \in File =>
              ~WroteLast(g)' /\ hand'.done[g] = NoEntry
    BY <1>2, <1>5, <2>1, <2>2, <2>7, <2>8, SentinelAssumption DEF ApplyJournals
  <2>15. ApplyJournals'
    BY <2>9, <2>11, <2>12, <2>13, <2>14 DEF ApplyJournals
  <2> QED BY <1>1, <1>2, <1>4, <1>5, <2>6, <2>7, <2>15, RunStep
<1>6. CASE hand.kind # "Apply"
  <2>1. ~HoldsSome
    BY <1>1, <1>6, ClearsUnheld
  <2>2. f \in File
    BY <1>2, <1>3, <1>6 DEF Hand
  <2> DEFINE saved == [journal EXCEPT !.entry[f] = hand.done[f]]
  <2>3. journal' \in {journal, saved} /\ hand' \in {AfterEntry(f), GiveUp}
    BY <1>3, <1>6
  <2>4. InOrderEach(saved.entry)
    BY <1>2, <2>2 DEF InOrderEach, Journal, Backup
  <2> HIDE DEF saved
  <2>5. InOrderEach(journal'.entry)
    BY <1>2, <2>3, <2>4
  <2>6. hand'.kind = hand.kind /\ hand'.gen = hand.gen /\ hand'.done = hand.done
    <3>1. CASE hand' = AfterEntry(f)
      BY <1>2, <1>6, <3>1 DEF AfterEntry, Hand
    <3>2. CASE hand' = GiveUp
      BY <1>2, <3>2, HandGoesOn DEF GiveUp
    <3> QED BY <2>3, <3>1, <3>2
  <2>7. HeldStays /\ ~HoldsSome'
    BY <1>1, <1>4, <2>1, SameHeld
  <2> QED BY <1>1, <1>2, <1>4, <1>6, <2>1, <2>5, <2>6, <2>7, OtherStep
<1> QED BY <1>5, <1>6

\* A run arms the journal, and writes its file, or leaves that file.
LEMMA RunArms ==
    ASSUME DurableInv, SoundInv', hand.kind = "Apply", hand.step = "Manifest",
           NEW saved, saved = [journal EXCEPT !.marker = FALSE, !.manifest = Incremental],
           NEW armed, armed = [hand EXCEPT !.armed = TRUE, !.step = "Write"],
           UNCHANGED <<content, panel, forfeited>>, spent' = spent \/ Fails,
           \/ journal' = saved /\ hand' = armed
           \/ journal' \in Cleaned(journal) \cup Cleaned(saved) /\ hand' = GiveUp
    PROVE  DurableInv'
<1>1. /\ hand.step = "Manifest" /\ UNCHANGED <<content, panel, forfeited>>
      /\ \/ journal' = saved /\ hand' = armed
         \/ journal' \in Cleaned(journal) \cup Cleaned(saved) /\ hand' = GiveUp
      /\ spent' = spent \/ Fails
  OBVIOUS
<1>2. /\ SoundInv /\ hand \in Hand /\ PlacedRight(hand) /\ hand.kind # "None"
      /\ journal \in Journal /\ journal.entry \in Backup /\ spent \in Spent
      /\ ApplyJournals /\ InOrderEach(journal.entry) /\ InOrderEach(hand.done)
      /\ \A f \in File : content[f].runs # <<>> => Last(content[f].runs) <= spent.runs
  BY <1>1, UnderLock
<1>3. spent'.runs = spent.runs
  BY <1>1, <1>2, FailsSpends
<1>4. /\ hand.file \in File /\ hand.file # NoFile /\ hand.done[hand.file] = NoEntry
      /\ NoFile \notin hand.todo
  BY <1>1, <1>2, SentinelAssumption DEF PlacedRight, ApplyJournals, Hand
<1>5. /\ ~journal.marker /\ hand.prepared
      /\ journal.entry[hand.file] = RunEntry(hand.file)
      /\ \A f \in File : hand.done[f] # NoEntry =>
            journal.entry[f] = hand.done[f] /\ journal.manifest = Incremental
  BY <1>1, <1>2 DEF ApplyJournals
<1>6. /\ saved \in Journal /\ saved.entry = journal.entry /\ ~saved.marker
      /\ saved.manifest = Incremental
  BY <1>2 DEF Journal
<1>7. /\ ~journal'.marker
      /\ journal'.manifest = Incremental \/ journal'.manifest = journal.manifest
      /\ \A g \in File : /\ journal'.entry[g] \in {NoEntry, journal.entry[g]}
                         /\ g # hand.file => journal'.entry[g] = journal.entry[g]
  <2>1. CASE journal' = saved
    BY <1>6, <2>1
  <2>2. CASE journal' \in Cleaned(journal)
    BY <1>2, <1>4, <1>5, <2>2, CleanedParts
  <2>3. CASE journal' \in Cleaned(saved)
    <3>1. /\ journal'.marker = saved.marker /\ journal'.manifest = saved.manifest
          /\ \A g \in File : /\ journal'.entry[g] \in {NoEntry, saved.entry[g]}
                             /\ g # hand.file => journal'.entry[g] = saved.entry[g]
      BY <1>4, <1>6, <2>3, CleanedParts
    <3> QED BY <1>6, <3>1
  <2> QED BY <1>1, <2>1, <2>2, <2>3
<1>8. InOrderEach(journal'.entry)
  BY <1>2, <1>7, Zenon DEF InOrderEach
<1>9. HeldStays /\ \A g \in File : WroteLast(g)' <=> WroteLast(g)
  BY <1>1, <1>3, SameHeld DEF WroteLast
<1>10. /\ hand'.kind = hand.kind /\ hand'.gen = hand.gen /\ hand'.run = hand.run
       /\ hand'.done = hand.done /\ hand'.todo = hand.todo /\ hand'.prepared
       /\ \/ /\ hand'.step = "Write" /\ hand'.file = hand.file /\ hand'.armed
             /\ journal' = saved
          \/ hand'.step = "Next" /\ hand'.file = NoFile /\ hand'.armed = hand.armed
  <2>1. CASE hand' = armed /\ journal' = saved
    BY <1>2, <1>5, <2>1 DEF Hand
  <2>2. CASE hand' = GiveUp
    BY <1>2, <1>4, <1>5, <2>2, HandGoesOn DEF GiveUp
  <2> QED BY <1>1, <2>1, <2>2
<1>11. Covers(hand.done)'
  BY <1>2, <1>9, <1>10, CoversStays DEF ApplyJournals
<1>12. hand'.step \in {"Manifest", "Write"} =>
          journal'.entry[hand'.file] = RunEntry(hand.file)'
  <2>1. hand'.step \in {"Manifest", "Write"} =>
           hand'.file = hand.file /\ journal'.entry[hand'.file] = RunEntry(hand.file)
    BY <1>5, <1>6, <1>10
  <2>2. hand'.file = hand.file => RunEntry(hand.file)' = RunEntry(hand.file)
    BY <1>1, <1>10 DEF RunEntry, Replaced
  <2> QED BY <2>1, <2>2
<1>13. \A g \in File : hand'.done[g] # NoEntry =>
            /\ journal'.entry[g] = hand'.done[g]
            /\ ~journal'.marker /\ journal'.manifest = Incremental
  BY <1>4, <1>5, <1>7, <1>10
<1>14. /\ hand'.run = spent'.runs /\ hand'.file \notin hand'.todo
       /\ hand'.armed => journal'.manifest = Incremental
       /\ hand'.step \notin {"Mark", "Unlink"} /\ (hand'.step = "Write" => hand'.armed)
       /\ (~hand'.armed => hand'.done = Empty) /\ (hand'.step = "Manifest" => ~hand'.armed)
  BY <1>1, <1>2, <1>3, <1>4, <1>6, <1>7, <1>10 DEF ApplyJournals
<1>15. \A g \in hand'.todo \cup {hand'.file} : g \in File =>
            ~WroteLast(g)' /\ hand'.done[g] = NoEntry
  BY <1>2, <1>9, <1>10, SentinelAssumption DEF ApplyJournals
<1>16. ApplyJournals'
  BY <1>7, <1>10, <1>11, <1>12, <1>13, <1>14, <1>15 DEF ApplyJournals
<1> QED BY <1>1, <1>2, <1>3, <1>8, <1>10, <1>16, RunStep

\* A manifest that cannot be read goes: a run that is not armed wrote no file,
\* and what a save still wanted is forfeited.
LEMMA ManifestLost ==
    ASSUME DurableInv, SoundInv', hand.step = "Manifest", hand' = hand, Fails,
           UNCHANGED <<content, panel>>,
           journal' = [Unmarked EXCEPT !.manifest = NoManifest],
           forfeited' = forfeited \cup (IF hand.kind = "Save" THEN JournalRuns ELSE {})
    PROVE  DurableInv'
<1>1. /\ SoundInv /\ hand \in Hand /\ PlacedRight(hand) /\ hand.kind # "None"
      /\ journal \in Journal /\ spent \in Spent /\ ApplyJournals /\ OthersSpare /\ UndoDurable
      /\ InOrderEach(journal.entry) /\ InOrderEach(hand.done)
      /\ hand.kind \in {"Apply", "Save", "Delete", "Load"}
      /\ \A f \in File : content[f].runs # <<>> => Last(content[f].runs) <= spent.runs
  BY UnderLock
<1>2. spent'.runs = spent.runs
  BY <1>1, FailsSpends
<1>3. journal'.entry = journal.entry /\ ~journal'.marker
  BY <1>1 DEF Journal, Unmarked
<1>4. CASE hand.kind = "Save"
  <2>1. HeldStays /\ ~HoldsSome'
    BY <1>1, <1>2, <1>4, Forfeits
  <2> QED BY <1>1, <1>2, <1>3, <1>4, <2>1, OtherStep
<1>5. CASE hand.kind # "Save"
  <2>1. forfeited' = forfeited
    BY <1>5
  <2>2. HeldStays /\ (HoldsSome' <=> HoldsSome)
    BY <1>2, <2>1, SameHeld
  <2>3. CASE hand.kind # "Apply"
    <3>1. ~HoldsSome'
      BY <1>1, <1>5, <2>2, <2>3 DEF OthersSpare
    <3> QED BY <1>1, <1>2, <1>3, <2>2, <2>3, <3>1, OtherStep
  <2>4. CASE hand.kind = "Apply"
    <3>1. ~hand.armed /\ hand.done = Empty
      BY <1>1, <2>4 DEF ApplyJournals
    <3>2. \A f \in hand.todo \cup {hand.file} : f \in File => ~WroteLast(f)'
      BY <1>1, <2>2, <2>4 DEF ApplyJournals, HeldStays
    <3>3. Covers(hand.done)'
      BY <1>1, <2>2, <2>4, CoversStays DEF ApplyJournals
    <3>4. RunEntry(hand.file)' = RunEntry(hand.file)
      BY DEF RunEntry, Replaced
    <3>5. ApplyJournals'
      BY <1>1, <1>2, <1>3, <2>4, <3>1, <3>2, <3>3, <3>4, EmptyBackup DEF ApplyJournals
    <3> QED BY <1>1, <1>2, <1>3, <2>4, <3>5, RunStep
  <2> QED BY <2>3, <2>4
<1> QED BY <1>4, <1>5

\* A backup that covers the latest run, as the manifest or under it.
LEMMA SavedDurable ==
    ASSUME NEW b \in Backup, Covers(b), HoldsSome, UndoDurable,
           content' = content, spent'.runs = spent.runs, forfeited' = forfeited,
           journal' \in Journal, Keys(b) \subseteq Keys(journal'.entry),
           \A f \in Keys(b) : journal'.entry[f] = journal.entry[f],
           ~journal'.marker /\ journal'.manifest = Keys(b)
    PROVE  UndoDurable'
<1>1. PICK g \in File : HoldsLatest(g)
  BY DEF HoldsSome
<1>2. g \in Keys(b)
  BY <1>1 DEF Covers, Keys
<1>3. Keys(b) \subseteq File
  BY DEF Keys
<1>4. Active(journal)'
  BY <1>2, <1>3, SentinelAssumption DEF Active, Keys
<1>5. ASSUME NEW f \in File, HoldsLatest(f)'
      PROVE  /\ Offered(journal)'[f] # NoEntry
             /\ Offered(journal)'[f].new = content'[f]
  <2>1. HoldsLatest(f) /\ f \in Keys(b)
    BY <1>5, SameHeld DEF HeldStays, Covers, Keys
  <2>2. Offered(journal)[f] # NoEntry /\ Offered(journal)[f].new = content[f]
    BY <2>1 DEF UndoDurable
  <2>3. Offered(journal)[f] = journal.entry[f]
    BY <2>2 DEF Offered
  <2>4. Offered(journal)'[f] = journal'.entry[f]
    BY <2>1 DEF Offered
  <2> QED BY <2>1, <2>2, <2>3, <2>4
<1> QED BY <1>4, <1>5 DEF UndoDurable

LEMMA SaveManifestDurable ==
    ASSUME DurableInv, SoundInv', SaveManifest
    PROVE  DurableInv'
<1> DEFINE manifest == IF hand.kind = "Apply" THEN Incremental ELSE Keys(hand.done)
           made == [journal EXCEPT !.marker = FALSE, !.manifest = manifest]
           armed == [hand EXCEPT !.armed = TRUE, !.step = "Write"]
           goes == /\ UNCHANGED forfeited /\ (spent' = spent \/ Fails)
                   /\ \/ /\ journal' = made
                         /\ hand' = IF hand.kind = "Apply" THEN armed ELSE ToStep("Prune")
                      \/ journal' \in Cleaned(journal) \cup Cleaned(made) /\ hand' = GiveUp
<1>0. /\ hand.step = "Manifest" /\ UNCHANGED <<content, panel>>
      /\ \/ /\ hand' = hand /\ Fails
            /\ journal' = [Unmarked EXCEPT !.manifest = NoManifest]
            /\ forfeited' = forfeited \cup (IF hand.kind = "Save" THEN JournalRuns ELSE {})
         \/ goes
  BY DEF SaveManifest, Step
<1>3. CASE /\ hand' = hand /\ Fails
           /\ journal' = [Unmarked EXCEPT !.manifest = NoManifest]
           /\ forfeited' = forfeited \cup (IF hand.kind = "Save" THEN JournalRuns ELSE {})
  BY <1>0, <1>3, ManifestLost
<1>1. CASE goes /\ hand.kind = "Apply"
  BY <1>0, <1>1, RunArms
<1>2. CASE goes /\ hand.kind # "Apply"
  <2> DEFINE saved == [journal EXCEPT !.marker = FALSE, !.manifest = Keys(hand.done)]
  <2>1. /\ hand.step = "Manifest" /\ UNCHANGED <<content, panel, forfeited>>
        /\ \/ journal' = saved /\ hand' = ToStep("Prune")
           \/ journal' \in Cleaned(journal) \cup Cleaned(saved) /\ hand' = GiveUp
        /\ spent' = spent \/ Fails
    BY <1>0, <1>2
  <2>2. /\ SoundInv /\ hand \in Hand /\ PlacedRight(hand) /\ hand.kind # "None"
        /\ journal \in Journal /\ journal.entry \in Backup /\ spent \in Spent
        /\ OthersSpare /\ UndoDurable /\ InOrderEach(journal.entry) /\ hand.done \in Backup
        /\ hand.kind \in {"Save", "Delete", "Load"}
    BY <1>2, <2>1, UnderLock
  <2>3. spent'.runs = spent.runs /\ hand.file = NoFile
    BY <1>2, <2>1, <2>2, FailsSpends DEF PlacedRight
  <2>4. /\ saved \in Journal /\ saved.entry = journal.entry /\ ~saved.marker
        /\ saved.manifest = Keys(hand.done)
    BY <2>2 DEF Journal, Keys
  <2> HIDE DEF saved
  <2>5. /\ journal' \in {journal, saved} /\ journal'.entry = journal.entry
        /\ \/ hand' = ToStep("Prune") /\ journal' = saved
           \/ hand' = ToStep("End")
    BY <2>1, <2>3, <2>4 DEF Cleaned, GiveUp
  <2>6. /\ hand'.kind = hand.kind /\ hand'.gen = hand.gen /\ hand'.done = hand.done
        /\ \/ hand'.step = "Prune" /\ journal' = saved
           \/ hand'.step = "End"
    BY <2>2, <2>5, HandGoesOn
  <2>7. ASSUME HoldsSome
        PROVE  /\ UndoDurable' /\ OthersSpare'
               /\ \A w \in Window : Keys(panel[w].backup) \subseteq Keys(journal'.entry)
    <3>1. /\ hand.kind = "Save" /\ Covers(hand.done)
          /\ Keys(hand.done) \subseteq Keys(journal.entry)
          /\ \A w \in Window : Keys(panel[w].backup) \subseteq Keys(hand.done)
      BY <2>2, <2>7 DEF OthersSpare
    <3>2. UndoDurable'
      <4>1. CASE journal' = journal
        BY <2>1, <2>2, <2>3, <4>1, UndoStays, SameHeld
      <4>2. CASE journal' = saved
        <5>1. Keys(hand.done) \subseteq Keys(journal'.entry)
          BY <2>5, <3>1
        <5> QED BY <2>1, <2>2, <2>3, <2>4, <2>5, <2>7, <3>1, <4>2, <5>1, SavedDurable
      <4> QED BY <2>5, <4>1, <4>2
    <3>3. Covers(hand.done)'
      BY <2>1, <2>3, <2>6, <3>1, SameHeld, CoversStays
    <3>4. OthersSpare'
      BY <2>1, <2>4, <2>5, <2>6, <3>1, <3>3 DEF OthersSpare, Keys
    <3> QED BY <2>5, <3>1, <3>2, <3>4
  <2>8. HeldStays /\ (HoldsSome' <=> HoldsSome)
    BY <2>1, <2>3, SameHeld
  <2> QED BY <1>2, <2>1, <2>2, <2>3, <2>5, <2>6, <2>7, <2>8, OtherStep
<1> QED BY <1>0, <1>1, <1>2, <1>3

LEMMA PruneDurable ==
    ASSUME DurableInv, SoundInv', Prune
    PROVE  DurableInv'
<1>1. /\ hand.step = "Prune" /\ hand' = ToStep("End")
      /\ UNCHANGED <<content, panel, forfeited, spent>>
  BY DEF Prune, Step
<1>2. /\ SoundInv /\ hand \in Hand /\ PlacedRight(hand) /\ hand.kind # "None"
      /\ journal \in Journal /\ journal.entry \in Backup
      /\ OthersSpare /\ UndoDurable /\ InOrderEach(journal.entry) /\ hand.done \in Backup
      /\ hand.kind \in {"Save", "Delete", "Load"} /\ journal' \in Journal
  BY <1>1, UnderLock DEF PlacedRight, SoundInv, ReplaceTypeOK
<1>3. PICK removed \in SUBSET (Keys(journal.entry) \ Keys(hand.done)) :
          journal' = [journal EXCEPT !.entry =
              [f \in File |-> IF f \in removed THEN NoEntry ELSE @[f]]]
  BY DEF Prune
<1>4. /\ journal'.marker = journal.marker /\ journal'.manifest = journal.manifest
      /\ \A f \in File : /\ journal'.entry[f] \in {NoEntry, journal.entry[f]}
                         /\ f \in Keys(hand.done) => journal'.entry[f] = journal.entry[f]
  BY <1>2, <1>3 DEF Journal
<1>5. InOrderEach(journal'.entry)
  BY <1>2, <1>4, Zenon DEF InOrderEach
<1>6. /\ hand'.kind = hand.kind /\ hand'.gen = hand.gen /\ hand'.done = hand.done
      /\ hand'.step = "End"
  BY <1>1, <1>2, HandGoesOn
<1>7. ASSUME HoldsSome
      PROVE  /\ UndoDurable' /\ OthersSpare'
             /\ \A w \in Window : Keys(panel[w].backup) \subseteq Keys(journal'.entry)
  <2>1. /\ hand.kind = "Save" /\ Covers(hand.done)
        /\ Keys(hand.done) \subseteq Keys(journal.entry)
        /\ journal.manifest = Keys(hand.done)
        /\ \A w \in Window : Keys(panel[w].backup) \subseteq Keys(hand.done)
    BY <1>1, <1>2, <1>7 DEF OthersSpare
  <2>2. Keys(hand.done) \subseteq Keys(journal'.entry)
    BY <1>4, <2>1 DEF Keys
  <2>3. ~journal.marker /\ \A f \in Keys(hand.done) : f \in File
    BY <1>7, OfferedDurable DEF Active, Keys
  <2>4. UndoDurable'
    BY <1>1, <1>2, <1>4, <1>7, <2>1, <2>2, <2>3, SavedDurable
  <2>5. Covers(hand.done)'
    BY <1>1, <1>6, <2>1, SameHeld, CoversStays
  <2>6. OthersSpare'
    BY <1>1, <1>6, <2>1, <2>2, <2>5 DEF OthersSpare, Keys
  <2> QED BY <2>1, <2>2, <2>4, <2>6
<1>8. HeldStays /\ (HoldsSome' <=> HoldsSome)
  BY <1>1, SameHeld
<1> QED BY <1>1, <1>2, <1>5, <1>6, <1>7, <1>8, OtherStep

\* The file is written under its entry, and the run is the last of it.
LEMMA RunWrites ==
    ASSUME DurableInv, SoundInv', hand.step = "Write", panel' = panel,
           content' = [content EXCEPT ![hand.file] = Replaced(hand.file)],
           hand' = [NextFile EXCEPT !.done[hand.file] = RunEntry(hand.file)],
           UNCHANGED <<journal, forfeited, spent>>
    PROVE  DurableInv'
<1>1. /\ SoundInv /\ hand \in Hand /\ PlacedRight(hand) /\ hand.kind = "Apply"
      /\ ApplyJournals /\ InOrderEach(journal.entry) /\ InOrderEach(hand.done)
      /\ content \in [File -> Content] /\ hand.done \in Backup
      /\ \A f \in File : content[f].runs # <<>> => Last(content[f].runs) <= spent.runs
      /\ spent.runs \in Nat
  BY UnderLock DEF PlacedRight
<1>2. PICK f \in File : f = hand.file
  BY <1>1 DEF PlacedRight
<1>3. PICK e : e = RunEntry(f)
  OBVIOUS
<1>4. /\ InOrder(e) /\ e # NoEntry /\ hand.run = spent.runs
      /\ hand.done[f] = NoEntry /\ e.new = Replaced(f)
      /\ Last(Replaced(f).runs) = spent.runs /\ Replaced(f).runs # <<>>
  BY <1>1, <1>2, <1>3, RunEntryInOrder
<1>5. /\ hand.prepared /\ hand.armed /\ ~journal.marker /\ journal.manifest = Incremental
      /\ journal.entry[f] = e /\ hand.file \notin hand.todo
      /\ NoFile \notin hand.todo /\ NoFile \notin File
  BY <1>1, <1>2, <1>3, SentinelAssumption DEF ApplyJournals, Hand
<1>6. /\ NextFile \in Hand /\ NextFile.done = hand.done
      /\ NextFile.step = "Next" /\ NextFile.file = NoFile /\ NextFile.kind = hand.kind
      /\ NextFile.todo = hand.todo /\ NextFile.prepared = hand.prepared
      /\ NextFile.armed = hand.armed /\ NextFile.run = hand.run
      /\ NextFile.gen = hand.gen /\ NextFile.win = hand.win
  BY <1>1, HandGoesOn
<1>7. /\ hand'.step = "Next" /\ hand'.file = NoFile /\ hand'.kind = "Apply"
      /\ hand'.todo = hand.todo /\ hand'.prepared /\ hand'.armed
      /\ hand'.run = spent.runs /\ hand'.gen = hand.gen
      /\ hand'.done = [hand.done EXCEPT ![f] = e]
  BY <1>1, <1>2, <1>3, <1>4, <1>5, <1>6 DEF Hand
<1>8. /\ hand'.done[f] = e
      /\ \A g \in File : g # f => hand'.done[g] = hand.done[g]
  BY <1>1, <1>7 DEF Backup
<1>9. /\ content'[f] = e.new
      /\ \A g \in File : g # f => content'[g] = content[g]
  BY <1>1, <1>2, <1>4
<1>10. \A g \in File : content'[g].runs # <<>> => Last(content'[g].runs) <= spent.runs
  BY <1>1, <1>4, <1>9
<1>11. /\ \A g \in File : g # f => (WroteLast(g)' <=> WroteLast(g))
       /\ \A g \in File : g # f => (HoldsLatest(g)' <=> HoldsLatest(g))
  <2>1. \A g \in File : g # f => (WroteLast(g)' <=> WroteLast(g))
    BY <1>9 DEF WroteLast
  <2> QED BY <2>1 DEF HoldsLatest
<1>12. InOrderEach(hand'.done)
  BY <1>1, <1>4, <1>8 DEF InOrderEach
<1>13. Covers(hand.done)'
  <2>1. \A g \in File : HoldsLatest(g)' => hand'.done[g] # NoEntry /\ hand'.done[g].new = content'[g]
    BY <1>1, <1>4, <1>8, <1>9, <1>11 DEF ApplyJournals, Covers
  <2> QED BY <2>1 DEF Covers
<1>14. \A g \in hand'.todo \cup {hand'.file} : g \in File =>
            ~WroteLast(g)' /\ hand'.done[g] = NoEntry
  BY <1>1, <1>2, <1>5, <1>7, <1>8, <1>11 DEF ApplyJournals
<1>15. \A g \in File : hand'.done[g] # NoEntry =>
            /\ journal'.entry[g] = hand'.done[g]
            /\ ~journal'.marker /\ journal'.manifest = Incremental
  BY <1>1, <1>5, <1>8 DEF ApplyJournals
<1>16. ApplyJournals'
  BY <1>5, <1>7, <1>13, <1>14, <1>15 DEF ApplyJournals
<1> QED BY <1>1, <1>7, <1>10, <1>12, <1>16, RunStep

LEMMA WriteTargetDurable ==
    ASSUME DurableInv, SoundInv', WriteTarget
    PROVE  DurableInv'
<1>1. /\ hand.step = "Write" /\ UNCHANGED <<panel, forfeited>>
      /\ \/ /\ content' = [content EXCEPT ![hand.file] = Replaced(hand.file)]
            /\ hand' = [NextFile EXCEPT !.done[hand.file] = RunEntry(hand.file)]
            /\ UNCHANGED <<journal, spent>>
         \/ /\ Fails /\ journal' \in Cleaned(journal)
            /\ hand' = NextFile /\ UNCHANGED content
  BY DEF WriteTarget, Step
<1>2. CASE /\ content' = [content EXCEPT ![hand.file] = Replaced(hand.file)]
           /\ hand' = [NextFile EXCEPT !.done[hand.file] = RunEntry(hand.file)]
           /\ UNCHANGED <<journal, spent>>
  BY <1>1, <1>2, RunWrites
<1>3. CASE /\ Fails /\ journal' \in Cleaned(journal)
           /\ hand' = NextFile /\ UNCHANGED content
  <2>1. /\ SoundInv /\ hand \in Hand /\ hand.kind = "Apply" /\ hand.file \in File
        /\ ApplyJournals /\ InOrderEach(journal.entry) /\ InOrderEach(hand.done)
        /\ journal \in Journal /\ spent \in Spent
        /\ \A f \in File : content[f].runs # <<>> => Last(content[f].runs) <= spent.runs
    BY <1>1, UnderLock DEF PlacedRight
  <2>2. spent'.runs = spent.runs
    BY <1>3, <2>1, FailsSpends
  <2>3. /\ journal'.marker = journal.marker /\ journal'.manifest = journal.manifest
        /\ \A g \in File : /\ journal'.entry[g] \in {NoEntry, journal.entry[g]}
                           /\ g # hand.file => journal'.entry[g] = journal.entry[g]
    BY <1>3, <2>1, CleanedParts
  <2>4. InOrderEach(journal'.entry)
    BY <2>1, <2>3, Zenon DEF InOrderEach
  <2>5. /\ hand'.step = "Next" /\ hand'.file = NoFile /\ hand'.kind = hand.kind
        /\ hand'.todo = hand.todo /\ hand'.prepared = hand.prepared /\ hand'.done = hand.done
        /\ hand'.armed = hand.armed /\ hand'.run = hand.run /\ hand'.gen = hand.gen
    BY <1>3, <2>1, HandGoesOn
  <2>6. /\ hand.prepared /\ hand.armed /\ ~journal.marker /\ journal.manifest = Incremental
        /\ NoFile \notin hand.todo /\ hand.run = spent.runs /\ hand.done[hand.file] = NoEntry
        /\ NoFile \notin File
    BY <1>1, <2>1, SentinelAssumption DEF ApplyJournals, Hand
  <2>7. HeldStays /\ \A g \in File : WroteLast(g)' <=> WroteLast(g)
    BY <1>1, <1>3, <2>2, SameHeld DEF WroteLast
  <2>8. Covers(hand.done)'
    BY <2>1, <2>5, <2>7, CoversStays DEF ApplyJournals
  <2>9. \A g \in File : hand'.done[g] # NoEntry =>
              /\ journal'.entry[g] = hand'.done[g]
              /\ ~journal'.marker /\ journal'.manifest = Incremental
    BY <2>1, <2>3, <2>5, <2>6 DEF ApplyJournals
  <2>10. \A g \in hand'.todo \cup {hand'.file} : g \in File =>
              ~WroteLast(g)' /\ hand'.done[g] = NoEntry
    BY <2>1, <2>5, <2>6, <2>7 DEF ApplyJournals
  <2>11. ApplyJournals'
    BY <2>2, <2>3, <2>5, <2>6, <2>8, <2>9, <2>10 DEF ApplyJournals
  <2> QED BY <1>1, <1>3, <2>1, <2>2, <2>4, <2>5, <2>11, RunStep
<1> QED BY <1>1, <1>2, <1>3

LEMMA ReleaseDurable ==
    ASSUME OneWindow, DurableInv, SoundInv', Release
    PROVE  DurableInv'
<1> DEFINE w == hand.win
           report(kind) == [kind |-> kind, gen |-> hand.gen, backup |-> hand.done]
<1>1. /\ hand.step = "End" /\ hand' = IdleHand
      /\ UNCHANGED <<content, journal, retired, forfeited, spent>>
      /\ \/ hand.kind # "Apply" /\ UNCHANGED panel
         \/ hand.kind = "Apply" /\ \E kind \in {"Applied", "Failed"} :
               panel' = [panel EXCEPT ![w].answers = @ \cup {report(kind)}]
  BY DEF Release, Step, Unlocked
<1>2. /\ SoundInv /\ hand \in Hand /\ hand.kind # "None" /\ w \in Window
      /\ ApplyJournals /\ UndoDurable /\ InOrderEach(journal.entry) /\ InOrderEach(hand.done)
      /\ hand.done \in Backup /\ panel \in [Window -> Panel]
      /\ \A f \in File : content[f].runs # <<>> => Last(content[f].runs) <= spent.runs
  BY <1>1, UnderLock DEF SoundInv, ReplaceTypeOK
<1>3. /\ HeldStays /\ (HoldsSome' <=> HoldsSome) /\ spent'.runs = spent.runs
      /\ hand'.kind = "None" /\ hand'.done = Empty
  BY <1>1, SameHeld DEF IdleHand
<1>4. UndoDurable' /\ ApplyJournals' /\ OthersSpare'
  BY <1>1, <1>2, <1>3, UndoStays DEF ApplyJournals, OthersSpare
<1>5. /\ \A b : Covers(b) => Covers(b)'
      /\ \A b : Journaled(b) => Journaled(b)'
  BY <1>1, <1>3, CoversStays, JournaledStays
<1>6. \A f \in File : HoldsLatest(f)' => HoldsLatest(f) /\ content'[f] = content[f]
  BY <1>3 DEF HeldStays
<1>7. ASSUME \A v \in Window : PanelInOrder(panel'[v])
      PROVE  RunsInOrder'
  <2>1. \A v \in Window : PanelInOrder(panel[v])'
    BY <1>3, <1>7 DEF PanelInOrder, InOrderEach, InOrder
  <2>2. InOrderEach(journal.entry)' /\ InOrderEach(hand.done)'
    BY <1>1, <1>2, <1>3, EmptyBackup DEF InOrderEach, InOrder
  <2> QED BY <1>1, <1>2, <1>3, <2>1, <2>2 DEF RunsInOrder
<1>8. CASE hand.kind # "Apply" /\ UNCHANGED panel
  <2>1. RunsInOrder'
    BY <1>7, <1>8 DEF DurableInv, RunsInOrder
  <2>2. ASSUME NEW v \in Window
        PROVE  PanelDurable(panel[v])'
    <3>1. PICK o \in Panel : o = panel[v]
      BY Owner
    <3>2. PanelDurable(o)
      BY <3>1, Owner
    <3>3. RunTicket(o)'
      BY <1>3, <1>5, <3>2 DEF PanelDurable, RunTicket, HeldStays
    <3>4. CurrentWork(o)'
      BY <1>3, <1>5, <3>2 DEF PanelDurable, CurrentWork
    <3>5. PanelCovers(o)'
      BY <1>5, <1>6, <3>2 DEF PanelDurable, PanelCovers
    <3> QED BY <1>8, <3>1, <3>3, <3>4, <3>5 DEF PanelDurable
  <2> QED BY <1>4, <2>1, <2>2 DEF DurableInv
<1>9. ASSUME NEW kind \in {"Applied", "Failed"}, hand.kind = "Apply",
             panel' = [panel EXCEPT ![w].answers = @ \cup {report(kind)}]
      PROVE  DurableInv'
  <2>1. PICK o \in Panel : o = panel[w]
    BY Owner, <1>2
  <2>2. /\ PanelDurable(o) /\ PanelInOrder(o)
    BY <1>2, <2>1, Owner
  <2>3. PICK r : r = report(kind)
    OBVIOUS
  <2>4. /\ r.kind = kind /\ r.gen = hand.gen /\ r.backup = hand.done /\ IsOutcome(r)
    BY <2>3 DEF IsOutcome
  <2>5. PICK q \in Panel :
           /\ q.gen = o.gen /\ q.backup = o.backup /\ q.jobs = o.jobs
           /\ q.answers = o.answers \cup {r} /\ q.undo = o.undo /\ q.left = o.left
           /\ q.undoing = o.undoing /\ q.open = o.open /\ q.pending = o.pending
           /\ \A v \in Window : panel'[v] = q
    <3> DEFINE d == [o EXCEPT !.answers = @ \cup {r}]
    <3>1. panel' = [panel EXCEPT ![w] = d]
      BY <1>2, <1>9, <2>1, <2>3
    <3>2. \A v \in Window : panel'[v] = d
      BY <1>2, <3>1 DEF OneWindow
    <3>3. /\ d.gen = o.gen /\ d.backup = o.backup /\ d.jobs = o.jobs
          /\ d.answers = o.answers \cup {r} /\ d.undo = o.undo /\ d.left = o.left
          /\ d.undoing = o.undoing /\ d.open = o.open /\ d.pending = o.pending
      BY DEF Panel
    <3> HIDE DEF d
    <3>4. panel'[w] \in Panel
      BY <1>2 DEF SoundInv, ReplaceTypeOK
    <3> QED BY <1>2, <3>2, <3>3, <3>4
  <2>6. /\ o.pending /\ ~o.undoing /\ hand.gen \in 1 .. o.gen /\ o.open
        /\ \A j \in o.jobs : j.kind # "Apply"
        /\ \A a \in o.answers : ~IsOutcome(a)
    BY <1>2, <1>9, <2>2 DEF PanelDurable, RunTicket, CurrentWork, ClosedPanel
  <2>7. hand.gen <= o.gen /\ hand.gen # 0 /\ o.gen # 0
    BY <1>2, <2>6 DEF Hand, Panel
  <2>8. Covers(hand.done) /\ Journaled(hand.done)
    BY <1>2, <1>9 DEF ApplyJournals, Journaled, Keys
  <2>9. Covers(r.backup)' /\ Journaled(r.backup)'
    BY <1>5, <2>4, <2>8
  <2>10. RunTicket(q)'
    BY <1>3, <2>5, <2>6, <2>9 DEF RunTicket
  <2>11. CurrentWork(q)'
    BY <1>3, <1>5, <1>9, <2>2, <2>4, <2>5, <2>6, <2>7 DEF PanelDurable, CurrentWork
  <2>12. PanelCovers(q)'
    BY <1>5, <1>6, <2>2, <2>5 DEF PanelDurable, PanelCovers
  <2>13. RunsInOrder'
    <3>1. PanelInOrder(q)
      BY <1>2, <2>2, <2>4, <2>5 DEF PanelInOrder
    <3>2. \A v \in Window : PanelInOrder(panel'[v])
      BY <2>5, <3>1
    <3> QED BY <1>7, <3>2
  <2>14. \A v \in Window : PanelDurable(panel[v])'
    BY <2>5, <2>10, <2>11, <2>12 DEF PanelDurable
  <2> QED BY <1>4, <2>13, <2>14 DEF DurableInv
<1> QED BY <1>1, <1>8, <1>9

LEMMA NextDurable ==
    ASSUME OneWindow, DurableInv, [Next]_vars
    PROVE  DurableInv'
<1>1. SoundInv'
  BY NextSound DEF DurableInv
<1>2. CASE LockStep
  BY <1>1, <1>2, MarkDurable, UnlinkDurable, NextFilesDurable, SaveEntryDurable,
     SaveManifestDurable, WriteTargetDurable, PruneDurable, ReleaseDurable DEF LockStep
<1>3. ASSUME NEW w \in Window,
             \/ OpenWindow(w) \/ StartReplace(w) \/ RefuseReplace(w) \/ RunDone(w)
             \/ LoadDone(w) \/ StartUndo(w) \/ Undo(w) \/ TakeLock(w) \/ Misread(w)
      PROVE  DurableInv'
  BY <1>1, <1>3, OpenWindowDurable, StartReplaceDurable, RefuseReplaceDurable,
     RunDoneDurable, LoadDoneDurable, StartUndoDurable, UndoFileDurable, UndoDoneDurable,
     TakeLockDurable, MisreadDurable DEF Undo
<1>4. ASSUME NEW f \in File, SaveFile(f)
      PROVE  DurableInv'
  BY <1>1, <1>4, SaveFileDurable
<1>5. CASE Crash
  BY <1>1, <1>5, CrashDurable
<1>6. CASE UNCHANGED vars
  <2>1. /\ UNCHANGED <<content, journal, hand, panel, retired, forfeited, spent>>
        /\ spent'.runs = spent.runs
    BY <1>6 DEF vars
  <2>2. HeldStays /\ (HoldsSome' <=> HoldsSome)
    BY <2>1, SameHeld
  <2>3. RunsInOrder'
    <3>1. \A v \in Window : PanelInOrder(panel[v])'
      BY <2>1, OrderStays DEF DurableInv, RunsInOrder
    <3>2. InOrderEach(journal.entry)' /\ InOrderEach(hand.done)'
      BY <2>1, OrderStays DEF DurableInv, RunsInOrder
    <3> QED BY <2>1, <3>1, <3>2 DEF DurableInv, RunsInOrder
  <2>4. UndoDurable'
    BY <2>1, <2>2, UndoStays DEF DurableInv
  <2>5. ApplyJournals'
    <3>1. hand \in Hand /\ PlacedRight(hand)
      BY DEF DurableInv, SoundInv, ReplaceTypeOK
    <3> QED BY <2>1, <2>2, <3>1, ApplyStays DEF DurableInv, PlacedRight
  <2>6. OthersSpare'
    <3>1. Covers(hand.done) => Covers(hand.done)'
      BY <2>1, <2>2, CoversStays
    <3> QED BY <2>1, <2>2, <3>1 DEF DurableInv, OthersSpare
  <2>7. ASSUME NEW v \in Window
        PROVE  PanelDurable(panel[v])'
    <3>1. PICK o : o = panel[v]
      OBVIOUS
    <3>2. PanelDurable(o)'
      BY <2>1, <2>2, <3>1, PanelStays DEF DurableInv
    <3> QED BY <2>1, <3>1, <3>2
  <2> QED BY <1>1, <2>3, <2>4, <2>5, <2>6, <2>7 DEF DurableInv
<1> QED BY <1>2, <1>3, <1>4, <1>5, <1>6 DEF Next

\* With one window, whatever the latest Replace All wrote and nobody undid or
\* saved over can be undone after a crash: its original is in an active journal
\* at every moment, for any files, runs, undos, saves and crashes, whatever calls
\* that change the disk fail, and until a read or probe of that journal fails.
THEOREM UndoableAlways ==
    ASSUME OneWindow
    PROVE  Spec => []UndoDurable
<1>1. Init => DurableInv
  BY InitDurable
<1>2. DurableInv /\ [Next]_vars => DurableInv'
  BY NextDurable
<1>3. DurableInv => UndoDurable
  BY DEF DurableInv
<1> QED BY <1>1, <1>2, <1>3, PTL DEF Spec

================================================================================
