---------------------------- MODULE DocumentSave ----------------------------
(***************************************************************************)
(* Saving a document while the sidebar renames and deletes files.          *)
(*                                                                         *)
(* A save is queued (ui/editor_page/save/admission.rs), admitted under a   *)
(* byte budget, captured with the view locked, written by a worker under   *)
(* the guard of its target, and accepted on the GTK thread only if the     *)
(* editor still is what it was (execution.rs).  A rename or a delete of    *)
(* the sidebar runs on a worker under the same guards and tells the tabs   *)
(* afterwards (sidebar/workspace_section/file_execution.rs,                *)
(* window/documents.rs).  Worker results reach the GTK thread in the order *)
(* the workers ended: they share one completion lane.                      *)
(***************************************************************************)
EXTENDS Integers, Sequences, FiniteSets, SequencesExt

CONSTANTS
  Tabs,      \* editors
  Paths,     \* file names, as numbers: guards are taken in their order
  Opened,    \* the file each tab was opened from
  Weight,    \* bytes a save of each tab is charged
  Budget,    \* bytes admitted saves may hold together
  MaxActive, \* admitted saves at one time
  MaxOps,    \* bound on the operations of the sidebar
  Worlds     \* bounds, one record of them in each behaviour: the edits, the
             \* saves, the names a Save As may take, the operations, the
             \* failing calls and the changes by other programs

ASSUME SaveAssumption ==
  /\ Paths \subseteq Nat /\ Opened \in [Tabs -> Paths] /\ IsInjective(Opened)
  /\ Weight \in [Tabs -> Nat \ {0}] /\ Budget \in Nat /\ MaxActive \in Nat \ {0}
  /\ MaxOps \in Nat

VARIABLES
  disk,    \* what each name holds: an object and its text, or nothing
  tab,     \* what each editor shows and the generations it counts
  queue,   \* requests that wait for admission, oldest first
  active,  \* admitted permits
  freed,   \* permits dropped, whose release is an idle source
  drain,   \* whether a drain of the queue is scheduled
  save,    \* the admitted save of each tab
  op,      \* operations of the sidebar
  guard,   \* who holds the write guard of each name
  lane,    \* completions on their way to the GTK thread
  session, \* the current close-save session, 0 if none
  count,   \* counters
  raced,   \* tabs whose save was accepted at a name an operation had taken
  unconfirmed, \* tabs left clean by a formatted save that failed after its rename
  slipped, \* operations whose look at their name failed, or whose name another
           \* program changed after it
  world    \* the bounds of this behaviour

saveVars ==
  <<disk, tab, queue, active, freed, drain, save, op, guard, lane, session, count, raced, unconfirmed,
    slipped, world>>

\* What a name holds: an object, its text, and the tab whose file it is: the
\* one that opened or wrote it, if any did and knows that it did.
Nothing == [obj |-> 0, text |-> 0, by |-> {}]
Free    == <<"free", 0>>
Ops     == 1 .. MaxOps

NoSave == [step |-> "none", path |-> 0, explicit |-> FALSE, close |-> 0, text |-> 0, out |-> 0,
           gen |-> 0, pathGen |-> 0, editGen |-> 0, id |-> 0, was |-> FALSE, result |-> "none"]
NoOp   == [kind |-> "none", step |-> "idle", old |-> 0, new |-> 0, expected |-> 0]

SaveSteps == {"none", "lock", "write", "ran", "sent", "mirror"}
OpSteps   == {"idle", "asked", "first", "second", "act", "checked", "ran", "sent", "end"}

\* A text is a number: 2n as typed, 2n + 1 once save formatting tidied it.
Tidied(text) == IF text % 2 = 0 THEN text + 1 ELSE text

\* What a replacement that was cancelled half-way leaves in the buffer.
Emptied == 97

\* The types of the parts.
Object    == [obj : Nat, text : Nat, by : SUBSET Tabs]
Editor    == [open : BOOLEAN, path : Paths, text : Nat, modified : BOOLEAN, saving : BOOLEAN,
              locked : BOOLEAN, gen : Nat, pathGen : Nat, editGen : Nat]
Queued    == [id : Nat, tab : Tabs, gen : Nat, path : Paths, explicit : BOOLEAN,
              modified : BOOLEAN, close : Nat]
SaveState == [step : SaveSteps, path : {0} \cup Paths, explicit : BOOLEAN, close : Nat,
              text : Nat, out : Nat, gen : Nat, pathGen : Nat, editGen : Nat, id : Nat,
              was : BOOLEAN, result : {"none", "ok", "before", "after"}]
OpState   == [kind : {"none", "rename", "delete"}, step : OpSteps, old : {0} \cup Paths,
              new : {0} \cup Paths, expected : Nat]
Counters  == [edits : Nat, saves : Nat, ops : Nat, faults : Nat, outside : Nat, objs : Nat,
              sessions : Nat]
Result    == ({"save"} \X Tabs) \cup ({"op"} \X Ops)

\* A save at work owns its editor, and the guard of its target while it writes; an
\* operation owns the guards of its names while it acts; nobody else holds a guard.
GuardsOwned ==
  /\ \A t \in Tabs : save[t].step # "none" => tab[t].saving /\ tab[t].locked /\ save[t].path \in Paths
  /\ \A p \in Paths :
        \/ guard[p] = Free
        \/ \E t \in Tabs : guard[p] = <<"save", t>> /\ save[t].step = "write" /\ save[t].path = p
        \/ \E i \in Ops : guard[p] = <<"op", i>> /\ op[i].step \in {"second", "act", "checked"}
  /\ \A t \in Tabs : save[t].step = "write" => guard[save[t].path] = <<"save", t>>
  /\ \A i \in Ops : op[i].step \in {"act", "checked"} =>
        guard[op[i].old] = <<"op", i>> /\ (op[i].kind = "rename" => guard[op[i].new] = <<"op", i>>)

\* The type of each variable.
SaveTypes ==
  /\ disk \in [Paths -> Object] /\ tab \in [Tabs -> Editor] /\ queue \in Seq(Queued)
  /\ active \in SUBSET [id : Nat, tab : Tabs] /\ freed \in SUBSET Nat /\ drain \in BOOLEAN
  /\ save \in [Tabs -> SaveState] /\ op \in [Ops -> OpState]
  /\ guard \in [Paths -> {Free} \cup Result] /\ lane \in Seq(Result) /\ session \in Nat
  /\ count \in Counters
  /\ raced \in SUBSET Tabs /\ unconfirmed \in SUBSET Tabs /\ slipped \in SUBSET Ops
  /\ world \in Worlds

\* The types, and who holds the guards.
SaveTypeOK == SaveTypes /\ GuardsOwned

SaveInit ==
  /\ disk = [p \in Paths |->
       IF \E t \in Tabs : Opened[t] = p
       THEN [obj |-> p + 1, text |-> 0, by |-> {t \in Tabs : Opened[t] = p}] ELSE Nothing]
  /\ tab = [t \in Tabs |->
       [open |-> TRUE, path |-> Opened[t], text |-> 0, modified |-> FALSE, saving |-> FALSE,
        locked |-> FALSE, gen |-> 0, pathGen |-> 0, editGen |-> 0]]
  /\ queue = <<>> /\ active = {} /\ freed = {} /\ drain = FALSE
  /\ save = [t \in Tabs |-> NoSave]
  /\ op = [i \in Ops |-> NoOp]
  /\ guard = [p \in Paths |-> Free]
  /\ lane = <<>> /\ session = 0 /\ raced = {} /\ unconfirmed = {} /\ slipped = {}
  /\ world \in Worlds
  /\ count = [edits |-> 0, saves |-> 0, ops |-> 0, faults |-> 0, outside |-> 0, objs |-> 9, sessions |-> 0]

CallFails == count.faults < world.faults
-----------------------------------------------------------------------------
(* Requests. *)

\* The user types: not while a save holds the view.
Edit(t) ==
  /\ tab[t].open /\ ~tab[t].locked /\ count.edits < world.edits
  /\ count' = [count EXCEPT !.edits = @ + 1]
  /\ tab' = [tab EXCEPT ![t].text = 2 * (count.edits + 1), ![t].modified = TRUE,
                        ![t].editGen = @ + 1]
  /\ UNCHANGED <<disk, queue, active, freed, drain, save, op, guard, lane, session,
                 raced, unconfirmed, slipped, world>>

\* queue_save_request: refused while a save of the editor is in flight.  The
\* generation and the saving mark are set before the GTK thread is left.
Request(t, path, explicit, close) ==
  /\ tab[t].open /\ ~tab[t].saving /\ count.saves < world.saves
  /\ tab' = [tab EXCEPT ![t].gen = @ + 1, ![t].saving = TRUE]
  /\ queue' = Append(queue,
       [id |-> count.saves + 1, tab |-> t, gen |-> tab[t].gen + 1, path |-> path,
        explicit |-> explicit, modified |-> tab[t].modified, close |-> close])
  /\ drain' = TRUE
  /\ UNCHANGED <<disk, active, freed, save, op, guard, lane, raced, unconfirmed, slipped, world>>

Save(t) ==
  /\ Request(t, tab[t].path, FALSE, 0)
  /\ count' = [count EXCEPT !.saves = @ + 1]
  /\ UNCHANGED session

SaveAs(t, path) ==
  /\ path \in world.names
  /\ Request(t, path, TRUE, 0)
  /\ count' = [count EXCEPT !.saves = @ + 1]
  /\ UNCHANGED session

\* A close that asked to save begins a session, which replaces the one before.
CloseSave(t) ==
  /\ tab[t].modified
  /\ Request(t, tab[t].path, FALSE, count.sessions + 1)
  /\ count' = [count EXCEPT !.saves = @ + 1, !.sessions = @ + 1]
  /\ session' = count.sessions + 1

-----------------------------------------------------------------------------
(* Admission: SaveAdmissionPolicy and the drain of the queue. *)

\* queued_save_is_current: what a queued request must still find.
RequestCurrent(r) ==
  LET t == tab[r.tab]
  IN  /\ t.open /\ t.saving /\ t.gen = r.gen
      /\ r.modified => t.modified
      /\ r.explicit \/ t.path = r.path
      /\ r.close # 0 => session = r.close

\* The requests that are current, in their order.
Kept(q) ==
  LET kept[n \in 0 .. Len(q)] ==
        IF n = 0 THEN <<>>
        ELSE IF RequestCurrent(q[n]) THEN Append(kept[n - 1], q[n]) ELSE kept[n - 1]
  IN  kept

\* The bytes of a set of permits.
Charge(a) == FoldSet(LAMBDA x, n : n + Weight[x.tab], 0, a)

\* Mutant: the request's own bytes are not counted.
FitsOthers(r, a) == Charge(a) <= Budget

Fits(r, a) ==
  IF Weight[r.tab] > Budget THEN a = {} ELSE Charge(a) + Weight[r.tab] <= Budget

\* admit_next: the first close save that fits, else the oldest request.
Admissible(a, q) ==
  IF \/ Cardinality(a) >= MaxActive
     \/ \E x \in a : Weight[x.tab] > Budget
  THEN {}
  ELSE LET closing == {i \in DOMAIN q : q[i].close # 0 /\ Fits(q[i], a)}
       IN  IF closing # {} THEN {CHOOSE i \in closing : \A j \in closing : i <= j}
           ELSE {i \in DOMAIN q : i = 1 /\ Fits(q[1], a)}

\* One round of the drain admits a request, if one can be admitted.
Permit(r) == [id |-> r.id, tab |-> r.tab]
Admit(s) ==
  LET ok == Admissible(s.held, s.left)
  IN  IF ok = {} THEN s
      ELSE LET i == CHOOSE j \in ok : TRUE
           IN  [held |-> s.held \cup {Permit(s.left[i])},
                left |-> RemoveAt(s.left, i),
                got  |-> s.got \cup {s.left[i]}]

\* The loop of the drain: as many rounds as there are requests.
Rounds(q) ==
  LET round[n \in 0 .. Len(q)] ==
        IF n = 0 THEN [held |-> active, left |-> q, got |-> {}] ELSE Admit(round[n - 1])
  IN  round

\* Stale requests are retired and their editors stop saving; each admitted
\* one locks its view and captures the text for its worker.
Drain ==
  /\ drain
  /\ LET kept  == Kept(queue)[Len(queue)]
         stale == ToSet(queue) \ ToSet(kept)
         next  == Rounds(kept)[Len(kept)]
     IN  /\ queue' = next.left /\ active' = next.held
         /\ tab' = [t \in Tabs |->
              IF \E r \in stale : r.tab = t /\ r.gen = tab[t].gen THEN [tab[t] EXCEPT !.saving = FALSE]
              ELSE IF \E r \in next.got : r.tab = t THEN [tab[t] EXCEPT !.locked = TRUE]
              ELSE tab[t]]
         /\ save' = [t \in Tabs |->
              IF \E r \in next.got : r.tab = t
              THEN LET r == CHOOSE x \in next.got : x.tab = t
                   IN  [step |-> "lock", path |-> r.path, explicit |-> r.explicit,
                        close |-> r.close, text |-> tab[t].text, out |-> tab[t].text,
                        gen |-> r.gen, pathGen |-> tab[t].pathGen, editGen |-> tab[t].editGen,
                        id |-> r.id, was |-> tab[t].modified, result |-> "none"]
              ELSE save[t]]
         /\ session' = IF \E r \in stale : r.close # 0 /\ r.close = session THEN 0 ELSE session
  /\ drain' = FALSE
  /\ UNCHANGED <<disk, freed, op, guard, lane, count, raced, unconfirmed, slipped, world>>

\* The idle source of a dropped permit.
ReleasePermit(id) ==
  /\ id \in freed
  /\ freed' = freed \ {id}
  /\ active' = {x \in active : x.id # id}
  /\ drain' = TRUE
  /\ UNCHANGED <<disk, tab, queue, save, op, guard, lane, session, count,
                 raced, unconfirmed, slipped, world>>

-----------------------------------------------------------------------------
(* The worker of a save: write_bytes_to_path. *)

\* Mutant: the write does not wait for the guard.
LockRegardless(t) ==
  /\ save[t].step = "lock"
  /\ save' = [save EXCEPT ![t].step = "write"]
  /\ guard' = [guard EXCEPT ![save[t].path] = <<"save", t>>]
  /\ UNCHANGED <<disk, tab, queue, active, freed, drain, op, lane, session, count,
                 raced, unconfirmed, slipped, world>>

\* The worker formats the text, or has nothing to format, and waits for the
\* guard of its target.
LockTarget(t) ==
  /\ save[t].step = "lock" /\ guard[save[t].path] = Free
  /\ \E out \in {save[t].text, Tidied(save[t].text)} :
       save' = [save EXCEPT ![t].step = "write", ![t].out = out]
  /\ guard' = [guard EXCEPT ![save[t].path] = <<"save", t>>]
  /\ UNCHANGED <<disk, tab, queue, active, freed, drain, op, lane, session, count,
                 raced, unconfirmed, slipped, world>>

\* The atomic replacement.  It fails before the rename, or after it with the
\* new bytes in place.
WriteSaved(t) ==
  LET s == save[t]
  IN  /\ s.step = "write"
      /\ guard' = [guard EXCEPT ![s.path] = Free]
      /\ \E result \in {"ok", "before", "after"} :
           /\ result # "ok" => CallFails
           /\ count' = [count EXCEPT !.objs = @ + 1,
                          !.faults = IF result = "ok" THEN @ ELSE @ + 1]
           /\ save' = [save EXCEPT ![t].step = "ran", ![t].result = result]
           /\ disk' = IF result = "before" THEN disk
                      ELSE [disk EXCEPT ![s.path] =
                             [obj |-> count.objs + 1, text |-> s.out, by |-> {t}]]
      /\ UNCHANGED <<tab, queue, active, freed, drain, op, lane, session,
                     raced, unconfirmed, slipped, world>>

\* The worker ends: its result takes its place in the lane.
Return(t) ==
  /\ save[t].step = "ran"
  /\ save' = [save EXCEPT ![t].step = "sent"]
  /\ lane' = Append(lane, <<"save", t>>)
  /\ UNCHANGED <<disk, tab, queue, active, freed, drain, op, guard, session, count,
                 raced, unconfirmed, slipped, world>>

\* Mutant: a completion does not look at the path the editor has now.
TicketOfGeneration(t) ==
  /\ tab[t].saving /\ tab[t].gen = save[t].gen /\ tab[t].editGen = save[t].editGen
  /\ save[t].close # 0 => session = save[t].close

\* SaveCompletionTicket::is_current.
TicketCurrent(t) ==
  /\ tab[t].saving
  /\ tab[t].gen = save[t].gen /\ tab[t].pathGen = save[t].pathGen
  /\ tab[t].editGen = save[t].editGen
  /\ save[t].close # 0 => session = save[t].close

\* A rename took the name of the save, which may have written it again, or put
\* the older file of the tab in its place, and its news is behind the completion
\* of the save; or the news of a delete closed the tab meanwhile.
Overtaking(t) ==
  \/ ~tab[t].open
  \/ \E i \in Ops :
       /\ op[i].kind = "rename" /\ op[i].step \in {"ran", "sent"}
       /\ \/ op[i].old = save[t].path
          \/ op[i].old = tab[t].path /\ op[i].new = save[t].path

\* The editor is released with its new state, and so is the permit.
EndSave(t, editor) ==
  /\ tab' = [tab EXCEPT ![t] = [editor EXCEPT !.saving = FALSE, !.locked = FALSE]]
  /\ save' = [save EXCEPT ![t] = NoSave]
  /\ freed' = freed \cup {save[t].id}

\* The file a tab shows from now on is its only one.
Owns(t, path) ==
  [p \in Paths |-> IF p = path THEN disk[p] ELSE [disk[p] EXCEPT !.by = @ \ {t}]]

\* Accepted: clean.  A Save As adopts its destination, a close closes the tab.
Accept(t) ==
  LET s == save[t]
      path == IF s.explicit THEN s.path ELSE tab[t].path
  IN  /\ EndSave(t, [tab[t] EXCEPT !.modified = FALSE, !.text = s.out, !.path = path,
                       !.pathGen = IF s.explicit THEN @ + 1 ELSE @,
                       !.open = @ /\ s.close = 0])
      /\ disk' = Owns(t, path)
      /\ session' = IF s.close # 0 THEN 0 ELSE session
      /\ raced' = IF Overtaking(t) THEN raced \cup {t} ELSE raced
      /\ unconfirmed' = unconfirmed \ {t}

\* Not accepted: the bytes may be on disk, the document counts as modified.
Refuse(t, text) ==
  /\ EndSave(t, [tab[t] EXCEPT !.modified = TRUE, !.text = text])
  /\ session' = IF save[t].close # 0 /\ save[t].close = session THEN 0 ELSE session
  /\ UNCHANGED <<disk, raced, unconfirmed>>

\* The write failed: the document is what it was before, also when the formatted
\* text is in the file.
Failed(t) ==
  /\ EndSave(t, [tab[t] EXCEPT !.modified = save[t].was])
  /\ session' = IF save[t].close # 0 /\ save[t].close = session THEN 0 ELSE session
  /\ unconfirmed' = IF save[t].result = "after" /\ ~save[t].was /\ save[t].out # save[t].text
                    THEN unconfirmed \cup {t} ELSE unconfirmed
  /\ UNCHANGED <<disk, raced>>

SaveDone(t) ==
  IF ~TicketCurrent(t) THEN Refuse(t, tab[t].text)
  ELSE IF save[t].result # "ok" THEN Failed(t)
  ELSE IF save[t].out = save[t].text THEN Accept(t)
  ELSE /\ save' = [save EXCEPT ![t].step = "mirror"]
       /\ UNCHANGED <<disk, tab, freed, session, raced, unconfirmed>>

\* The formatted text was put into the buffer, slice by slice; a replacement
\* that went stale put nothing there yet, or leaves the buffer empty.
MirrorDone(t) ==
  /\ save[t].step = "mirror"
  /\ IF TicketCurrent(t) THEN Accept(t)
     ELSE \E text \in {save[t].text, save[t].out, Emptied} : Refuse(t, text)
  /\ UNCHANGED <<queue, active, drain, op, guard, lane, count, slipped, world>>

-----------------------------------------------------------------------------
(* The sidebar. *)

NextOp(i) == i = count.ops + 1 /\ i <= world.ops

\* The object a delete dialog names is remembered while it asks.
AskDelete(i, p) ==
  /\ NextOp(i) /\ disk[p] # Nothing
  /\ op' = [op EXCEPT ![i] = [NoOp EXCEPT !.kind = "delete", !.step = "asked", !.old = p,
                                          !.expected = disk[p].obj]]
  /\ count' = [count EXCEPT !.ops = i]
  /\ UNCHANGED <<disk, tab, queue, active, freed, drain, save, guard, lane, session,
                 raced, unconfirmed, slipped, world>>

AnswerDelete(i) ==
  /\ op[i].step = "asked"
  /\ op' = [op EXCEPT ![i].step = "first"]
  /\ UNCHANGED <<disk, tab, queue, active, freed, drain, save, guard, lane, session, count,
                 raced, unconfirmed, slipped, world>>

StartRename(i, p, q) ==
  /\ NextOp(i) /\ p # q
  /\ op' = [op EXCEPT ![i] = [NoOp EXCEPT !.kind = "rename", !.step = "first", !.old = p, !.new = q]]
  /\ count' = [count EXCEPT !.ops = i]
  /\ UNCHANGED <<disk, tab, queue, active, freed, drain, save, guard, lane, session,
                 raced, unconfirmed, slipped, world>>

\* Mutant: in the order of the operation.
GuardsAsNamed(o) == <<o.old, o.new>>

\* A delete takes one guard, a rename those of both names in their order.
Guards(o) ==
  IF o.kind = "rename" /\ o.new < o.old THEN <<o.new, o.old>> ELSE <<o.old, o.new>>

TakeFirst(i) ==
  /\ op[i].step = "first" /\ guard[Guards(op[i])[1]] = Free
  /\ guard' = [guard EXCEPT ![Guards(op[i])[1]] = <<"op", i>>]
  /\ op' = [op EXCEPT ![i].step = IF op[i].kind = "rename" THEN "second" ELSE "act"]
  /\ UNCHANGED <<disk, tab, queue, active, freed, drain, save, lane, session, count,
                 raced, unconfirmed, slipped, world>>

TakeSecond(i) ==
  /\ op[i].step = "second" /\ guard[Guards(op[i])[2]] = Free
  /\ guard' = [guard EXCEPT ![Guards(op[i])[2]] = <<"op", i>>]
  /\ op' = [op EXCEPT ![i].step = "act"]
  /\ UNCHANGED <<disk, tab, queue, active, freed, drain, save, lane, session, count,
                 raced, unconfirmed, slipped, world>>

DropGuards(i) == guard' = [p \in Paths |-> IF guard[p] = <<"op", i>> THEN Free ELSE guard[p]]

\* Mutant: a name in use is renamed over.
MayRenameOver(o) == disk[o.old] # Nothing

\* Under the guard: nothing but the object the dialog named is removed, and
\* nothing is renamed over a name in use.
MayDelete(o) == disk[o.old].obj = o.expected
MayRename(o) == disk[o.old] # Nothing /\ disk[o.new] = Nothing

\* A file that is renamed stays the file of the tab that shows its old name.
AsRenamed(o) == [disk[o.old] EXCEPT !.by = {t \in @ : tab[t].path = o.old}]

\* The operation ends on the worker.
OpEnds(i, step) == DropGuards(i) /\ op' = [op EXCEPT ![i].step = step]

Fault == CallFails /\ count' = [count EXCEPT !.faults = @ + 1]

\* The name whose file a call of the operation may destroy.
Target(o) == IF o.kind = "delete" THEN o.old ELSE o.new

\* The files once one has the new name of a rename and none has the old.
Moved(o, file) == [disk EXCEPT ![o.new] = file, ![o.old] = Nothing]

\* The rename itself.  Its directory sync may fail afterwards: nobody is told then.
RenameCall(i) ==
  LET o == op[i]
  IN  \/ disk' = Moved(o, AsRenamed(o)) /\ OpEnds(i, "ran") /\ UNCHANGED count
      \/ /\ disk' \in {disk, Moved(o, [AsRenamed(o) EXCEPT !.by = {}])}
         /\ Fault /\ OpEnds(i, "end")

\* Under its guards an operation looks first: a delete at the object, which is as
\* good as removed when no inode of it can be read; a rename at the new name, in a
\* call before the rename where the file system cannot refuse to replace.  When that
\* look fails the name counts as free.
Act(i) ==
  LET o == op[i]
  IN  /\ o.step = "act"
      /\ \/ /\ \/ o.kind = "delete" /\ MayDelete(o) /\ UNCHANGED <<count, slipped>>
               \/ o.kind = "rename" /\ disk[o.new] = Nothing /\ UNCHANGED <<count, slipped>>
               \/ o.kind = "rename" /\ Fault /\ slipped' = slipped \cup {i}
            /\ op' = [op EXCEPT ![i].step = "checked"]
            /\ UNCHANGED <<disk, guard>>
         \/ /\ o.kind = "delete"
            /\ (disk[o.old] = Nothing /\ UNCHANGED count) \/ Fault
            /\ OpEnds(i, "ran") /\ UNCHANGED <<disk, slipped>>
         \/ o.kind = "rename" /\ MayRename(o) /\ RenameCall(i) /\ UNCHANGED slipped
         \/ /\ \/ o.kind = "delete" /\ disk[o.old] # Nothing /\ ~MayDelete(o) /\ UNCHANGED count
               \/ o.kind = "rename" /\ ~MayRename(o) /\ UNCHANGED count
               \/ Fault
            /\ OpEnds(i, "end") /\ UNCHANGED <<disk, slipped>>
      /\ UNCHANGED <<tab, queue, active, freed, drain, save, lane, session,
                     raced, unconfirmed, world>>

\* The call after the look takes whatever has the name by now.
TakeName(i) ==
  LET o == op[i]
  IN  /\ o.step = "checked"
      /\ \/ /\ o.kind = "delete"
            /\ disk' = [disk EXCEPT ![o.old] = Nothing]
            /\ OpEnds(i, "ran") /\ UNCHANGED count
         \/ o.kind = "rename" /\ disk[o.old] # Nothing /\ RenameCall(i)
         \/ /\ (o.kind = "rename" /\ disk[o.old] = Nothing /\ UNCHANGED count) \/ Fault
            /\ OpEnds(i, "end") /\ UNCHANGED disk
      /\ UNCHANGED <<tab, queue, active, freed, drain, save, lane, session,
                     raced, unconfirmed, slipped, world>>

ReturnOp(i) ==
  /\ op[i].step = "ran"
  /\ op' = [op EXCEPT ![i].step = "sent"]
  /\ lane' = Append(lane, <<"op", i>>)
  /\ UNCHANGED <<disk, tab, queue, active, freed, drain, save, guard, session, count,
                 raced, unconfirmed, slipped, world>>

\* After a rename the tabs of the old name get the new one; after a delete
\* they are closed, unless there is something to ask the user first.
OpDone(i) ==
  LET o == op[i]
      hit(t) == tab[t].open /\ tab[t].path = o.old
  IN  /\ op' = [op EXCEPT ![i].step = "end"]
      /\ tab' = [t \in Tabs |->
           IF ~hit(t) THEN tab[t]
           ELSE IF o.kind = "rename" THEN [tab[t] EXCEPT !.path = o.new, !.pathGen = @ + 1]
           ELSE IF tab[t].modified THEN tab[t]
           ELSE [tab[t] EXCEPT !.open = FALSE]]

\* The GTK thread delivers the oldest result.
Deliver ==
  /\ lane # <<>>
  /\ lane' = Tail(lane)
  /\ \/ \E t \in Tabs : Head(lane) = <<"save", t>> /\ SaveDone(t) /\ UNCHANGED op
     \/ \E i \in Ops : /\ Head(lane) = <<"op", i>> /\ OpDone(i)
                       /\ UNCHANGED <<disk, save, freed, session, raced, unconfirmed>>
  /\ UNCHANGED <<queue, active, drain, guard, count, slipped, world>>

\* Another program replaces, creates or removes a file.
Outside(p) ==
  /\ count.outside < world.outside
  /\ count' = [count EXCEPT !.outside = @ + 1, !.objs = @ + 1]
  /\ \/ disk' = [disk EXCEPT ![p] = [obj |-> count.objs + 1, text |-> 99, by |-> {}]]
     \/ disk[p] # Nothing /\ disk' = [disk EXCEPT ![p] = Nothing]
  /\ slipped' = slipped \cup {i \in Ops : op[i].step = "checked" /\ Target(op[i]) = p}
  /\ UNCHANGED <<tab, queue, active, freed, drain, save, op, guard, lane, session, raced, unconfirmed, world>>

\* What the main loop and the threads do of themselves, and what users do.
Machine ==
  \/ \E t \in Tabs : LockTarget(t) \/ WriteSaved(t) \/ Return(t) \/ MirrorDone(t)
  \/ \E i \in Ops : TakeFirst(i) \/ TakeSecond(i) \/ Act(i) \/ TakeName(i) \/ ReturnOp(i)
  \/ \E id \in freed : ReleasePermit(id)
  \/ Drain
  \/ Deliver

SaveNext ==
  \/ Machine
  \/ \E t \in Tabs : Edit(t) \/ Save(t) \/ CloseSave(t)
  \/ \E t \in Tabs, p \in Paths : SaveAs(t, p)
  \/ \E i \in Ops, p \in Paths : AskDelete(i, p)
  \/ \E i \in Ops, p, q \in Paths : StartRename(i, p, q)
  \/ \E i \in Ops : AnswerDelete(i)
  \/ \E p \in Paths : Outside(p)

SaveSpec == SaveInit /\ [][SaveNext]_saveVars

\* Threads run, system calls return and the main loop dispatches its sources:
\* while any of them has a step to take, one is taken.  (The fairness of each
\* of them would say more.)  The user need not act, nor answer a dialog.
SaveFair == WF_saveVars(Machine)
SaveFairSpec == SaveSpec /\ SaveFair

-----------------------------------------------------------------------------
(* Properties *)

\* A clean tab, open or closed, shows what its file holds whenever it was this
\* tab that last wrote or opened that file: whatever the order of edits,
\* saves, Save As, closes, failures, renames and deletes, no work counts as
\* saved that is not in the file.  Two exceptions.  A save accepted before the news
\* of a rename that took its name or put another file of the tab there: see
\* NothingResurrected.  And a save of an unmodified tab that fails after its rename:
\* the tab is clean again, and its file holds the same text, but formatted.
CleanMeansSaved ==
  \A t \in Tabs \ raced :
    ~tab[t].modified /\ ~tab[t].saving /\ disk[tab[t].path].by = {t} =>
      \/ disk[tab[t].path].text = tab[t].text
      \/ t \in unconfirmed /\ disk[tab[t].path].text = Tidied(tab[t].text)

\* No object leaves its name but by a rename, by a delete that was confirmed for
\* that very object, or by a save of that name: LushText itself never removes or
\* replaces a file nobody named, unless another program put it there after the
\* operation had looked and before its call, or the look of a rename failed.
NothingVanishes ==
  [][\A p \in Paths :
       disk[p] # Nothing /\ disk'[p].obj # disk[p].obj /\ count'.outside = count.outside =>
         \/ \E q \in Paths : disk'[q].obj = disk[p].obj /\ disk'[q].text = disk[p].text
         \/ \E i \in Ops : /\ op[i].kind = "delete" /\ op[i].step = "checked"
                           /\ op[i].old = p /\ op[i].expected = disk[p].obj
         \/ \E i \in slipped : op[i].step = "checked" /\ op'[i].step # "checked" /\ Target(op[i]) = p
         \/ \E t \in Tabs : save[t].step = "write" /\ save[t].path = p]_saveVars

\* Admitted saves hold at most the budget, or one of them holds more alone;
\* a save that is being captured or written holds its permit, and a permit is
\* held by such a save or its release is on its way.
WithinBudget ==
  /\ Charge(active) <= Budget \/ Cardinality(active) = 1
  /\ Cardinality(active) <= MaxActive
  /\ \A t \in Tabs : save[t].step # "none" => \E x \in active : x.id = save[t].id
  /\ \A x \in active : \/ x.id \in freed
                       \/ \E t \in Tabs : save[t].step # "none" /\ save[t].id = x.id

\* A save that was in flight when a rename or a delete took its name does
\* not write that name again.
NothingResurrected ==
  [][\A t \in Tabs :
       save[t].step = "write" /\ ~save[t].explicit /\ disk[save[t].path] = Nothing =>
         \A i \in Ops : op[i].step \in {"ran", "sent", "end"} /\ op[i].old = save[t].path =>
           disk'[save[t].path] = Nothing]_saveVars

\* A save is queued or at work, or an operation of the sidebar was confirmed
\* and has not ended: what must not last, lest a permit, a guard or a
\* completion was lost, or two renames of the same two names wait for each other.
SaveWorking ==
  \/ \E t \in Tabs : tab[t].saving
  \/ \E i \in Ops : op[i].step \notin {"idle", "asked", "end"}

-----------------------------------------------------------------------------
(* The inductive invariant. *)

SaveAtWork(t) == save[t].step # "none"

\* A queued request is the newest of its editor, which has no other request in the
\* queue and no save at work.
QueuedOnce ==
  /\ \A i, j \in DOMAIN queue : queue[i].tab = queue[j].tab => i = j
  /\ \A i \in DOMAIN queue :
        LET t == queue[i].tab IN tab[t].saving /\ tab[t].gen = queue[i].gen /\ ~SaveAtWork(t)

\* No two of the queued requests and the saves at work have one id, and no id of
\* theirs was freed.
IdsApart ==
  /\ \A i \in DOMAIN queue :
        /\ queue[i].id <= count.saves /\ queue[i].id \notin freed
        /\ \A j \in DOMAIN queue : queue[i].id = queue[j].id => i = j
        /\ \A t \in Tabs : SaveAtWork(t) => save[t].id # queue[i].id
  /\ \A t \in Tabs : SaveAtWork(t) =>
        /\ save[t].id <= count.saves /\ save[t].id \notin freed
        /\ \A u \in Tabs : SaveAtWork(u) /\ save[u].id = save[t].id => u = t
  /\ \A id \in freed : id <= count.saves

\* An operation names files, a rename two of them, whose guards it takes in order.
OpsPlaced ==
  \A i \in Ops : op[i].step # "idle" =>
    /\ i <= count.ops /\ op[i].old \in Paths
    /\ \/ op[i].kind = "delete" /\ op[i].step # "second"
       \/ op[i].kind = "rename" /\ op[i].new \in Paths \ {op[i].old}
    /\ op[i].step = "second" => guard[Guards(op[i])[1]] = <<"op", i>>

\* A result is in the lane once, and its save or operation waits for its delivery.
LaneOnce ==
  /\ \A i, j \in DOMAIN lane : lane[i] = lane[j] => i = j
  /\ \A i \in DOMAIN lane :
        /\ \A t \in Tabs : lane[i] = <<"save", t>> => save[t].step = "sent"
        /\ \A k \in Ops : lane[i] = <<"op", k>> => op[k].step = "sent"

\* What an operation saw when it looked is there until its call, unless the look
\* failed or another program changed it.
StillSeen ==
  \A i \in Ops \ slipped : op[i].step = "checked" =>
    IF op[i].kind = "delete" THEN disk[op[i].old].obj = op[i].expected
    ELSE disk[op[i].new] = Nothing

SaveInv ==
  /\ SaveTypeOK /\ QueuedOnce /\ IdsApart /\ OpsPlaced /\ LaneOnce
  /\ IsFiniteSet(active) /\ WithinBudget

\* A save has a result once its write returned.  One at work began with the path,
\* the text, the modified mark and the path generation its editor had, and only the
\* news of a rename changes the path before it ends.
SaveFits(t) ==
  /\ save[t].result # "none" => save[t].step \in {"ran", "sent", "mirror"}
  /\ save[t].step = "mirror" => save[t].result = "ok"
  /\ SaveAtWork(t) =>
       /\ save[t].was = tab[t].modified /\ save[t].text = tab[t].text
       /\ save[t].out \in {save[t].text, Tidied(save[t].text)}
       /\ save[t].pathGen <= tab[t].pathGen
       /\ save[t].pathGen = tab[t].pathGen /\ ~save[t].explicit => save[t].path = tab[t].path

\* A file of a clean tab holds what the tab shows, or its formatted text when a save
\* failed after its rename.
MayHold(t, text) ==
  \/ text = tab[t].text
  \/ t \in unconfirmed /\ text = Tidied(tab[t].text)
  \/ save[t].result = "after" /\ text = save[t].out

\* This goes for all the files of the tab, until a save of it succeeds.
Shown(t) ==
  ~tab[t].modified /\ save[t].result # "ok" =>
    \A p \in Paths : t \in disk[p].by => MayHold(t, disk[p].text)

\* No rename that has put the file of the tab at the path of its save has news to tell.
NoneAhead(t) ==
  \A i \in Ops : op[i].kind = "rename" /\ op[i].step \in {"ran", "sent"} =>
    op[i].old # tab[t].path \/ op[i].new # save[t].path

\* A save that succeeded left its text at its path, unless a rename has put an older
\* file of the tab there, whose news makes the save stale.
Written(t) ==
    /\ save[t].result = "ok" /\ save[t].pathGen = tab[t].pathGen /\ tab[t].open /\ NoneAhead(t)
    /\ t \in disk[save[t].path].by
  => disk[save[t].path].text = save[t].out

CleanInv == \A t \in Tabs : SaveFits(t) /\ (t \notin raced => Shown(t) /\ Written(t))
=============================================================================
