---------------------------- MODULE DocumentBuffer ----------------------------
(***************************************************************************)
(* The buffer of one editor and the workflows that own it in turn.         *)
(*                                                                         *)
(* A load (ui/editor_page/load/), a bounded replacement                    *)
(* (ui/editor_page/buffer_replacement/: a local-history restore, a memory  *)
(* eviction, the mirror-back of a formatted save) and the capture of a     *)
(* save each take several turns of the main loop.  What the user types     *)
(* meanwhile is held (held_input.rs) and settled afterwards.               *)
(*                                                                         *)
(* A text is a sequence of pieces: those of the body that was opened, or   *)
(* of a snapshot of local history, what the user typed, and the newline    *)
(* that formatting puts at the end.  A slice is a piece.  Generations are  *)
(* compared for equality only, so a ticket is a flag that the next advance *)
(* of a generation it holds takes down.                                    *)
(***************************************************************************)
EXTENDS Integers, Sequences, FiniteSets, SequencesExt

\* Bounds, one record of them in each behaviour: the pieces of a body, how
\* often the user and the rest of the program act, the calls that fail, and
\* whether the document is still being opened.
CONSTANT BufferWorlds

BufferBounds ==
  [size : Nat \ {0}, typed : Nat, looks : Nat, reloads : Nat, renames : Nat, evicts : Nat,
   restores : Nat, saves : Nat, faults : Nat, opening : BOOLEAN]

ASSUME BufferAssumption == BufferWorlds \subseteq BufferBounds

VARIABLES
  ed,    \* the editor: its buffer and who owns it
  file,  \* what is on disk under the editor's name
  left,  \* what is left of the bounds
  fate   \* what was typed, kept elsewhere or given up; the texts a formatted
         \* save left in a clean buffer; whether owners met

bufferVars == <<ed, file, left, fate>>

BodyOf(size, kind) == [i \in 1 .. size |-> <<kind, i>>]
Body(kind) == BodyOf(left.size, kind)

Typed(text) == {p \in ToSet(text) : p[1] = "typed"}

\* What formatting does to a text: it ends in a newline, unless it is empty.  (That
\* lines are trimmed too, or the newline removed, makes no difference here.)
Newline == <<"newline", 0>>
Formatted(text) ==
  IF text = <<>> \/ Last(text) = Newline THEN text ELSE Append(text, Newline)

\* A body and what was typed after it; or, of an emptied document, only that.
WholeOf(size, text) ==
  /\ text # <<>>
  /\ \E body \in {<<>>, BodyOf(size, "file"), BodyOf(size, "hist")} :
       /\ Len(body) =< Len(text)
       /\ \A i \in 1 .. Len(text) :
            IF i =< Len(body) THEN text[i] = body[i] ELSE text[i][1] \in {"typed", "newline"}
Whole(text) == WholeOf(left.size, text)

\* Sliced rather than direct.
Large(text) == Len(SelectSeq(text, LAMBDA p : p[1] \in {"file", "hist"})) > 1

NoLoad == [step |-> "none", error |-> "Failed", phase |-> "none", body |-> <<>>,
           parked |-> FALSE, user |-> FALSE]
NoRep  == [kind |-> "none", phase |-> "none", body |-> <<>>, started |-> FALSE, current |-> FALSE]
NoWrite == [step |-> "none", text |-> <<>>, out |-> <<>>, was |-> FALSE, required |-> FALSE,
           path |-> FALSE, ticket |-> FALSE, torn |-> FALSE, result |-> "none"]
NoHeld == [text |-> <<>>, broken |-> FALSE]
NoAsk  == [asked |-> FALSE, current |-> FALSE, typed |-> {}]

\* A tab that shows its file, or that has just begun to read it.
BufferInit ==
  /\ left \in BufferWorlds
  /\ file = Body("file")
  /\ ed = [text |-> IF left.opening THEN <<>> ELSE Body("file"), modified |-> FALSE,
           evicted |-> FALSE, partial |-> FALSE, incomplete |-> FALSE, failed |-> FALSE,
           state |-> IF left.opening THEN "Loading" ELSE "Loaded",
           shown |-> TRUE, requeue |-> FALSE,
           load |-> [NoLoad EXCEPT !.step = IF left.opening THEN "reading" ELSE "none"],
           rep |-> NoRep, waiting |-> NoRep, save |-> NoWrite, held |-> NoHeld, hist |-> NoAsk]
  /\ fate = [typed |-> 0, kept |-> {}, stray |-> {}, bare |-> {}, crossed |-> FALSE]

Texts == Seq({"file", "hist", "typed", "newline"} \X Nat)

\* A load is in one stage at a time.
Loads == {l \in [step : {"none", "reading", "read", "error"}, error : {"Loaded", "Failed"},
                 phase : {"none", "clear", "insert", "cancel"}, body : Texts,
                 parked : BOOLEAN, user : BOOLEAN] :
            l.phase # "none" => l.step = "none"}
Reps  == [kind : {"none", "restore", "evict", "mirror"},
          phase : {"none", "clear", "insert", "cancel"}, body : Texts,
          started : BOOLEAN, current : BOOLEAN]
Writes == [step : {"none", "queued", "capturing", "writing", "ran", "mirror"}, text : Texts,
           out : Texts, was : BOOLEAN, required : BOOLEAN, path : BOOLEAN, ticket : BOOLEAN,
           torn : BOOLEAN, result : {"none", "ok", "before", "after"}]
Editors == [text : Texts, modified : BOOLEAN, evicted : BOOLEAN, partial : BOOLEAN,
            incomplete : BOOLEAN, failed : BOOLEAN, state : {"Loading", "Loaded", "Failed"},
            shown : BOOLEAN, requeue : BOOLEAN, load : Loads, rep : Reps, waiting : Reps,
            save : Writes, held : [text : Seq({"typed"} \X Nat), broken : BOOLEAN],
            hist : [asked : BOOLEAN, current : BOOLEAN, typed : SUBSET ({"typed"} \X Nat)]]

\* A replacement has a phase, one that inserts has something left to insert,
\* and only one that empties the buffer again has a request behind it.
EditorOK(e) ==
  /\ e \in Editors
  /\ e.rep.kind # "none" <=> e.rep.phase # "none"
  /\ e.rep.phase = "insert" => e.rep.body # <<>>
  /\ e.rep.phase = "cancel" => e.rep.started
  /\ e.waiting.phase = "none" /\ ~e.waiting.started
  /\ e.waiting.kind # "none" => e.rep.phase = "cancel"

BufferTypeOK ==
  /\ EditorOK(ed) /\ file \in Texts /\ left \in BufferBounds
  /\ fate \in [typed : Nat, kept : SUBSET ({"typed"} \X Nat), stray : SUBSET ({"typed"} \X Nat),
                bare : SUBSET Texts, crossed : BOOLEAN]

-----------------------------------------------------------------------------
(* What the rest of the program asks of the editor. *)

Installing(e) == e.load.phase # "none"
Replacing(e)  == e.rep.kind # "none"
Writing(e)    == e.save.step \in {"capturing", "writing", "ran", "mirror"}
Locked(e)     == Installing(e) \/ Replacing(e) \/ Writing(e)
Evicting(e)   == e.rep.kind = "evict"
HoldsInput(e) == Locked(e) \/ e.state = "Loading" \/ e.held.text # <<>>

\* is_modified: a load or an eviction at work changes nothing of the user's.
Dirty(e) == e.modified /\ ~Installing(e) /\ ~Evicting(e)

\* Mutant: whatever the last replacement left is the document.
TrustsCleared(e) == e.incomplete \/ Installing(e) \/ Evicting(e) \/ e.evicted

\* buffer_holds_no_whole_document.
NoWholeDocument(e) ==
  \/ e.incomplete \/ Installing(e) \/ Evicting(e) \/ e.evicted
  \/ e.partial /\ ~e.modified

-----------------------------------------------------------------------------
(* Changes of one editor, and what each brings with it. *)

\* The requests of these kinds no longer find what they were made for.
Outdate(e, kinds) ==
  LET late(r) == IF r.kind \in kinds THEN [r EXCEPT !.current = FALSE] ELSE r
  IN  [e EXCEPT !.rep = late(@), !.waiting = late(@)]

\* notify_memory_policy_changed advances the generation an eviction holds.
Notify(e) == Outdate(e, {"evict"})

\* The edit or the path generation advances.
Advance(e) ==
  Outdate([e EXCEPT !.save.ticket = FALSE, !.hist.current = FALSE], {"restore"})

\* The buffer changes: GTK marks it modified, and a capture under way is torn.
Put(e, text) ==
  [e EXCEPT !.text = text, !.modified = TRUE,
            !.save.torn = @ \/ e.save.step = "capturing"]

ClearSlice(e) == IF e.text = <<>> THEN e ELSE Put(e, Tail(e.text))

\* unlock_edits: what an owner left in the buffer decides about held text.
Unlock(e, content) ==
  IF e.held.text = <<>> \/ content = "unchanged" THEN e
  ELSE [e EXCEPT !.held.broken = content = "unpublished"]

\* The text goes in as the user's own edit.
Insert(e, text) == Notify(Advance(Put(e, e.text \o text)))

EndSaveAs(e, modified) ==
  Notify([Unlock(e, "unchanged") EXCEPT !.save = NoWrite, !.modified = modified])

\* finish_accepted_save, finish_save_formatting_without_acceptance.
Accepted(e)   == [EndSaveAs(e, FALSE) EXCEPT !.state = "Loaded", !.failed = FALSE]
Unaccepted(e) == EndSaveAs(e, TRUE)

-----------------------------------------------------------------------------
(* Bounded replacement: buffer_replacement/execution.rs. *)

IsCurrent(e, r) ==
  CASE r.kind = "restore" -> r.current
    [] r.kind = "mirror"  -> e.save.ticket
    [] r.kind = "evict"   -> /\ r.current /\ e.held.text = <<>> /\ ~e.evicted
                             /\ e.save.step = "none" /\ e.state = "Loaded" /\ ~e.failed

\* What each workflow does with the outcome.
Answered(e, r, complete) ==
  CASE r.kind = "restore" ->
         IF complete /\ r.current THEN Notify([e EXCEPT !.modified = TRUE]) ELSE e
    [] r.kind = "mirror" ->
         IF complete /\ e.save.ticket THEN Accepted(e) ELSE Unaccepted(e)
    [] r.kind = "evict" ->
         IF (complete /\ r.current) \/ (~complete /\ e.partial)
         THEN Notify([e EXCEPT !.evicted = TRUE, !.modified = FALSE,
                               !.requeue = @ \/ ~complete])
         ELSE e

\* finish_session: a buffer emptied by a cancelled session is not modified.
Outcome(e, complete) ==
  LET r       == e.rep
      emptied == ~complete /\ r.started
      content == IF complete THEN "whole" ELSE IF emptied THEN "unpublished" ELSE "unchanged"
      done    == [e EXCEPT !.partial  = ~complete /\ (@ \/ emptied),
                           !.modified = @ /\ ~emptied]
  IN  [Answered(Unlock(done, content), r, complete) EXCEPT !.rep = NoRep]

\* Directly in this turn, or in slices.
BeginRep(e, r) ==
  IF Large(e.text) \/ Large(r.body) THEN [e EXCEPT !.rep = [r EXCEPT !.phase = "clear"]]
  ELSE LET begun == [e EXCEPT !.rep = [r EXCEPT !.phase = "clear"]]
       IN  IF IsCurrent(begun, r) THEN Outcome(Put(begun, r.body), TRUE)
           ELSE Outcome(begun, FALSE)

\* Mutant: the request that waited begins and waits on.
KeepsRequest(e, complete) ==
  LET ended == Outcome(e, complete)
  IN  IF ended.waiting.kind = "none" THEN ended ELSE BeginRep(ended, ended.waiting)

\* The newest request that waited begins.
FinishRep(e, complete) ==
  LET ended == Outcome(e, complete)
  IN  IF ended.waiting.kind = "none" THEN ended
      ELSE BeginRep([ended EXCEPT !.waiting = NoRep], ended.waiting)

\* Mutant: a session that was cancelled leaves the buffer as it is.
LeavesHalf(e) == FinishRep([e EXCEPT !.rep.started = FALSE], FALSE)

\* cancel_session: a buffer already changed is emptied first.
CancelRep(e) ==
  IF e.rep.started THEN [e EXCEPT !.rep.phase = "cancel", !.rep.body = <<>>]
  ELSE FinishRep(e, FALSE)

Displaced(e, r) == IF r.kind = "mirror" THEN Unaccepted(e) ELSE e

\* accept_request: supersede the owner, wait while it cleans up.
AcceptRep(e, r) ==
  IF ~Replacing(e) THEN BeginRep(e, r)
  ELSE LET freed == CancelRep(e)
       IN  IF ~Replacing(freed) THEN BeginRep(freed, r)
           ELSE [Displaced(freed, freed.waiting) EXCEPT !.waiting = r]

RepRequest(kind, body) == [NoRep EXCEPT !.kind = kind, !.body = body, !.current = TRUE]

\* run_turn: one slice.
RepTurned(e) ==
  LET r     == e.rep
      clear == ClearSlice([e EXCEPT !.rep.started = @ \/ e.text # <<>>])
      grown == [Put(e, Append(e.text, Head(r.body))) EXCEPT !.rep.body = Tail(@), !.rep.started = TRUE]
  IN  IF r.phase = "cancel" THEN IF clear.text = <<>> THEN FinishRep(clear, FALSE) ELSE clear
      ELSE IF ~IsCurrent(e, r) THEN CancelRep(e)
      ELSE IF r.phase = "insert" THEN IF grown.rep.body = <<>> THEN FinishRep(grown, TRUE) ELSE grown
      ELSE IF clear.text # <<>> THEN clear
      ELSE IF r.body = <<>> THEN FinishRep(clear, TRUE)
      ELSE [clear EXCEPT !.rep.phase = "insert"]

-----------------------------------------------------------------------------
(* Loading: load/admission.rs, execution.rs and retirement.rs. *)

\* abort_installation: the rest of the partial buffer goes in slices.
Abort(e) ==
  IF e.load.phase \in {"clear", "insert"}
  THEN [e EXCEPT !.load.phase = "cancel", !.load.body = <<>>, !.incomplete = TRUE]
  ELSE e

LoadCancelled(e) == Notify([e EXCEPT !.state = "Failed", !.failed = TRUE])

CancelLoad(e) ==
  LET loading == e.state = "Loading"
      stopped == Abort([e EXCEPT !.load.parked = FALSE, !.load.step = "none",
                                 !.load.user = loading /\ Installing(e), !.save.ticket = FALSE])
  IN  IF loading /\ ~Installing(e) THEN LoadCancelled(stopped) ELSE stopped

\* begin_load_request: an installation under way is cancelled first.
BeginLoad(e) ==
  IF Installing(e) THEN Abort([e EXCEPT !.load.parked = TRUE])
  ELSE Notify([e EXCEPT !.load.step = "reading", !.state = "Loading", !.failed = FALSE,
                        !.load.error = IF e.state = "Loaded" THEN "Loaded" ELSE "Failed",
                        !.save.ticket = FALSE])

\* complete_loaded_installation.
Published(e) ==
  LET whole == [e EXCEPT !.modified = FALSE, !.failed = FALSE, !.incomplete = FALSE,
                         !.partial = FALSE, !.evicted = FALSE, !.state = "Loaded",
                         !.load = [NoLoad EXCEPT !.error = e.load.error]]
  IN  Notify(Unlock(whole, "whole"))

Delivered(e) ==
  IF e.load.step = "error"
  THEN Notify([e EXCEPT !.load.step = "none", !.state = e.load.error, !.failed = TRUE])
  ELSE IF Large(e.text) \/ Large(e.load.body)
       THEN [e EXCEPT !.load.step = "none", !.load.phase = "clear"]
       ELSE Published(Put([e EXCEPT !.load.step = "none"], e.load.body))

\* run_cancelled_clear_slice, at its end.
ClearedAway(e) ==
  LET empty == Unlock([e EXCEPT !.modified = FALSE, !.load.phase = "none",
                                !.load.user = FALSE, !.load.parked = FALSE], "unpublished")
      told  == IF e.load.user THEN LoadCancelled(empty) ELSE empty
  IN  IF e.load.parked THEN BeginLoad(told) ELSE told

\* run_install_slice: one slice.
InstallTurned(e) ==
  LET clear == ClearSlice(e)
      grown == IF e.load.body = <<>> THEN e
               ELSE [Put(e, Append(e.text, Head(e.load.body))) EXCEPT !.load.body = Tail(@)]
  IN  CASE e.load.phase = "insert" -> IF grown.load.body = <<>> THEN Published(grown) ELSE grown
        [] e.load.phase = "clear"  -> IF clear.text # <<>> THEN clear
                                      ELSE [clear EXCEPT !.load.phase = "insert"]
        [] e.load.phase = "cancel" -> IF clear.text = <<>> THEN ClearedAway(clear) ELSE clear

-----------------------------------------------------------------------------
(* The user. *)

Spend(what) == left[what] > 0 /\ left' = [left EXCEPT ![what] = @ - 1]

\* What the buffer was put to without ever having held a document, and two
\* owners at one time: NoOwnersMet says where the properties stop.
Crossing(test) == fate' = [fate EXCEPT !.crossed = @ \/ test]
LoadInFlight(e) == e.state = "Loading" \/ e.load.step # "none" \/ Installing(e)

\* Typing: held while a workflow owns the buffer.  Text typed into a tab whose
\* document is not in memory is not the document's.
Type ==
  LET p == <<<<"typed", fate.typed + 1>>>>
  IN  /\ ed.shown /\ Spend("typed")
      /\ ed' = IF HoldsInput(ed)
               THEN [ed EXCEPT !.held.text = @ \o p,
                               !.held.broken = @ /\ ed.held.text # <<>>]
               ELSE Insert(ed, p)
      /\ fate' = [fate EXCEPT !.typed = @ + 1, !.stray =
                    IF ~HoldsInput(ed) /\ (ed.evicted \/ ed.incomplete \/ ed.state = "Failed")
                    THEN @ \cup ToSet(p) ELSE @]
      /\ UNCHANGED file

\* The tab is selected, which reloads an evicted document, or another one is.
Select ==
  /\ ~ed.shown /\ Spend("looks")
  /\ LET seen == Notify([ed EXCEPT !.shown = TRUE])
     IN  ed' = IF seen.evicted THEN BeginLoad(seen) ELSE seen
  /\ UNCHANGED <<file, fate>>

Deselect ==
  /\ ed.shown /\ Spend("looks")
  /\ ed' = [ed EXCEPT !.shown = FALSE]
  /\ UNCHANGED <<file, fate>>

\* The user discards the changes, or retries a load that failed.
Reload ==
  /\ ed.shown /\ Spend("reloads")
  /\ ed' = BeginLoad(ed)
  /\ fate' = [fate EXCEPT !.stray = @ \cup Typed(ed.text)]
  /\ UNCHANGED file

\* A run of Replace All changed the file and reloads a tab without changes.
ReloadAffected ==
  /\ ~Dirty(ed) /\ ed.held.text = <<>> /\ ed.save.step = "none" /\ Spend("reloads")
  /\ ed' = BeginLoad(ed)
  /\ UNCHANGED <<file, fate>>

\* The sidebar renamed the file: the tab gets the new name, and is Loaded.
Renamed ==
  /\ Spend("renames")
  /\ ed' = Advance([ed EXCEPT !.save.path = FALSE, !.state = "Loaded"])
  /\ Crossing(ed.state # "Loaded")
  /\ UNCHANGED file

\* evict, of a tab in the background: eligible_for_memory_eviction.
Evict ==
  /\ ~ed.shown /\ ~ed.evicted /\ ~Dirty(ed) /\ ~HoldsInput(ed)
  /\ ed.save.step = "none" /\ ed.state = "Loaded" /\ ~ed.failed
  /\ Spend("evicts")
  /\ ed' = AcceptRep(ed, RepRequest("evict", <<>>))
  /\ UNCHANGED <<file, fate>>

\* The history dialog captures the text and the identity of the editor.
AskRestore ==
  /\ ed.shown /\ ~ed.hist.asked /\ Spend("restores")
  /\ ed' = [ed EXCEPT !.hist = [asked |-> TRUE, current |-> TRUE, typed |-> Typed(ed.text)]]
  /\ UNCHANGED <<file, fate>>

\* queue_save_request: refused while anything else owns the buffer.
RequestSave ==
  /\ ed.shown /\ ed.state # "Loading" /\ ~NoWholeDocument(ed)
  /\ ~Replacing(ed) /\ ed.save.step = "none" /\ Spend("saves")
  /\ ed' = Notify([ed EXCEPT !.save = [NoWrite EXCEPT !.step = "queued", !.path = TRUE,
                                                      !.required = Dirty(ed)]])
  /\ Crossing(ed.state = "Failed")
  /\ UNCHANGED file

-----------------------------------------------------------------------------
(* The main loop and the workers. *)

\* Mutant: the gate is not asked again after the load was cancelled.
CapturesAnything(e) == FALSE

\* What the admission of a save looks at again, once it has cancelled a load.
RefusesCapture(e) == NoWholeDocument(e)

\* begin_admitted_save.
AdmitSave ==
  /\ ed.save.step = "queued"
  /\ LET fresh   == ed.save.path /\ (ed.save.required => Dirty(ed))
         stopped == CancelLoad(ed)
         drop(e) == Notify([e EXCEPT !.save = NoWrite])
         own     == [stopped EXCEPT !.save.ticket = TRUE, !.save.step = "capturing"]
     IN  ed' = IF ~fresh THEN drop(ed)
               ELSE IF RefusesCapture(stopped) THEN drop(stopped)
               ELSE IF Large(ed.text) THEN own
               ELSE [own EXCEPT !.save.step = "writing", !.save.text = ed.text, !.save.was = ed.modified]
  /\ UNCHANGED <<file, left, fate>>

\* The last turn of a capture in slices.
CaptureDone ==
  /\ ed.save.step = "capturing"
  /\ ed' = IF ed.save.torn
           THEN Notify([Unlock(ed, "unchanged") EXCEPT !.save = NoWrite])
           ELSE [ed EXCEPT !.save.step = "writing", !.save.text = ed.text, !.save.was = ed.modified]
  /\ UNCHANGED <<file, left, fate>>

\* The worker formats the text, if it is told to, and writes: the text counts as
\* saved.  Under a name the tab no longer has it writes another file.
WriteSave ==
  /\ ed.save.step = "writing"
  /\ \E result \in {"ok", "before", "after"}, out \in {ed.save.text, Formatted(ed.save.text)} :
       /\ IF result = "ok" THEN UNCHANGED left ELSE Spend("faults")
       /\ ed' = [ed EXCEPT !.save.step = "ran", !.save.result = result, !.save.out = out]
       /\ file' = IF result # "before" /\ ed.save.path THEN out ELSE file
       /\ fate' = IF result = "ok" THEN [fate EXCEPT !.kept = @ \cup Typed(ed.save.text)] ELSE fate

\* A buffer that was clean is clean again, and its file may be its formatted text.
LeavesBare(s) == s.ticket /\ s.result = "after" /\ ~s.was

\* The completion: nothing but what the editor still is may be accepted; and after a
\* failure the buffer is as modified as it was.
SaveAnswered ==
  LET s == ed.save
  IN  /\ s.step = "ran"
      /\ ed' = IF ~s.ticket THEN Unaccepted(ed)
               ELSE IF s.result # "ok" THEN EndSaveAs(ed, s.was)
               ELSE IF s.out = s.text THEN Accepted(ed)
               ELSE AcceptRep([ed EXCEPT !.save.step = "mirror"], RepRequest("mirror", s.out))
      /\ fate' = [fate EXCEPT !.crossed = @ \/ LoadInFlight(ed),
                              !.bare = IF LeavesBare(s) THEN @ \cup {ed.text} ELSE @]
      /\ UNCHANGED <<file, left>>

\* The worker of a restore has kept the text as a safety snapshot, or could not; the
\* answer is delivered.
RestoreReady ==
  /\ ed.hist.asked
  /\ LET e == [ed EXCEPT !.hist = NoAsk]
     IN  \/ /\ ed' = IF ed.hist.current THEN AcceptRep(e, RepRequest("restore", Body("hist"))) ELSE e
            /\ fate' = [fate EXCEPT
                 !.kept = @ \cup ed.hist.typed,
                 !.crossed = @ \/ (ed.hist.current /\ (LoadInFlight(ed) \/ ed.save.step # "none"))]
            /\ UNCHANGED left
         \/ ed' = e /\ Spend("faults") /\ UNCHANGED fate
  /\ UNCHANGED file

RepTurn ==
  /\ Replacing(ed)
  /\ ed' = RepTurned(ed)
  /\ Crossing(ed.rep.kind = "mirror" /\ ed.rep.started /\ ~IsCurrent(ed, ed.rep))
  /\ UNCHANGED <<file, left>>

InstallTurn ==
  /\ Installing(ed)
  /\ ed' = InstallTurned(ed)
  /\ UNCHANGED <<file, left, fate>>

\* The worker of a load reads the file, or fails.
LoadRead ==
  /\ ed.load.step = "reading"
  /\ \/ ed' = [ed EXCEPT !.load.step = "read", !.load.body = file] /\ UNCHANGED left
     \/ ed' = [ed EXCEPT !.load.step = "error"] /\ Spend("faults")
  /\ UNCHANGED <<file, fate>>

LoadDeliver ==
  /\ ed.load.step \in {"read", "error"}
  /\ ed' = Delivered(ed)
  /\ Crossing(Replacing(ed))
  /\ UNCHANGED <<file, left>>

\* The idle source of an eviction that emptied a tab the user came back to.
ReloadEmptied ==
  /\ ed.requeue
  /\ LET e == [ed EXCEPT !.requeue = FALSE]
     IN  ed' = IF e.evicted /\ e.shown /\ e.state # "Loading" THEN BeginLoad(e) ELSE e
  /\ UNCHANGED <<file, left, fate>>

\* Mutant: held text goes into whatever is there.
ReplaysAnywhere(e) == TRUE

\* settle_verdict: whether held text may go into the buffer.
Replays(e) == ~e.evicted /\ e.state # "Failed" /\ ~e.incomplete /\ ~e.held.broken

\* Held text is settled once nothing owns the buffer: it is typed into the
\* document, or rescued into a tab of its own.
Settle ==
  /\ ed.held.text # <<>> /\ ~Locked(ed) /\ ed.state # "Loading"
  /\ LET free == [ed EXCEPT !.held = NoHeld]
     IN  IF Replays(ed)
         THEN ed' = Insert(free, ed.held.text) /\ UNCHANGED fate
         ELSE ed' = free /\ fate' = [fate EXCEPT !.kept = @ \cup ToSet(ed.held.text)]
  /\ UNCHANGED <<file, left>>

BufferMachine ==
  \/ AdmitSave \/ CaptureDone \/ WriteSave \/ SaveAnswered \/ RestoreReady \/ RepTurn
  \/ LoadRead \/ LoadDeliver \/ InstallTurn \/ ReloadEmptied \/ Settle

BufferNext ==
  \/ BufferMachine
  \/ Type \/ Select \/ Deselect \/ Reload \/ ReloadAffected
  \/ Renamed \/ Evict \/ AskRestore \/ RequestSave

BufferSpec == BufferInit /\ [][BufferNext]_bufferVars

\* The main loop dispatches its sources and workers return.
BufferFair == WF_bufferVars(BufferMachine)

-----------------------------------------------------------------------------
(* Properties *)

\* A tab at rest that says it has no changes shows what its file holds, and
\* its file holds a whole document: whatever loads, cancellations, evictions,
\* restores and formatted saves followed one another, an emptied or a
\* half-installed buffer neither counts as the document nor is written.  One
\* exception: when a formatted save of an unmodified tab fails after its rename,
\* the file is the formatted text, and the tab is clean with the text it had.
CleanIsWhole ==
  ~fate.crossed =>
    /\ Whole(file)
    /\ /\ ~Locked(ed) /\ ~LoadInFlight(ed) /\ ~ed.modified
       /\ ~ed.evicted /\ ~ed.partial /\ ~ed.incomplete /\ ed.state = "Loaded" /\ ~ed.failed
       => ed.text = file \/ (ed.text \in fate.bare /\ file = Formatted(ed.text))

\* What the user typed is never dropped before a save has written it: it is held,
\* or in the buffer, or in the file, or about to be put back, or in the safety
\* snapshot of a restore or a tab that was opened for it; but for what the user
\* gave up.
TypedKept ==
  ~fate.crossed =>
    \A n \in 1 .. fate.typed :
      LET p == <<"typed", n>>
      IN  \/ p \in fate.kept \cup fate.stray
          \/ \E text \in {ed.text, ed.held.text, file, ed.rep.body, ed.load.body} : p \in ToSet(text)

\* A tab at rest that nothing marks as changed, evicted or failed shows a whole
\* document: what one owner of the buffer put there no other has taken away.
ShownWhole ==
  ~Locked(ed) /\ ~LoadInFlight(ed) /\ ~ed.modified /\ ed.held.text = <<>>
  /\ ~ed.evicted /\ ~ed.partial /\ ~ed.incomplete /\ ed.state = "Loaded" /\ ~ed.failed
  => Whole(ed.text)

-----------------------------------------------------------------------------
(* The inductive invariant, as long as no two owners met. *)

\* What was typed and is neither held, kept nor given up: the buffer has it,
\* nobody owns the buffer but a save, whose text has it too, and a save that
\* succeeded, an eviction or a restore finds no such text.
Loose == {<<"typed", n>> : n \in 1 .. fate.typed}
           \ (fate.kept \cup fate.stray \cup ToSet(ed.held.text))

LooseShown(e, loose) ==
  loose # {} =>
    /\ loose \subseteq ToSet(e.text)
    /\ e.modified /\ ~e.evicted /\ ~e.incomplete /\ ~LoadInFlight(e) /\ ~Replacing(e)
    /\ e.hist.asked /\ e.hist.current => loose \subseteq e.hist.typed
    /\ e.save.step \in {"writing", "ran"} => e.save.was /\ loose \subseteq ToSet(e.save.text)
    /\ e.save.step = "ran" => e.save.result # "ok"

\* The buffer is being changed, was given up, or was emptied.
Changing(e) == Installing(e) \/ (Replacing(e) /\ e.rep.started)
Elsewhere(e) == Changing(e) \/ e.evicted \/ e.incomplete

\* Otherwise it holds a whole document, or none has come yet, or it was
\* emptied and nothing was typed since; and no save begins on either.
TextWhole(e, size) ==
  \/ Elsewhere(e) \/ WholeOf(size, e.text)
  \/ /\ e.text = <<>> /\ e.save.step = "none"
     /\ \/ e.state # "Loaded" /\ (e.load.step # "none" => e.load.error # "Loaded")
        \/ e.partial /\ ~e.modified

\* A load brings the file, and what is installed with what is still to come
\* is the file; but for a save that wrote meanwhile and has not answered.
LoadBrings(e, f, size) ==
  LET brings(text) == WholeOf(size, text) /\ (e.save.step # "ran" => text = f)
  IN  /\ LoadInFlight(e) <=> e.state = "Loading"
      /\ e.load.step = "read" \/ e.load.phase = "clear" => brings(e.load.body)
      /\ e.load.phase = "insert" => brings(e.text \o e.load.body)
      /\ e.load.phase = "cancel" => e.incomplete /\ (e.load.parked \/ e.load.user)

\* A replacement installs a whole document, the mirror-back what was written;
\* an eviction none; and only a restore waits.
RepBrings(e, f, size) ==
  LET r == e.rep
      brings(text) == WholeOf(size, text) /\ (r.kind = "mirror" /\ e.save.ticket => text = f)
  IN  /\ Replacing(e) => ~Installing(e)
      /\ r.kind = "mirror" <=> e.save.step = "mirror"
      /\ r.phase = "clear" => IF r.kind = "evict" THEN r.body = <<>> ELSE brings(r.body)
      /\ r.phase = "insert" => r.kind # "evict" /\ brings(e.text \o r.body)
      /\ r.phase = "cancel" => r.kind # "mirror"
      /\ e.waiting.kind \in {"none", "restore"}
      /\ e.waiting.kind = "restore" => WholeOf(size, e.waiting.body)

\* A save owns its text: with its ticket, it shows what it writes.
SaveHolds(e, f, size) ==
  LET s == e.save
  IN  /\ s.step \in {"queued", "capturing", "writing", "ran"} => ~Replacing(e)
      /\ Writing(e) /\ s.ticket => s.path /\ ~LoadInFlight(e)
      /\ s.step = "capturing" /\ ~s.torn => WholeOf(size, e.text)
      /\ s.step \in {"writing", "ran", "mirror"} => WholeOf(size, s.text)
      /\ s.step \in {"writing", "ran"} /\ s.ticket => e.text = s.text /\ e.modified = s.was
      /\ s.step \in {"ran", "mirror"} => s.out \in {s.text, Formatted(s.text)}
      /\ s.step = "ran" => s.result # "none" /\ (s.path /\ s.result # "before" => f = s.out)

\* What calls itself clean shows the file, or is one of the texts a failed save of the
\* formatted text left; but for a save that wrote and has not ended.
CleanShows(e, f, bare) ==
  /\ ~Elsewhere(e) /\ ~e.modified /\ ~e.partial /\ e.state = "Loaded" /\ ~e.failed
  /\ e.save.step = "ran" => e.save.ticket /\ e.save.result = "before"
  /\ e.save.step # "mirror"
  => e.text = f \/ (e.text \in bare /\ f = Formatted(e.text))

Sound(e, f, size, bare) ==
  /\ WholeOf(size, f) /\ TextWhole(e, size) /\ LoadBrings(e, f, size)
  /\ RepBrings(e, f, size) /\ SaveHolds(e, f, size) /\ CleanShows(e, f, bare)

BufferInv ==
  BufferTypeOK /\ (~fate.crossed => Sound(ed, file, left.size, fate.bare) /\ LooseShown(ed, Loose))

\* Typed text is held, the buffer is owned, or a save has not ended.
BufferWorking == ed.held.text # <<>> \/ Locked(ed) \/ ed.save.step # "none"
=============================================================================
