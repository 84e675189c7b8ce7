------------------------ MODULE DocumentBuffer_proofs ------------------------
(***************************************************************************)
(* Proofs about DocumentBuffer, for bodies of any size and any number of   *)
(* typed texts, looks, reloads, renames, evictions, restores, saves and    *)
(* failing calls: a clean tab shows its file, which is a whole document,   *)
(* and no typed text is lost, as long as no two owners of the buffer met.  *)
(*                                                                         *)
(* An operation of an editor has up to three lemmas: ...Is says what it    *)
(* changes, ...OK or ...Plain that the editor stays well formed, ...Sound  *)
(* that its text, load, replacement and save still fit its file.  Each     *)
(* action has one, ...Keeps: it keeps BufferInv.                           *)
(***************************************************************************)
EXTENDS DocumentBuffer, TLAPS

-----------------------------------------------------------------------------
(* Editors that differ in little.                                           *)

TypedTexts == Seq({"typed"} \X Nat)

LEMMA TypedIsText == TypedTexts \subseteq Texts
<1>1. {"typed"} \X Nat \subseteq {"file", "hist", "typed", "newline"} \X Nat
  OBVIOUS
<1> QED BY <1>1 DEF TypedTexts, Texts

\* The same request, but for its freshness.
SameRep(a, b) ==
  /\ a.kind = b.kind /\ a.phase = b.phase /\ a.body = b.body /\ a.started = b.started
  /\ a.current => b.current

\* The same editor, but for what only asks which requests are fresh.
Twin(d, e) ==
  /\ d \in Editors
  /\ d.text = e.text /\ d.modified = e.modified /\ d.evicted = e.evicted
  /\ d.partial = e.partial /\ d.incomplete = e.incomplete /\ d.failed = e.failed
  /\ d.state = e.state /\ d.load = e.load /\ d.save = e.save /\ d.held = e.held /\ d.hist = e.hist
  /\ SameRep(d.rep, e.rep) /\ SameRep(d.waiting, e.waiting)

\* The same requests and the same held text.
Plain(d, e) ==
  /\ d \in Editors /\ d.held.text = e.held.text
  /\ SameRep(d.rep, e.rep) /\ SameRep(d.waiting, e.waiting)

LEMMA LateOK ==
  ASSUME NEW r \in Reps, NEW kinds
  PROVE  LET l == IF r.kind \in kinds THEN [r EXCEPT !.current = FALSE] ELSE r
         IN  l \in Reps /\ SameRep(l, r)
  BY DEF Reps, SameRep

LEMMA OutdateTwin ==
  ASSUME NEW e \in Editors, NEW kinds
  PROVE  Twin(Outdate(e, kinds), e)
<1> DEFINE late(r) == IF r.kind \in kinds THEN [r EXCEPT !.current = FALSE] ELSE r
<1>1. e.rep \in Reps /\ e.waiting \in Reps
  BY DEF Editors
<1>2. /\ late(e.rep) \in Reps /\ late(e.waiting) \in Reps
      /\ SameRep(late(e.rep), e.rep) /\ SameRep(late(e.waiting), e.waiting)
  BY <1>1, LateOK
<1>3. Outdate(e, kinds) = [e EXCEPT !.rep = late(e.rep), !.waiting = late(e.waiting)]
  BY DEF Outdate
<1> HIDE DEF late
<1>4. Outdate(e, kinds) \in Editors
  BY <1>2, <1>3 DEF Editors
<1> QED BY <1>2, <1>3, <1>4 DEF Editors, Twin

LEMMA NotifyTwin ==
  ASSUME NEW e \in Editors
  PROVE  Twin(Notify(e), e)
  BY OutdateTwin DEF Notify

LEMMA TwinTwin ==
  ASSUME NEW c, NEW d, NEW e, Twin(c, d), Twin(d, e)
  PROVE  Twin(c, e)
  BY DEF Twin, SameRep

LEMMA TwinPlain ==
  ASSUME NEW c, NEW d, NEW e, Twin(c, d), Plain(d, e)
  PROVE  Plain(c, e)
  BY DEF Twin, Plain, SameRep

LEMMA PlainPlain ==
  ASSUME NEW c, NEW d, NEW e, Plain(c, d), Plain(d, e)
  PROVE  Plain(c, e)
  BY DEF Plain, SameRep

LEMMA PlainSelf ==
  ASSUME NEW e \in Editors
  PROVE  Plain(e, e)
  BY DEF Plain, SameRep

LEMMA PlainOK ==
  ASSUME NEW d, NEW e, EditorOK(e), Plain(d, e)
  PROVE  EditorOK(d)
  BY DEF EditorOK, Plain, SameRep

LEMMA AdvanceTwin ==
  ASSUME NEW e \in Editors
  PROVE  /\ [e EXCEPT !.save.ticket = FALSE, !.hist.current = FALSE] \in Editors
         /\ Twin(Advance(e), [e EXCEPT !.save.ticket = FALSE, !.hist.current = FALSE])
<1>1. [e EXCEPT !.save.ticket = FALSE, !.hist.current = FALSE] \in Editors
  BY DEF Editors, Writes
<1> QED BY <1>1, OutdateTwin DEF Advance

LEMMA PutPlain ==
  ASSUME NEW e \in Editors, NEW text \in Texts
  PROVE  Plain(Put(e, text), e)
  BY DEF Put, Editors, Writes, Plain, SameRep

LEMMA TextOps ==
  ASSUME NEW text \in Texts
  PROVE  /\ <<>> \in Texts
         /\ text # <<>> => Tail(text) \in Texts /\ \A t \in Texts : Append(t, Head(text)) \in Texts
         /\ \A t \in Texts : text \o t \in Texts
  BY DEF Texts

LEMMA ClearSlicePlain ==
  ASSUME NEW e \in Editors
  PROVE  Plain(ClearSlice(e), e)
<1>1. e.text \in Texts
  BY DEF Editors
<1> QED BY <1>1, TextOps, PutPlain, PlainSelf DEF ClearSlice

LEMMA UnlockPlain ==
  ASSUME NEW e \in Editors, NEW content
  PROVE  Plain(Unlock(e, content), e)
<1> DEFINE x == [e EXCEPT !.held.broken = content = "unpublished"]
<1>1. (content = "unpublished") \in BOOLEAN
  OBVIOUS
<1>2. Plain(x, e)
  BY <1>1 DEF Editors, Plain, SameRep
<1> QED BY <1>2, PlainSelf DEF Unlock

LEMMA NoneOK ==
  /\ NoLoad \in Loads /\ NoRep \in Reps /\ NoWrite \in Writes
  /\ NoHeld \in [text : Seq({"typed"} \X Nat), broken : BOOLEAN]
  /\ NoAsk \in [asked : BOOLEAN, current : BOOLEAN, typed : SUBSET ({"typed"} \X Nat)]
  BY DEF NoLoad, NoRep, NoWrite, NoHeld, NoAsk, Loads, Reps, Writes, Texts

LEMMA EndSaveAsPlain ==
  ASSUME NEW e \in Editors, NEW modified \in BOOLEAN
  PROVE  Plain(EndSaveAs(e, modified), e)
<1> DEFINE u == Unlock(e, "unchanged")
           x == [u EXCEPT !.save = NoWrite, !.modified = modified]
<1>1. Plain(u, e)
  BY UnlockPlain
<1>2. Plain(x, u)
  <2> HIDE DEF u
  <2> QED BY <1>1, NoneOK DEF Plain, Editors, SameRep
<1>3. Twin(Notify(x), x)
  BY <1>2, NotifyTwin DEF Plain
<1>4. EndSaveAs(e, modified) = Notify(x)
  BY DEF EndSaveAs
<1> HIDE DEF u, x
<1> QED BY <1>1, <1>2, <1>3, <1>4, TwinPlain, PlainPlain

LEMMA EndsPlain ==
  ASSUME NEW e \in Editors
  PROVE  Plain(Accepted(e), e) /\ Plain(Unaccepted(e), e)
<1>1. Plain(EndSaveAs(e, FALSE), e) /\ Plain(EndSaveAs(e, TRUE), e)
  BY EndSaveAsPlain
<1> DEFINE w == EndSaveAs(e, FALSE)
           x == [w EXCEPT !.state = "Loaded", !.failed = FALSE]
<1>2. Accepted(e) = x
  BY DEF Accepted
<1> HIDE DEF w
<1>3. w \in Editors
  BY <1>1 DEF Plain, w
<1>4. x \in Editors
  BY <1>3 DEF Editors
<1>5. x.held = w.held /\ x.rep = w.rep /\ x.waiting = w.waiting
  BY <1>3 DEF Editors
<1> HIDE DEF x
<1>6. Plain(x, w)
  BY <1>4, <1>5 DEF Plain, SameRep
<1> QED BY <1>1, <1>2, <1>6, PlainPlain DEF Unaccepted, w

-----------------------------------------------------------------------------
(* What keeps an editor an editor, with the text it holds: replacements. *)

LEMMA AnsweredPlain ==
  ASSUME NEW e \in Editors, NEW r \in Reps, r.kind # "none", NEW complete \in BOOLEAN
  PROVE  Plain(Answered(e, r, complete), e)
<1>1. CASE r.kind = "restore"
  <2>1. Plain([e EXCEPT !.modified = TRUE], e)
    BY DEF Plain, Editors, SameRep
  <2>2. Plain(Notify([e EXCEPT !.modified = TRUE]), e)
    BY <2>1, NotifyTwin, TwinPlain DEF Plain
  <2>3. Answered(e, r, complete) \in {Notify([e EXCEPT !.modified = TRUE]), e}
    BY <1>1 DEF Answered
  <2> QED BY <2>2, <2>3, PlainSelf
<1>2. CASE r.kind = "mirror"
  BY <1>2, EndsPlain DEF Answered
<1>3. CASE r.kind = "evict"
  <2> DEFINE x == [e EXCEPT !.evicted = TRUE, !.modified = FALSE, !.requeue = @ \/ ~complete]
  <2>1. Plain(x, e)
    BY DEF Plain, Editors, SameRep
  <2>2. Answered(e, r, complete) \in {Notify(x), e}
    BY <1>3 DEF Answered
  <2> HIDE DEF x
  <2>3. Plain(Notify(x), e)
    BY <2>1, NotifyTwin, TwinPlain DEF Plain
  <2> QED BY <2>2, <2>3, PlainSelf
<1> QED BY <1>1, <1>2, <1>3 DEF Reps

\* The steps of Outcome.
Done(e, complete) ==
  LET emptied == ~complete /\ e.rep.started
  IN  [e EXCEPT !.partial = ~complete /\ (@ \/ emptied), !.modified = @ /\ ~emptied]
Verdict(e, complete) ==
  LET emptied == ~complete /\ e.rep.started
  IN  IF complete THEN "whole" ELSE IF emptied THEN "unpublished" ELSE "unchanged"

LEMMA OutcomeSteps ==
  ASSUME NEW e \in Editors, e.rep.kind # "none", NEW complete \in BOOLEAN
  PROVE  /\ Plain(Done(e, complete), e)
         /\ Plain(Unlock(Done(e, complete), Verdict(e, complete)), e)
         /\ Plain(Answered(Unlock(Done(e, complete), Verdict(e, complete)), e.rep, complete), e)
         /\ Outcome(e, complete)
              = [Answered(Unlock(Done(e, complete), Verdict(e, complete)), e.rep, complete)
                  EXCEPT !.rep = NoRep]
<1>0. e.rep \in Reps /\ e.rep.started \in BOOLEAN /\ e.partial \in BOOLEAN /\ e.modified \in BOOLEAN
  BY DEF Editors, Reps
<1>1. Plain(Done(e, complete), e)
  <2>1. ASSUME NEW p \in BOOLEAN, NEW m \in BOOLEAN
        PROVE  Plain([e EXCEPT !.partial = p, !.modified = m], e)
    BY DEF Plain, Editors, SameRep
  <2>2. /\ (~complete /\ (e.partial \/ (~complete /\ e.rep.started))) \in BOOLEAN
        /\ (e.modified /\ ~(~complete /\ e.rep.started)) \in BOOLEAN
    BY <1>0
  <2> QED BY <2>1, <2>2 DEF Done
<1>2. Plain(Unlock(Done(e, complete), Verdict(e, complete)), e)
  BY <1>1, UnlockPlain, PlainPlain DEF Plain
<1>3. Plain(Answered(Unlock(Done(e, complete), Verdict(e, complete)), e.rep, complete), e)
  <2> DEFINE u == Unlock(Done(e, complete), Verdict(e, complete))
  <2> HIDE DEF u
  <2>1. Plain(u, e) /\ u \in Editors
    BY <1>2 DEF Plain, u
  <2>2. Plain(Answered(u, e.rep, complete), u)
    BY <1>0, <2>1, AnsweredPlain
  <2> QED BY <2>1, <2>2, PlainPlain DEF u
<1>4. Outcome(e, complete)
       = [Answered(Unlock(Done(e, complete), Verdict(e, complete)), e.rep, complete)
           EXCEPT !.rep = NoRep]
  BY Zenon DEF Outcome, Done, Verdict
<1> QED BY <1>1, <1>2, <1>3, <1>4

LEMMA OutcomeOK ==
  ASSUME NEW e \in Editors, e.rep.kind # "none", NEW complete \in BOOLEAN
  PROVE  /\ Outcome(e, complete) \in Editors /\ Outcome(e, complete).held.text = e.held.text
         /\ Outcome(e, complete).rep = NoRep
         /\ SameRep(Outcome(e, complete).waiting, e.waiting)
<1> DEFINE a == Answered(Unlock(Done(e, complete), Verdict(e, complete)), e.rep, complete)
<1>1. Plain(a, e) /\ Outcome(e, complete) = [a EXCEPT !.rep = NoRep]
  BY OutcomeSteps
<1> DEFINE o == [a EXCEPT !.rep = NoRep]
<1> HIDE DEF a
<1>2. a \in Editors
  BY <1>1 DEF Plain
<1>3. o \in Editors
  BY <1>2, NoneOK DEF Editors
<1>4. o.held = a.held /\ o.rep = NoRep /\ o.waiting = a.waiting
  BY <1>2 DEF Editors
<1>5. Outcome(e, complete) = o
  BY <1>1
<1> HIDE DEF o
<1> QED BY <1>1, <1>3, <1>4, <1>5 DEF Plain

\* No request is behind the one at work.
NoneWaits(e) == e.waiting.kind = "none" /\ e.waiting.phase = "none" /\ ~e.waiting.started

LEMMA OutcomeEditorOK ==
  ASSUME NEW e \in Editors, e.rep.kind # "none", NEW complete \in BOOLEAN, NoneWaits(e)
  PROVE  EditorOK(Outcome(e, complete)) /\ NoneWaits(Outcome(e, complete))
  BY OutcomeOK DEF EditorOK, NoneWaits, SameRep, NoRep

\* A request that begins.
Begun(e, r) == [e EXCEPT !.rep = [r EXCEPT !.phase = "clear"]]

LEMMA BegunIs ==
  ASSUME NEW e \in Editors, NEW r \in Reps
  PROVE  /\ Begun(e, r) \in Editors /\ Begun(e, r).held = e.held /\ Begun(e, r).text = e.text
         /\ Begun(e, r).waiting = e.waiting
         /\ Begun(e, r).rep.kind = r.kind /\ Begun(e, r).rep.phase = "clear"
         /\ Begun(e, r).rep.body = r.body /\ Begun(e, r).rep.started = r.started
         /\ Begun(e, r).rep.current = r.current
<1> DEFINE c == [r EXCEPT !.phase = "clear"]
           b == [e EXCEPT !.rep = c]
<1>1. /\ c \in Reps /\ c.phase = "clear" /\ c.kind = r.kind /\ c.body = r.body
      /\ c.started = r.started /\ c.current = r.current
  BY DEF Reps
<1> HIDE DEF c
<1>2. b \in Editors
  BY <1>1 DEF Editors
<1>3. b.held = e.held /\ b.text = e.text /\ b.waiting = e.waiting /\ b.rep = c
  BY DEF Editors
<1> HIDE DEF b
<1>4. Begun(e, r) = b
  BY DEF Begun, b, c
<1> QED BY <1>1, <1>2, <1>3, <1>4

LEMMA BeginRepOK ==
  ASSUME NEW e \in Editors, NEW r \in Reps, r.kind # "none", ~r.started, NoneWaits(e)
  PROVE  /\ EditorOK(BeginRep(e, r)) /\ NoneWaits(BeginRep(e, r))
         /\ BeginRep(e, r).held.text = e.held.text
<1> DEFINE b == Begun(e, r)
           p == Put(b, r.body)
<1>1. /\ b \in Editors /\ b.held = e.held /\ NoneWaits(b) /\ b.rep.kind # "none"
      /\ EditorOK(b)
  BY BegunIs DEF EditorOK, NoneWaits
<1>2. Plain(p, b)
  BY <1>1, PutPlain DEF Reps
<1>3. p \in Editors /\ p.rep.kind # "none" /\ NoneWaits(p) /\ p.held.text = e.held.text
  BY <1>1, <1>2 DEF Plain, SameRep, NoneWaits
<1>4. BeginRep(e, r) \in {b, Outcome(p, TRUE), Outcome(b, FALSE)}
  BY DEF BeginRep, Begun
<1> HIDE DEF b, p
<1>5. /\ EditorOK(Outcome(p, TRUE)) /\ NoneWaits(Outcome(p, TRUE))
      /\ Outcome(p, TRUE).held.text = e.held.text
  BY <1>3, OutcomeOK, OutcomeEditorOK
<1>6. /\ EditorOK(Outcome(b, FALSE)) /\ NoneWaits(Outcome(b, FALSE))
      /\ Outcome(b, FALSE).held.text = e.held.text
  BY <1>1, OutcomeOK, OutcomeEditorOK
<1> QED BY <1>1, <1>4, <1>5, <1>6

\* The editor a waiting request begins on.
Freed(e, complete) == [Outcome(e, complete) EXCEPT !.waiting = NoRep]

LEMMA FinishRepOK ==
  ASSUME NEW e \in Editors, e.rep.kind # "none", NEW complete \in BOOLEAN,
         e.waiting.phase = "none", ~e.waiting.started
  PROVE  /\ EditorOK(FinishRep(e, complete)) /\ NoneWaits(FinishRep(e, complete))
         /\ FinishRep(e, complete).held.text = e.held.text
         /\ e.waiting.kind = "none" => FinishRep(e, complete).rep.kind = "none"
<1> DEFINE o == Outcome(e, complete)
           f == Freed(e, complete)
<1>1. /\ o \in Editors /\ o.held.text = e.held.text /\ o.rep = NoRep /\ SameRep(o.waiting, e.waiting)
  BY OutcomeOK
<1>2. CASE e.waiting.kind = "none"
  <2>1. FinishRep(e, complete) = o
    BY <1>1, <1>2 DEF FinishRep, SameRep
  <2>2. NoneWaits(e)
    BY <1>2 DEF NoneWaits
  <2> QED BY <1>1, <2>1, <2>2, OutcomeEditorOK DEF NoRep
<1>3. CASE e.waiting.kind # "none"
  <2>1. FinishRep(e, complete) = BeginRep(f, o.waiting)
    BY <1>1, <1>3 DEF FinishRep, SameRep, Freed
  <2>2. f \in Editors /\ f.held = o.held /\ f.waiting = NoRep
    <3> HIDE DEF o
    <3>1. f = [o EXCEPT !.waiting = NoRep]
      BY DEF o, Freed
    <3> QED BY <1>1, <3>1, NoneOK DEF Editors
  <2>3. o.waiting \in Reps /\ o.waiting.kind # "none" /\ ~o.waiting.started
    BY <1>1, <1>3 DEF Editors, SameRep
  <2>4. NoneWaits(f)
    BY <2>2 DEF NoneWaits, NoRep
  <2> HIDE DEF o, f
  <2> QED BY <1>1, <1>3, <2>1, <2>2, <2>3, <2>4, BeginRepOK
<1> QED BY <1>2, <1>3

\* A replacement that empties the buffer again.
Cancelling(e) == [e EXCEPT !.rep.phase = "cancel", !.rep.body = <<>>]

LEMMA CancellingIs ==
  ASSUME NEW e \in Editors
  PROVE  LET c == Cancelling(e)
         IN  /\ c \in Editors /\ c.held = e.held /\ c.waiting = e.waiting
             /\ c.rep.kind = e.rep.kind /\ c.rep.phase = "cancel" /\ c.rep.body = <<>>
             /\ c.rep.started = e.rep.started
<1> DEFINE r == [e.rep EXCEPT !.phase = "cancel", !.body = <<>>]
<1>1. e.rep \in Reps /\ <<>> \in Texts
  BY DEF Editors, Texts
<1>2. /\ r \in Reps /\ r.kind = e.rep.kind /\ r.phase = "cancel" /\ r.body = <<>>
      /\ r.started = e.rep.started
  BY <1>1 DEF Reps
<1>3. Cancelling(e) = [e EXCEPT !.rep = r]
  BY <1>1 DEF Cancelling, Editors, Reps
<1> HIDE DEF r
<1>4. [e EXCEPT !.rep = r] \in Editors
  BY <1>2 DEF Editors
<1> QED BY <1>2, <1>3, <1>4 DEF Editors

LEMMA CancelRepOK ==
  ASSUME NEW e, EditorOK(e), e.rep.kind # "none"
  PROVE  /\ EditorOK(CancelRep(e)) /\ CancelRep(e).held.text = e.held.text
         /\ CancelRep(e).rep.kind # "none" =>
              /\ CancelRep(e).rep.phase = "cancel" /\ CancelRep(e).rep.started
              /\ CancelRep(e).waiting = e.waiting
         /\ CancelRep(e).rep.kind = "none" => NoneWaits(CancelRep(e))
<1>1. CASE e.rep.started
  BY <1>1, CancellingIs DEF CancelRep, Cancelling, EditorOK
<1>2. CASE ~e.rep.started
  <2>1. NoneWaits(e) /\ e \in Editors
    BY <1>2 DEF EditorOK, NoneWaits
  <2> QED BY <1>2, <2>1, FinishRepOK DEF CancelRep, NoneWaits
<1> QED BY <1>1, <1>2

LEMMA AcceptRepOK ==
  ASSUME NEW e, EditorOK(e), NEW r \in Reps, r.kind # "none", r.phase = "none", ~r.started
  PROVE  EditorOK(AcceptRep(e, r)) /\ AcceptRep(e, r).held.text = e.held.text
<1>1. CASE ~Replacing(e)
  <2>1. NoneWaits(e) /\ e \in Editors
    BY <1>1 DEF EditorOK, NoneWaits, Replacing
  <2> QED BY <1>1, <2>1, BeginRepOK DEF AcceptRep
<1>2. CASE Replacing(e)
  <2> DEFINE c == CancelRep(e)
  <2>1. /\ EditorOK(c) /\ c.held.text = e.held.text
        /\ c.rep.kind # "none" => c.rep.phase = "cancel" /\ c.rep.started
        /\ c.rep.kind = "none" => NoneWaits(c)
    BY <1>2, CancelRepOK DEF Replacing
  <2>2. CASE ~Replacing(c)
    <3>1. AcceptRep(e, r) = BeginRep(c, r)
      BY <1>2, <2>2 DEF AcceptRep
    <3> HIDE DEF c
    <3> QED BY <2>1, <2>2, <3>1, BeginRepOK DEF EditorOK, Replacing
  <2>3. CASE Replacing(c)
    <3> DEFINE d == Displaced(c, c.waiting)
    <3>1. AcceptRep(e, r) = [d EXCEPT !.waiting = r]
      BY <1>2, <2>3 DEF AcceptRep
    <3> HIDE DEF c
    <3>2. Plain(d, c)
      BY <2>1, EndsPlain, PlainSelf DEF Displaced, EditorOK
    <3> HIDE DEF d
    <3>3. [d EXCEPT !.waiting = r] \in Editors /\ [d EXCEPT !.waiting = r].held = d.held
          /\ [d EXCEPT !.waiting = r].rep = d.rep /\ [d EXCEPT !.waiting = r].waiting = r
      BY <3>2 DEF Plain, Editors
    <3>4. EditorOK([d EXCEPT !.waiting = r])
      BY <2>1, <2>3, <3>2, <3>3 DEF EditorOK, Plain, SameRep, Replacing
    <3> QED BY <2>1, <3>1, <3>2, <3>3, <3>4 DEF Plain
  <2> QED BY <2>2, <2>3
<1> QED BY <1>1, <1>2

\* Any editor with another text, and what is left of a write of it.
Texted(e, t, s) == [e EXCEPT !.text = t, !.modified = TRUE, !.save = s]
Torn(s) == [s EXCEPT !.torn = @ \/ s.step = "capturing"]

LEMMA WithText ==
  ASSUME NEW e \in Editors, NEW t \in Texts, NEW s \in Writes
  PROVE  LET y == Texted(e, t, s)
         IN  /\ y \in Editors /\ y.held = e.held /\ y.waiting = e.waiting /\ y.rep = e.rep
             /\ y.text = t /\ y.modified
             /\ y.evicted = e.evicted /\ y.partial = e.partial /\ y.incomplete = e.incomplete
             /\ y.failed = e.failed /\ y.state = e.state /\ y.load = e.load /\ y.hist = e.hist
             /\ y.save = s
<1> DEFINE y == Texted(e, t, s)
<1>1. y \in Editors
  BY DEF Editors, Texted
<1>2. /\ y.held = e.held /\ y.waiting = e.waiting /\ y.rep = e.rep /\ y.text = t
      /\ y.modified /\ y.evicted = e.evicted /\ y.partial = e.partial
  BY DEF Editors, Texted
<1>3. /\ y.incomplete = e.incomplete /\ y.failed = e.failed /\ y.state = e.state
      /\ y.load = e.load /\ y.hist = e.hist /\ y.save = s
  BY DEF Editors, Texted
<1> QED BY <1>1, <1>2, <1>3

LEMMA TornIs ==
  ASSUME NEW s \in Writes
  PROVE  Torn(s) \in Writes /\ (s.step # "capturing" => Torn(s) = s)
BY DEF Torn, Writes

LEMMA PutTexts ==
  ASSUME NEW e \in Editors, NEW t
  PROVE  Put(e, t) = Texted(e, t, Torn(e.save))
<1>1. e.save \in Writes
  BY DEF Editors
<1> QED BY <1>1 DEF Put, Texted, Torn, Editors

\* Any editor with one slice less of text.
Sliced(e) == ClearSlice([e EXCEPT !.rep.started = @ \/ e.text # <<>>])

LEMMA SlicedIs ==
  ASSUME NEW e \in Editors
  PROVE  LET c == Sliced(e)
         IN  /\ c \in Editors /\ c.held = e.held /\ c.waiting = e.waiting
             /\ c.rep.kind = e.rep.kind /\ c.rep.phase = e.rep.phase /\ c.rep.body = e.rep.body
             /\ c.rep.current = e.rep.current
             /\ c.rep.started <=> (e.rep.started \/ e.text # <<>>)
             /\ c.text = IF e.text = <<>> THEN <<>> ELSE Tail(e.text)
             /\ c.modified <=> (e.modified \/ e.text # <<>>)
             /\ c.evicted = e.evicted /\ c.partial = e.partial /\ c.incomplete = e.incomplete
             /\ c.failed = e.failed /\ c.state = e.state /\ c.load = e.load /\ c.hist = e.hist
             /\ e.save.step # "capturing" => c.save = e.save
<1> DEFINE b == (e.rep.started \/ e.text # <<>>)
           x == [e EXCEPT !.rep.started = b]
<1>0. b \in BOOLEAN /\ e.rep \in Reps /\ e.text \in Texts /\ e.modified \in BOOLEAN /\ e.save \in Writes
  BY DEF Editors, Reps
<1> HIDE DEF b
<1>1. /\ x \in Editors /\ x.held = e.held /\ x.waiting = e.waiting
      /\ x.rep.kind = e.rep.kind /\ x.rep.phase = e.rep.phase /\ x.rep.body = e.rep.body
      /\ x.rep.current = e.rep.current /\ x.rep.started = b
      /\ x.text = e.text /\ x.modified = e.modified /\ x.save = e.save
      /\ x.evicted = e.evicted /\ x.partial = e.partial /\ x.incomplete = e.incomplete
      /\ x.failed = e.failed /\ x.state = e.state /\ x.load = e.load /\ x.hist = e.hist
  BY <1>0 DEF Editors, Reps
<1>2. Sliced(e) = IF x.text = <<>> THEN x ELSE Put(x, Tail(x.text))
  BY DEF Sliced, ClearSlice, b
<1> HIDE DEF x
<1>3. CASE e.text = <<>>
  BY <1>0, <1>1, <1>2, <1>3 DEF b
<1>4. CASE e.text # <<>>
  <2> DEFINE t == Tail(e.text)
             w == Torn(e.save)
             y == Texted(x, t, w)
  <2>1. t \in Texts /\ w \in Writes /\ (e.save.step # "capturing" => w = e.save)
    BY <1>0, <1>4, TextOps, TornIs
  <2>2. Sliced(e) = y
    BY <1>1, <1>2, <1>4, PutTexts
  <2> HIDE DEF t, w
  <2>3. /\ y \in Editors /\ y.held = x.held /\ y.waiting = x.waiting /\ y.rep = x.rep
        /\ y.text = t /\ y.modified
        /\ y.evicted = x.evicted /\ y.partial = x.partial /\ y.incomplete = x.incomplete
        /\ y.failed = x.failed /\ y.state = x.state /\ y.load = x.load /\ y.hist = x.hist
        /\ y.save = w
    <3>1. x \in Editors
      BY <1>1
    <3> QED BY <2>1, <3>1, WithText
  <2> HIDE DEF y
  <2>4. b /\ t = Tail(e.text)
    BY <1>4 DEF b, t
  <2> QED BY <1>0, <1>1, <1>4, <2>1, <2>2, <2>3, <2>4
<1> QED BY <1>3, <1>4

\* Any editor with one slice more of what a replacement installs.
Grown(e) ==
  [Put(e, Append(e.text, Head(e.rep.body))) EXCEPT !.rep.body = Tail(@), !.rep.started = TRUE]

LEMMA GrownIs ==
  ASSUME NEW e \in Editors, e.rep.body # <<>>
  PROVE  LET g == Grown(e)
         IN  /\ g \in Editors /\ g.held = e.held /\ g.waiting = e.waiting
             /\ g.rep.kind = e.rep.kind /\ g.rep.phase = e.rep.phase
             /\ g.rep.body = Tail(e.rep.body) /\ g.rep.current = e.rep.current /\ g.rep.started
             /\ g.text = Append(e.text, Head(e.rep.body)) /\ g.modified
             /\ g.evicted = e.evicted /\ g.partial = e.partial /\ g.incomplete = e.incomplete
             /\ g.failed = e.failed /\ g.state = e.state /\ g.load = e.load /\ g.hist = e.hist
             /\ e.save.step # "capturing" => g.save = e.save
<1> DEFINE t == Append(e.text, Head(e.rep.body))
           w == Torn(e.save)
           y == Texted(e, t, w)
           b == Tail(y.rep.body)
           g == [y EXCEPT !.rep.body = b, !.rep.started = TRUE]
<1>0. e.rep \in Reps /\ e.text \in Texts /\ e.rep.body \in Texts /\ e.save \in Writes
  BY DEF Editors, Reps
<1>1. t \in Texts /\ w \in Writes
  BY <1>0, TextOps, TornIs
<1>4. e.save.step # "capturing" => w = e.save
  BY <1>0, TornIs
<1>2. Grown(e) = g
  BY PutTexts DEF Grown
<1> HIDE DEF t, w
<1>3. /\ y \in Editors /\ y.held = e.held /\ y.waiting = e.waiting /\ y.rep = e.rep
      /\ y.text = t /\ y.modified
      /\ y.evicted = e.evicted /\ y.partial = e.partial /\ y.incomplete = e.incomplete
      /\ y.failed = e.failed /\ y.state = e.state /\ y.load = e.load /\ y.hist = e.hist
      /\ y.save = w
  BY <1>1, WithText
<1> HIDE DEF y
<1>5. b \in Texts /\ b = Tail(e.rep.body)
  BY <1>0, <1>3, TextOps
<1> HIDE DEF b
<1>6. /\ g \in Editors /\ g.held = y.held /\ g.waiting = y.waiting
      /\ g.rep.kind = y.rep.kind /\ g.rep.phase = y.rep.phase
      /\ g.rep.body = b /\ g.rep.current = y.rep.current /\ g.rep.started = TRUE
      /\ g.text = y.text /\ g.modified = y.modified /\ g.save = y.save
      /\ g.evicted = y.evicted /\ g.partial = y.partial /\ g.incomplete = y.incomplete
      /\ g.failed = y.failed /\ g.state = y.state /\ g.load = y.load /\ g.hist = y.hist
  <2> DEFINE r == [y.rep EXCEPT !.body = b, !.started = TRUE]
             h == [y EXCEPT !.rep = r]
  <2>0. y \in Editors /\ y.rep \in Reps
    BY <1>3 DEF Editors
  <2>1. /\ r \in Reps /\ r.kind = y.rep.kind /\ r.phase = y.rep.phase
        /\ r.body = b /\ r.current = y.rep.current /\ r.started = TRUE
    BY <1>5, <2>0 DEF Reps
  <2>2. g = h
    BY <2>0 DEF Editors, Reps
  <2> HIDE DEF r, g
  <2>3. h \in Editors
    BY <2>0, <2>1 DEF Editors
  <2>4. /\ h.held = y.held /\ h.waiting = y.waiting /\ h.rep = r /\ h.text = y.text
        /\ h.modified = y.modified /\ h.save = y.save /\ h.evicted = y.evicted
    BY <2>0 DEF Editors
  <2>5. /\ h.partial = y.partial /\ h.incomplete = y.incomplete /\ h.failed = y.failed
        /\ h.state = y.state /\ h.load = y.load /\ h.hist = y.hist
    BY <2>0 DEF Editors
  <2> HIDE DEF h
  <2> QED BY <2>1, <2>2, <2>3, <2>4, <2>5
<1> HIDE DEF g
<1> QED BY <1>2, <1>3, <1>4, <1>5, <1>6 DEF t

\* One turn of a replacement.
LEMMA RepTurnedCases ==
  ASSUME NEW e
  PROVE  LET r == e.rep
         IN  \/ r.phase = "cancel" /\ Sliced(e).text = <<>> /\ RepTurned(e) = FinishRep(Sliced(e), FALSE)
             \/ r.phase = "cancel" /\ Sliced(e).text # <<>> /\ RepTurned(e) = Sliced(e)
             \/ r.phase # "cancel" /\ ~IsCurrent(e, r) /\ RepTurned(e) = CancelRep(e)
             \/ /\ r.phase = "insert" /\ IsCurrent(e, r)
                /\ RepTurned(e) = IF Grown(e).rep.body = <<>> THEN FinishRep(Grown(e), TRUE) ELSE Grown(e)
             \/ /\ r.phase \notin {"cancel", "insert"} /\ IsCurrent(e, r) /\ Sliced(e).text # <<>>
                /\ RepTurned(e) = Sliced(e)
             \/ /\ r.phase \notin {"cancel", "insert"} /\ IsCurrent(e, r) /\ Sliced(e).text = <<>>
                /\ r.body = <<>> /\ RepTurned(e) = FinishRep(Sliced(e), TRUE)
             \/ /\ r.phase \notin {"cancel", "insert"} /\ IsCurrent(e, r) /\ Sliced(e).text = <<>>
                /\ r.body # <<>> /\ RepTurned(e) = [Sliced(e) EXCEPT !.rep.phase = "insert"]
  BY DEF RepTurned, Sliced, Grown

LEMMA RepTurnedOK ==
  ASSUME NEW e, EditorOK(e), Replacing(e)
  PROVE  EditorOK(RepTurned(e)) /\ RepTurned(e).held.text = e.held.text
<1> DEFINE c == Sliced(e)
           g == Grown(e)
<1>0. e \in Editors /\ e.rep.kind # "none" /\ e.waiting.phase = "none" /\ ~e.waiting.started
  BY DEF EditorOK, Replacing
<1>1. /\ c \in Editors /\ c.held = e.held /\ c.waiting = e.waiting /\ c.rep.kind # "none"
      /\ c.rep.phase = e.rep.phase /\ c.rep.body = e.rep.body /\ EditorOK(c)
  BY <1>0, SlicedIs DEF EditorOK
<1>2. ASSUME e.rep.phase = "insert"
      PROVE  /\ g \in Editors /\ g.held = e.held /\ g.waiting = e.waiting /\ g.rep.kind # "none"
             /\ g.rep.body # <<>> => EditorOK(g)
  BY <1>0, <1>2, GrownIs DEF EditorOK
<1> HIDE DEF c, g
<1>3. \A b \in BOOLEAN :
        /\ EditorOK(FinishRep(c, b)) /\ FinishRep(c, b).held.text = e.held.text
        /\ e.rep.phase = "insert" =>
             EditorOK(FinishRep(g, b)) /\ FinishRep(g, b).held.text = e.held.text
  BY <1>0, <1>1, <1>2, FinishRepOK
<1>4. ASSUME c.rep.body # <<>>, c.rep.phase = "clear"
      PROVE  EditorOK([c EXCEPT !.rep.phase = "insert"])
             /\ [c EXCEPT !.rep.phase = "insert"].held = c.held
  <2> DEFINE y == [c EXCEPT !.rep.phase = "insert"]
  <2>1. /\ y \in Editors /\ y.held = c.held /\ y.waiting = c.waiting /\ y.rep.kind = c.rep.kind
        /\ y.rep.phase = "insert" /\ y.rep.body = c.rep.body
    BY <1>1 DEF Editors, Reps
  <2> HIDE DEF y
  <2> QED BY <1>1, <1>4, <2>1 DEF EditorOK, y
<1>5. EditorOK(CancelRep(e)) /\ CancelRep(e).held.text = e.held.text
  BY <1>0, CancelRepOK
<1>6. e.rep.phase \in {"clear", "insert", "cancel"}
  BY <1>0 DEF EditorOK, Editors, Reps
<1>7. \/ RepTurned(e) \in {FinishRep(c, TRUE), FinishRep(c, FALSE), c, CancelRep(e)}
      \/ e.rep.phase = "insert" /\ RepTurned(e) \in {FinishRep(g, TRUE), g}
           /\ (RepTurned(e) = g => g.rep.body # <<>> \/ g = FinishRep(g, TRUE))
      \/ /\ c.rep.phase = "clear" /\ c.rep.body # <<>>
         /\ RepTurned(e) = [c EXCEPT !.rep.phase = "insert"]
  BY <1>1, <1>6, RepTurnedCases DEF c, g
<1> QED BY <1>1, <1>2, <1>3, <1>4, <1>5, <1>7

-----------------------------------------------------------------------------
(* What keeps an editor an editor, with the text it holds: loads. *)

\* All that a load leaves alone.
SameRest(d, e) ==
  /\ d.held = e.held /\ d.hist = e.hist /\ d.rep = e.rep /\ d.waiting = e.waiting
  /\ d.evicted = e.evicted /\ d.partial = e.partial

LEMMA WithLoad ==
  ASSUME NEW e \in Editors, NEW l \in Loads
  PROVE  LET x == [e EXCEPT !.load = l]
         IN  /\ x \in Editors /\ SameRest(x, e) /\ x.load = l
             /\ x.text = e.text /\ x.modified = e.modified /\ x.incomplete = e.incomplete
             /\ x.failed = e.failed /\ x.state = e.state /\ x.save = e.save
<1> DEFINE x == [e EXCEPT !.load = l]
<1>1. x \in Editors
  BY DEF Editors
<1>2. /\ x.load = l /\ x.text = e.text /\ x.modified = e.modified /\ x.incomplete = e.incomplete
      /\ x.failed = e.failed /\ x.state = e.state /\ x.save = e.save
  BY DEF Editors
<1>3. /\ x.held = e.held /\ x.hist = e.hist /\ x.rep = e.rep /\ x.waiting = e.waiting
      /\ x.evicted = e.evicted /\ x.partial = e.partial
  BY DEF Editors
<1> HIDE DEF x
<1> QED BY <1>1, <1>2, <1>3 DEF SameRest, x

LEMMA WithSave ==
  ASSUME NEW e \in Editors, NEW s \in Writes
  PROVE  LET x == [e EXCEPT !.save = s]
         IN  /\ x \in Editors /\ x.save = s
             /\ x.text = e.text /\ x.modified = e.modified /\ x.evicted = e.evicted
             /\ x.partial = e.partial /\ x.incomplete = e.incomplete /\ x.failed = e.failed
             /\ x.state = e.state /\ x.load = e.load /\ x.held = e.held
             /\ x.rep = e.rep /\ x.waiting = e.waiting /\ x.hist = e.hist
<1> DEFINE x == [e EXCEPT !.save = s]
<1>1. x \in Editors
  BY DEF Editors
<1>2. /\ x.save = s /\ x.text = e.text /\ x.modified = e.modified /\ x.evicted = e.evicted
      /\ x.partial = e.partial /\ x.incomplete = e.incomplete /\ x.failed = e.failed
  BY DEF Editors
<1>3. /\ x.state = e.state /\ x.load = e.load /\ x.held = e.held
      /\ x.rep = e.rep /\ x.waiting = e.waiting /\ x.hist = e.hist
  BY DEF Editors
<1> HIDE DEF x
<1> QED BY <1>1, <1>2, <1>3 DEF x

LEMMA AbortIs ==
  ASSUME NEW e \in Editors
  PROVE  /\ Abort(e) \in Editors /\ SameRest(Abort(e), e)
         /\ Abort(e).text = e.text /\ Abort(e).modified = e.modified /\ Abort(e).failed = e.failed
         /\ Abort(e).state = e.state /\ Abort(e).save = e.save
         /\ Abort(e).load.step = e.load.step
         /\ Abort(e).load.parked = e.load.parked /\ Abort(e).load.user = e.load.user
         /\ IF e.load.phase \in {"clear", "insert"}
            THEN Abort(e).load.phase = "cancel" /\ Abort(e).incomplete
            ELSE Abort(e) = e
<1>1. CASE e.load.phase \in {"clear", "insert"}
  <2> DEFINE l == [e.load EXCEPT !.phase = "cancel", !.body = <<>>]
             x == [e EXCEPT !.load = l, !.incomplete = TRUE]
  <2>1. e.load \in Loads
    BY DEF Editors
  <2>2. /\ l \in Loads /\ l.step = e.load.step /\ l.phase = "cancel"
        /\ l.parked = e.load.parked /\ l.user = e.load.user
    BY <1>1, <2>1, TextOps DEF Loads, Texts
  <2>3. Abort(e) = [e EXCEPT !.load.phase = "cancel", !.load.body = <<>>, !.incomplete = TRUE]
    BY <1>1 DEF Abort
  <2>4. Abort(e) = x
    BY <2>3 DEF Editors, Loads
  <2> HIDE DEF l
  <2>5. /\ x \in Editors /\ SameRest(x, e) /\ x.text = e.text /\ x.modified = e.modified
        /\ x.failed = e.failed /\ x.state = e.state /\ x.save = e.save /\ x.load = l
        /\ x.incomplete = TRUE
    BY <2>2 DEF Editors, SameRest
  <2> HIDE DEF x
  <2> QED BY <1>1, <2>2, <2>4, <2>5
<1>2. CASE e.load.phase \notin {"clear", "insert"}
  BY <1>2 DEF Abort, SameRest
<1> QED BY <1>1, <1>2

LEMMA RestPlain ==
  ASSUME NEW d \in Editors, NEW e, SameRest(d, e)
  PROVE  Plain(d, e)
  BY DEF SameRest, Plain, SameRep

LEMMA LoadCancelledTwin ==
  ASSUME NEW e \in Editors
  PROVE  LET x == [e EXCEPT !.state = "Failed", !.failed = TRUE]
         IN  /\ Twin(LoadCancelled(e), x) /\ x \in Editors /\ SameRest(x, e)
             /\ x.text = e.text /\ x.modified = e.modified /\ x.incomplete = e.incomplete
             /\ x.load = e.load /\ x.save = e.save /\ x.state = "Failed" /\ x.failed
<1> DEFINE x == [e EXCEPT !.state = "Failed", !.failed = TRUE]
<1>1. /\ x \in Editors /\ SameRest(x, e)
      /\ x.text = e.text /\ x.modified = e.modified /\ x.incomplete = e.incomplete
      /\ x.load = e.load /\ x.save = e.save /\ x.state = "Failed" /\ x.failed
  BY DEF Editors, SameRest
<1>2. LoadCancelled(e) = Notify(x)
  BY DEF LoadCancelled
<1> HIDE DEF x
<1>3. Twin(LoadCancelled(e), x)
  BY <1>1, <1>2, NotifyTwin
<1> QED BY <1>1, <1>3 DEF x

LEMMA LoadCancelledPlain ==
  ASSUME NEW e \in Editors
  PROVE  Plain(LoadCancelled(e), e)
<1> DEFINE x == [e EXCEPT !.state = "Failed", !.failed = TRUE]
<1>1. Twin(LoadCancelled(e), x) /\ x \in Editors /\ SameRest(x, e)
  BY LoadCancelledTwin
<1> HIDE DEF x
<1> QED BY <1>1, RestPlain, TwinPlain

\* A load that begins.
Reading(e) ==
  [e EXCEPT !.load.step = "reading", !.state = "Loading", !.failed = FALSE,
            !.load.error = IF e.state = "Loaded" THEN "Loaded" ELSE "Failed",
            !.save.ticket = FALSE]

LEMMA BeginLoadIs ==
  ASSUME NEW e \in Editors, ~Installing(e)
  PROVE  LET x == Reading(e)
         IN  /\ Twin(BeginLoad(e), x) /\ x \in Editors /\ SameRest(x, e)
             /\ x.text = e.text /\ x.modified = e.modified /\ x.incomplete = e.incomplete
             /\ x.load.step = "reading" /\ x.load.phase = "none"
             /\ e.state # "Loaded" => x.load.error = "Failed"
             /\ x.save = [e.save EXCEPT !.ticket = FALSE] /\ x.state = "Loading"
<1> DEFINE x == Reading(e)
           error == IF e.state = "Loaded" THEN "Loaded" ELSE "Failed"
           l == [e.load EXCEPT !.step = "reading", !.error = error]
           s == [e.save EXCEPT !.ticket = FALSE]
           y == [e EXCEPT !.load = l, !.state = "Loading", !.failed = FALSE, !.save = s]
<1>0. e.load \in Loads /\ e.save \in Writes /\ e.load.phase = "none"
  BY DEF Editors, Installing
<1>1. /\ l \in Loads /\ s \in Writes /\ l.step = "reading" /\ l.phase = "none"
      /\ e.state # "Loaded" => l.error = "Failed"
  BY <1>0 DEF Loads, Writes
<1>2. x = y
  BY <1>0 DEF Editors, Loads, Writes, Reading
<1> HIDE DEF l, s
<1>3. /\ y \in Editors /\ SameRest(y, e)
      /\ y.text = e.text /\ y.modified = e.modified /\ y.incomplete = e.incomplete
      /\ y.load = l /\ y.save = s /\ y.state = "Loading"
  BY <1>1 DEF Editors, SameRest
<1>4. BeginLoad(e) = Notify(x)
  BY DEF BeginLoad, Reading
<1>5. Twin(BeginLoad(e), x)
  BY <1>2, <1>3, <1>4, NotifyTwin
<1> HIDE DEF x, y
<1> QED BY <1>1, <1>2, <1>3, <1>5 DEF x, s

\* A load that waits until an installation is cleared away.
Parked(e) == [e EXCEPT !.load.parked = TRUE]

LEMMA ParkedIs ==
  ASSUME NEW e \in Editors
  PROVE  LET x == Parked(e)
         IN  /\ x \in Editors /\ SameRest(x, e)
             /\ x.text = e.text /\ x.modified = e.modified /\ x.incomplete = e.incomplete
             /\ x.failed = e.failed /\ x.state = e.state /\ x.save = e.save
             /\ x.load.step = e.load.step /\ x.load.phase = e.load.phase /\ x.load.body = e.load.body
             /\ x.load.parked
<1> DEFINE l == [e.load EXCEPT !.parked = TRUE]
<1>1. /\ l \in Loads /\ l.step = e.load.step /\ l.phase = e.load.phase /\ l.body = e.load.body
      /\ l.parked = TRUE
  BY DEF Editors, Loads
<1>2. Parked(e) = [e EXCEPT !.load = l]
  BY DEF Parked, Editors, Loads
<1> HIDE DEF l
<1> QED BY <1>1, <1>2, WithLoad

LEMMA BeginLoadPlain ==
  ASSUME NEW e \in Editors
  PROVE  Plain(BeginLoad(e), e)
<1>1. CASE Installing(e)
  <2>1. BeginLoad(e) = Abort(Parked(e))
    BY <1>1 DEF BeginLoad, Parked
  <2>2. Parked(e) \in Editors /\ Plain(Parked(e), e)
    BY ParkedIs, RestPlain
  <2>3. Plain(Abort(Parked(e)), Parked(e))
    BY <2>2, AbortIs, RestPlain
  <2> QED BY <2>1, <2>2, <2>3, PlainPlain
<1>2. CASE ~Installing(e)
  BY <1>2, BeginLoadIs, RestPlain, TwinPlain
<1> QED BY <1>1, <1>2

\* What the admission of a save makes of a load.
Stopping(e) ==
  [e EXCEPT !.load.parked = FALSE, !.load.step = "none",
            !.load.user = e.state = "Loading" /\ Installing(e), !.save.ticket = FALSE]

LEMMA StoppingIs ==
  ASSUME NEW e \in Editors
  PROVE  LET x == Stopping(e)
         IN  /\ x \in Editors /\ SameRest(x, e)
             /\ x.text = e.text /\ x.modified = e.modified /\ x.incomplete = e.incomplete
             /\ x.failed = e.failed /\ x.state = e.state
             /\ x.load.step = "none" /\ x.load.phase = e.load.phase /\ x.load.body = e.load.body
             /\ x.load.user <=> (e.state = "Loading" /\ Installing(e))
             /\ x.save = [e.save EXCEPT !.ticket = FALSE]
<1> DEFINE u == (e.state = "Loading" /\ Installing(e))
           l == [e.load EXCEPT !.parked = FALSE, !.step = "none", !.user = u]
           s == [e.save EXCEPT !.ticket = FALSE]
           y == [e EXCEPT !.load = l, !.save = s]
<1>0. e.load \in Loads /\ e.save \in Writes /\ u \in BOOLEAN
  BY DEF Editors
<1>a. Stopping(e) = [e EXCEPT !.load.parked = FALSE, !.load.step = "none",
                             !.load.user = u, !.save.ticket = FALSE]
  BY Zenon DEF Stopping
<1> HIDE DEF u
<1>1. Stopping(e) = y
  BY <1>0, <1>a DEF Editors, Loads, Writes
<1>2. /\ l \in Loads /\ s \in Writes /\ l.step = "none" /\ l.phase = e.load.phase
      /\ l.body = e.load.body /\ l.user = u
  BY <1>0 DEF Loads, Writes
<1> HIDE DEF l, s
<1>3. /\ y \in Editors /\ SameRest(y, e)
      /\ y.text = e.text /\ y.modified = e.modified /\ y.incomplete = e.incomplete
      /\ y.failed = e.failed /\ y.state = e.state /\ y.load = l /\ y.save = s
  BY <1>2 DEF Editors, SameRest
<1> HIDE DEF y
<1> QED BY <1>1, <1>2, <1>3 DEF s, u

LEMMA CancelLoadIs ==
  ASSUME NEW e \in Editors
  PROVE  LET a == Abort(Stopping(e))
         IN  /\ a \in Editors /\ SameRest(a, e)
             /\ CancelLoad(e) = IF e.state = "Loading" /\ ~Installing(e) THEN LoadCancelled(a) ELSE a
<1>1. Stopping(e) \in Editors /\ SameRest(Stopping(e), e)
  BY StoppingIs
<1>2. Abort(Stopping(e)) \in Editors /\ SameRest(Abort(Stopping(e)), Stopping(e))
  BY <1>1, AbortIs
<1>3. CancelLoad(e) = IF e.state = "Loading" /\ ~Installing(e) THEN LoadCancelled(Abort(Stopping(e)))
                      ELSE Abort(Stopping(e))
  BY DEF CancelLoad, Stopping
<1> QED BY <1>1, <1>2, <1>3 DEF SameRest

LEMMA CancelLoadPlain ==
  ASSUME NEW e \in Editors
  PROVE  Plain(CancelLoad(e), e)
<1> DEFINE a == Abort(Stopping(e))
<1>1. a \in Editors /\ Plain(a, e) /\ CancelLoad(e) \in {LoadCancelled(a), a}
  BY CancelLoadIs, RestPlain
<1> HIDE DEF a
<1>2. Plain(LoadCancelled(a), a)
  BY <1>1, LoadCancelledPlain
<1> QED BY <1>1, <1>2, PlainPlain

\* An installation that is published.
Whole0(e) ==
  [e EXCEPT !.modified = FALSE, !.failed = FALSE, !.incomplete = FALSE,
            !.partial = FALSE, !.evicted = FALSE, !.state = "Loaded",
            !.load = [NoLoad EXCEPT !.error = e.load.error]]

LEMMA PublishedIs ==
  ASSUME NEW e \in Editors
  PROVE  LET x == Unlock(Whole0(e), "whole")
         IN  /\ Twin(Published(e), x) /\ Plain(x, e)
             /\ x.text = e.text /\ ~x.modified /\ ~x.incomplete /\ ~x.partial /\ ~x.evicted
             /\ ~x.failed /\ x.state = "Loaded" /\ x.save = e.save
             /\ x.load.step = "none" /\ x.load.phase = "none" /\ x.hist = e.hist
<1> DEFINE l == [NoLoad EXCEPT !.error = e.load.error]
           w == Whole0(e)
           x == Unlock(w, "whole")
<1>1. l \in Loads /\ l.step = "none" /\ l.phase = "none"
  BY NoneOK DEF Editors, Loads, NoLoad
<1>2. w = [e EXCEPT !.modified = FALSE, !.failed = FALSE, !.incomplete = FALSE,
                    !.partial = FALSE, !.evicted = FALSE, !.state = "Loaded", !.load = l]
  BY DEF Whole0
<1> HIDE DEF l, w
<1>3. /\ w \in Editors /\ Plain(w, e)
      /\ w.text = e.text /\ ~w.modified /\ ~w.incomplete /\ ~w.partial /\ ~w.evicted
      /\ ~w.failed /\ w.state = "Loaded" /\ w.save = e.save /\ w.load = l /\ w.hist = e.hist
  BY <1>1, <1>2 DEF Editors, Plain, SameRep
<1>4. Plain(x, w)
  BY <1>3, UnlockPlain
<1>5. /\ x.text = w.text /\ x.modified = w.modified /\ x.incomplete = w.incomplete
      /\ x.partial = w.partial /\ x.evicted = w.evicted
      /\ x.failed = w.failed /\ x.state = w.state /\ x.save = w.save /\ x.load = w.load
      /\ x.hist = w.hist
  BY <1>3 DEF Unlock, Editors
<1>6. Published(e) = Notify(x)
  BY DEF Published, Whole0, w
<1> HIDE DEF x
<1>7. Twin(Published(e), x) /\ Plain(x, e)
  BY <1>3, <1>4, <1>6, NotifyTwin, PlainPlain DEF Plain
<1> QED BY <1>1, <1>3, <1>5, <1>7 DEF x, w

LEMMA PutIs ==
  ASSUME NEW e \in Editors, NEW text \in Texts
  PROVE  LET x == Put(e, text)
         IN  /\ x \in Editors /\ SameRest(x, e) /\ x.load = e.load
             /\ x.text = text /\ x.modified /\ x.incomplete = e.incomplete
             /\ x.failed = e.failed /\ x.state = e.state
             /\ x.save = IF e.save.step = "capturing" THEN [e.save EXCEPT !.torn = TRUE] ELSE e.save
<1> DEFINE torn == (e.save.torn \/ e.save.step = "capturing")
           s == [e.save EXCEPT !.torn = torn]
           y == [e EXCEPT !.text = text, !.modified = TRUE, !.save = s]
<1>0. e.save \in Writes /\ torn \in BOOLEAN
  BY DEF Editors, Writes
<1>1. Put(e, text) = [e EXCEPT !.text = text, !.modified = TRUE, !.save.torn = torn]
  BY DEF Put
<1>2. s = IF e.save.step = "capturing" THEN [e.save EXCEPT !.torn = TRUE] ELSE e.save
  BY <1>0 DEF Writes
<1> HIDE DEF torn
<1>3. s \in Writes /\ Put(e, text) = y
  BY <1>0, <1>1 DEF Editors, Writes
<1> HIDE DEF s
<1>4. /\ y \in Editors /\ SameRest(y, e) /\ y.load = e.load
      /\ y.text = text /\ y.modified = TRUE /\ y.incomplete = e.incomplete
      /\ y.failed = e.failed /\ y.state = e.state /\ y.save = s
  BY <1>3 DEF Editors, SameRest
<1> HIDE DEF y
<1> QED BY <1>2, <1>3, <1>4

\* A result of a load that is at hand.
TakenUp(e) == [e EXCEPT !.load.step = "none"]
Installed(e) == [e EXCEPT !.load.step = "none", !.load.phase = "clear"]
FailedLoad(e) == [e EXCEPT !.load.step = "none", !.state = e.load.error, !.failed = TRUE]

LEMMA DeliveredIs ==
  ASSUME NEW e \in Editors, e.load.step # "none"
  PROVE  /\ LET x == TakenUp(e)
            IN  /\ x \in Editors /\ SameRest(x, e) /\ x.text = e.text /\ x.modified = e.modified
                /\ x.incomplete = e.incomplete /\ x.failed = e.failed /\ x.state = e.state
                /\ x.save = e.save /\ x.load.step = "none" /\ x.load.phase = "none"
         /\ LET x == Installed(e)
            IN  /\ x \in Editors /\ SameRest(x, e) /\ x.text = e.text /\ x.modified = e.modified
                /\ x.incomplete = e.incomplete /\ x.failed = e.failed /\ x.state = e.state
                /\ x.save = e.save /\ x.load.step = "none" /\ x.load.phase = "clear"
                /\ x.load.body = e.load.body
         /\ LET x == FailedLoad(e)
            IN  /\ x \in Editors /\ SameRest(x, e) /\ x.text = e.text /\ x.modified = e.modified
                /\ x.incomplete = e.incomplete /\ x.failed /\ x.state \in {"Loaded", "Failed"}
                /\ x.save = e.save /\ x.load.step = "none" /\ x.load.phase = "none"
                /\ Twin(Notify(x), x)
         /\ Delivered(e) = IF e.load.step = "error" THEN Notify(FailedLoad(e))
                           ELSE IF Large(e.text) \/ Large(e.load.body) THEN Installed(e)
                           ELSE Published(Put(TakenUp(e), e.load.body))
<1>0. e.load \in Loads /\ e.load.phase = "none"
  BY DEF Editors, Loads
<1> DEFINE t == [e.load EXCEPT !.step = "none"]
           i == [e.load EXCEPT !.step = "none", !.phase = "clear"]
<1>1. /\ t \in Loads /\ t.step = "none" /\ t.phase = "none"
      /\ i \in Loads /\ i.step = "none" /\ i.phase = "clear" /\ i.body = e.load.body
      /\ e.load.error \in {"Loaded", "Failed"}
  BY <1>0 DEF Loads
<1>2. /\ TakenUp(e) = [e EXCEPT !.load = t] /\ Installed(e) = [e EXCEPT !.load = i]
      /\ FailedLoad(e) = [e EXCEPT !.load = t, !.state = e.load.error, !.failed = TRUE]
  BY <1>0 DEF TakenUp, Installed, FailedLoad, Editors, Loads
<1> HIDE DEF t, i
<1>3. /\ TakenUp(e) \in Editors /\ SameRest(TakenUp(e), e) /\ TakenUp(e).text = e.text
      /\ TakenUp(e).modified = e.modified /\ TakenUp(e).incomplete = e.incomplete
      /\ TakenUp(e).failed = e.failed /\ TakenUp(e).state = e.state /\ TakenUp(e).save = e.save
      /\ TakenUp(e).load = t
  BY <1>1, <1>2, WithLoad
<1>4. /\ Installed(e) \in Editors /\ SameRest(Installed(e), e) /\ Installed(e).text = e.text
      /\ Installed(e).modified = e.modified /\ Installed(e).incomplete = e.incomplete
      /\ Installed(e).failed = e.failed /\ Installed(e).state = e.state /\ Installed(e).save = e.save
      /\ Installed(e).load = i
  BY <1>1, <1>2, WithLoad
<1>5. /\ FailedLoad(e) \in Editors /\ SameRest(FailedLoad(e), e) /\ FailedLoad(e).text = e.text
      /\ FailedLoad(e).modified = e.modified /\ FailedLoad(e).incomplete = e.incomplete
      /\ FailedLoad(e).failed /\ FailedLoad(e).state = e.load.error /\ FailedLoad(e).save = e.save
      /\ FailedLoad(e).load = t
  <2> DEFINE y == [e EXCEPT !.load = t, !.state = e.load.error, !.failed = TRUE]
  <2>1. y \in Editors
    BY <1>1 DEF Editors
  <2>2. /\ y.load = t /\ y.text = e.text /\ y.modified = e.modified /\ y.incomplete = e.incomplete
        /\ y.failed = TRUE /\ y.state = e.load.error /\ y.save = e.save
    BY DEF Editors
  <2>3. /\ y.held = e.held /\ y.hist = e.hist /\ y.rep = e.rep /\ y.waiting = e.waiting
        /\ y.evicted = e.evicted /\ y.partial = e.partial
    BY DEF Editors
  <2>4. FailedLoad(e) = y
    BY <1>2
  <2> HIDE DEF y
  <2> QED BY <2>1, <2>2, <2>3, <2>4 DEF SameRest
<1>6. Twin(Notify(FailedLoad(e)), FailedLoad(e))
  BY <1>5, NotifyTwin
<1>7. Delivered(e) = IF e.load.step = "error" THEN Notify(FailedLoad(e))
                     ELSE IF Large(e.text) \/ Large(e.load.body) THEN Installed(e)
                     ELSE Published(Put(TakenUp(e), e.load.body))
  BY DEF Delivered, FailedLoad, Installed, TakenUp
<1> QED BY <1>1, <1>3, <1>4, <1>5, <1>6, <1>7

LEMMA DeliveredPlain ==
  ASSUME NEW e \in Editors, e.load.step # "none"
  PROVE  Plain(Delivered(e), e)
<1>0. e.load.body \in Texts
  BY DEF Editors, Loads
<1>1. Plain(Notify(FailedLoad(e)), e) /\ Plain(Installed(e), e)
  BY DeliveredIs, RestPlain, TwinPlain
<1>2. Plain(Put(TakenUp(e), e.load.body), e)
  <2>1. TakenUp(e) \in Editors /\ Plain(TakenUp(e), e)
    BY DeliveredIs, RestPlain
  <2> QED BY <1>0, <2>1, PutPlain, PlainPlain
<1>3. Plain(Published(Put(TakenUp(e), e.load.body)), e)
  <2> DEFINE p == Put(TakenUp(e), e.load.body)
  <2>1. p \in Editors /\ Plain(p, e)
    BY <1>2 DEF Plain
  <2> HIDE DEF p
  <2>2. Plain(Published(p), p)
    BY <2>1, PublishedIs, TwinPlain
  <2> QED BY <2>1, <2>2, PlainPlain DEF p
<1> QED BY <1>1, <1>3, DeliveredIs

\* A cancelled installation whose buffer is empty.
ClearedOnce(e) ==
  [e EXCEPT !.modified = FALSE, !.load.phase = "none", !.load.user = FALSE, !.load.parked = FALSE]

LEMMA ClearedOnceIs ==
  ASSUME NEW e \in Editors
  PROVE  LET x == Unlock(ClearedOnce(e), "unpublished")
         IN  /\ Plain(x, e) /\ x.text = e.text /\ ~x.modified /\ x.incomplete = e.incomplete
             /\ x.partial = e.partial /\ x.evicted = e.evicted /\ x.failed = e.failed
             /\ x.state = e.state /\ x.save = e.save /\ x.hist = e.hist
             /\ x.load.step = e.load.step /\ x.load.phase = "none"
<1> DEFINE l == [e.load EXCEPT !.phase = "none", !.user = FALSE, !.parked = FALSE]
           w == [e EXCEPT !.modified = FALSE, !.load = l]
           x == Unlock(w, "unpublished")
<1>1. l \in Loads /\ l.step = e.load.step /\ l.phase = "none"
  BY DEF Editors, Loads
<1>2. ClearedOnce(e) = w
  BY DEF ClearedOnce, Editors, Loads
<1> HIDE DEF l
<1>3. /\ w \in Editors /\ Plain(w, e) /\ w.text = e.text /\ ~w.modified
      /\ w.incomplete = e.incomplete /\ w.partial = e.partial /\ w.evicted = e.evicted
      /\ w.failed = e.failed /\ w.state = e.state /\ w.save = e.save /\ w.load = l /\ w.hist = e.hist
  BY <1>1 DEF Editors, Plain, SameRep
<1> HIDE DEF w
<1>4. Plain(x, w)
  BY <1>3, UnlockPlain
<1>5. /\ x.text = w.text /\ x.modified = w.modified /\ x.incomplete = w.incomplete
      /\ x.partial = w.partial /\ x.evicted = w.evicted /\ x.hist = w.hist
      /\ x.failed = w.failed /\ x.state = w.state /\ x.save = w.save /\ x.load = w.load
  BY <1>3 DEF Unlock, Editors
<1> HIDE DEF x
<1> QED BY <1>1, <1>2, <1>3, <1>4, <1>5, PlainPlain DEF x

LEMMA ClearedAwayCases ==
  ASSUME NEW e
  PROVE  LET empty == Unlock(ClearedOnce(e), "unpublished")
         IN  ClearedAway(e) \in {empty, LoadCancelled(empty), BeginLoad(empty), BeginLoad(LoadCancelled(empty))}
  BY DEF ClearedAway, ClearedOnce

LEMMA ClearedAwayPlain ==
  ASSUME NEW e \in Editors
  PROVE  Plain(ClearedAway(e), e)
<1> DEFINE x == Unlock(ClearedOnce(e), "unpublished")
<1>1. Plain(x, e) /\ x \in Editors
  BY ClearedOnceIs DEF Plain
<1>2. ClearedAway(e) \in {x, LoadCancelled(x), BeginLoad(x), BeginLoad(LoadCancelled(x))}
  BY ClearedAwayCases
<1> HIDE DEF x
<1>3. Plain(LoadCancelled(x), e) /\ LoadCancelled(x) \in Editors
  BY <1>1, LoadCancelledPlain, PlainPlain DEF Plain
<1>4. Plain(BeginLoad(x), e) /\ Plain(BeginLoad(LoadCancelled(x)), e)
  BY <1>1, <1>3, BeginLoadPlain, PlainPlain
<1> QED BY <1>1, <1>2, <1>3, <1>4

\* One slice of an installation.
Filled(e) == [Put(e, Append(e.text, Head(e.load.body))) EXCEPT !.load.body = Tail(@)]
Filling(e) == [ClearSlice(e) EXCEPT !.load.phase = "insert"]

LEMMA FilledIs ==
  ASSUME NEW e \in Editors, e.load.body # <<>>
  PROVE  LET x == Filled(e)
         IN  /\ x \in Editors /\ SameRest(x, e)
             /\ x.load.step = e.load.step /\ x.load.phase = e.load.phase
             /\ x.load.body = Tail(e.load.body) /\ x.text = Append(e.text, Head(e.load.body))
             /\ x.modified /\ x.incomplete = e.incomplete /\ x.failed = e.failed /\ x.state = e.state
             /\ x.save = IF e.save.step = "capturing" THEN [e.save EXCEPT !.torn = TRUE] ELSE e.save
<1> DEFINE t == Append(e.text, Head(e.load.body))
           p == Put(e, t)
           b == Tail(p.load.body)
           l == [p.load EXCEPT !.body = b]
           x == [p EXCEPT !.load = l]
<1>0. t \in Texts /\ e.load \in Loads /\ e.load.body \in Texts
  BY TextOps DEF Editors, Loads
<1>1. /\ p \in Editors /\ SameRest(p, e) /\ p.load = e.load
      /\ p.text = t /\ p.modified /\ p.incomplete = e.incomplete
      /\ p.failed = e.failed /\ p.state = e.state
      /\ p.save = IF e.save.step = "capturing" THEN [e.save EXCEPT !.torn = TRUE] ELSE e.save
  BY <1>0, PutIs
<1>a. Filled(e) = [p EXCEPT !.load.body = b]
  BY DEF Filled
<1> HIDE DEF t, p
<1>2. b = Tail(e.load.body) /\ b \in Texts
  BY <1>0, <1>1, TextOps
<1> HIDE DEF b
<1>3. l \in Loads /\ l.step = e.load.step /\ l.phase = e.load.phase /\ l.body = b
  BY <1>0, <1>1, <1>2 DEF Loads
<1>4. Filled(e) = x
  BY <1>1, <1>a DEF Editors, Loads
<1> HIDE DEF l
<1>5. /\ x \in Editors /\ SameRest(x, p) /\ x.text = p.text /\ x.modified = p.modified
      /\ x.incomplete = p.incomplete /\ x.failed = p.failed /\ x.state = p.state
      /\ x.save = p.save /\ x.load = l
  BY <1>1, <1>3 DEF Editors, SameRest
<1> HIDE DEF x
<1> QED BY <1>1, <1>2, <1>3, <1>4, <1>5 DEF SameRest, t

LEMMA ClearSliceIs ==
  ASSUME NEW e \in Editors
  PROVE  LET x == ClearSlice(e)
         IN  /\ x \in Editors /\ SameRest(x, e) /\ x.load = e.load
             /\ x.text = IF e.text = <<>> THEN <<>> ELSE Tail(e.text)
             /\ x.incomplete = e.incomplete /\ x.failed = e.failed /\ x.state = e.state
             /\ x.save \in {e.save, [e.save EXCEPT !.torn = TRUE]}
             /\ e.save.step = "capturing" /\ ~e.save.torn /\ x.save = e.save => x.text = e.text
             /\ e.save.step # "capturing" => x.save = e.save
<1>1. CASE e.text = <<>>
  BY <1>1 DEF ClearSlice, SameRest
<1>2. CASE e.text # <<>>
  <2>1. Tail(e.text) \in Texts /\ ClearSlice(e) = Put(e, Tail(e.text))
    BY <1>2, TextOps DEF ClearSlice, Editors
  <2>2. e.save.step = "capturing" /\ ~e.save.torn => [e.save EXCEPT !.torn = TRUE] # e.save
    BY DEF Editors, Writes
  <2> QED BY <1>2, <2>1, <2>2, PutIs
<1> QED BY <1>1, <1>2

LEMMA FillingIs ==
  ASSUME NEW e \in Editors, e.load.phase = "clear"
  PROVE  LET x == Filling(e)
             c == ClearSlice(e)
         IN  /\ x \in Editors /\ SameRest(x, e)
             /\ x.load.step = e.load.step /\ x.load.phase = "insert" /\ x.load.body = e.load.body
             /\ x.text = c.text /\ x.incomplete = e.incomplete
             /\ x.failed = e.failed /\ x.state = e.state /\ x.save = c.save
<1> DEFINE c == ClearSlice(e)
           l == [c.load EXCEPT !.phase = "insert"]
           x == [c EXCEPT !.load = l]
<1>1. /\ c \in Editors /\ SameRest(c, e) /\ c.load = e.load
      /\ c.incomplete = e.incomplete /\ c.failed = e.failed /\ c.state = e.state
  BY ClearSliceIs
<1>a. Filling(e) = [c EXCEPT !.load.phase = "insert"]
  BY DEF Filling
<1> HIDE DEF c
<1>2. l \in Loads /\ l.step = e.load.step /\ l.phase = "insert" /\ l.body = e.load.body
  BY <1>1 DEF Editors, Loads
<1>3. Filling(e) = x
  BY <1>1, <1>a DEF Editors, Loads
<1> HIDE DEF l
<1>4. /\ x \in Editors /\ SameRest(x, c) /\ x.text = c.text
      /\ x.incomplete = c.incomplete /\ x.failed = c.failed /\ x.state = c.state
      /\ x.save = c.save /\ x.load = l
  BY <1>1, <1>2 DEF Editors, SameRest
<1> HIDE DEF x
<1> QED BY <1>1, <1>2, <1>3, <1>4 DEF SameRest, c

LEMMA InstallTurnedCases ==
  ASSUME NEW e, e.load.phase \in {"clear", "insert", "cancel"}
  PROVE  LET c == ClearSlice(e)
         IN  \/ /\ e.load.phase = "insert" /\ e.load.body = <<>> /\ InstallTurned(e) = Published(e)
             \/ /\ e.load.phase = "insert" /\ e.load.body # <<>> /\ Filled(e).load.body = <<>>
                /\ InstallTurned(e) = Published(Filled(e))
             \/ /\ e.load.phase = "insert" /\ e.load.body # <<>> /\ InstallTurned(e) = Filled(e)
             \/ /\ e.load.phase \in {"clear", "cancel"} /\ c.text # <<>> /\ InstallTurned(e) = c
             \/ /\ e.load.phase = "clear" /\ c.text = <<>> /\ InstallTurned(e) = Filling(e)
             \/ /\ e.load.phase = "cancel" /\ c.text = <<>> /\ InstallTurned(e) = ClearedAway(c)
  BY DEF InstallTurned, Filled, Filling

LEMMA InstallTurnedPlain ==
  ASSUME NEW e \in Editors, Installing(e)
  PROVE  Plain(InstallTurned(e), e)
<1> DEFINE c == ClearSlice(e)
<1>0. e.load.phase \in {"clear", "insert", "cancel"}
  BY DEF Editors, Loads, Installing
<1>1. c \in Editors /\ Plain(c, e)
  BY ClearSlicePlain DEF Plain
<1>2. Plain(ClearedAway(c), e)
  <2> HIDE DEF c
  <2> QED BY <1>1, ClearedAwayPlain, PlainPlain
<1>3. e.load.phase = "clear" => Plain(Filling(e), e)
  BY FillingIs, RestPlain
<1>4. e.load.body # <<>> => Plain(Filled(e), e) /\ Plain(Published(Filled(e)), e)
  <2> SUFFICES ASSUME e.load.body # <<>>
               PROVE  Plain(Filled(e), e) /\ Plain(Published(Filled(e)), e)
    OBVIOUS
  <2>1. Filled(e) \in Editors /\ Plain(Filled(e), e)
    BY FilledIs, RestPlain
  <2>2. Plain(Published(Filled(e)), Filled(e))
    BY <2>1, PublishedIs, TwinPlain
  <2> QED BY <2>1, <2>2, PlainPlain
<1>5. Plain(Published(e), e)
  BY PublishedIs, TwinPlain
<1> QED BY <1>0, <1>1, <1>2, <1>3, <1>4, <1>5, InstallTurnedCases

-----------------------------------------------------------------------------
(* Texts. *)

LEMMA Joined ==
  ASSUME NEW text \in Texts, NEW body \in Texts
  PROVE  /\ <<>> \o body = body /\ text \o <<>> = text
         /\ body # <<>> => Append(text, Head(body)) \o Tail(body) = text \o body
<1> DEFINE P == {"file", "hist", "typed", "newline"} \X Nat
<1>0. text \in Seq(P) /\ body \in Seq(P)
  BY DEF Texts
<1> HIDE DEF P
<1>1. \A s, t \in Seq(P) :
        Len(s) = Len(t) /\ (\A i \in 1 .. Len(s) : s[i] = t[i]) => s = t
  OBVIOUS
<1>2. <<>> \o body = body /\ text \o <<>> = text
  BY <1>0, <1>1
<1>3. ASSUME body # <<>>
      PROVE  Append(text, Head(body)) \o Tail(body) = text \o body
  <2> DEFINE l == Append(text, Head(body))
             s == l \o Tail(body)
             t == text \o body
  <2>1. Head(body) \in P /\ Tail(body) \in Seq(P) /\ Len(Tail(body)) = Len(body) - 1
        /\ Len(body) \in Nat \ {0} /\ Head(body) = body[1]
        /\ \A i \in 1 .. Len(body) - 1 : Tail(body)[i] = body[i + 1]
    BY <1>0, <1>3
  <2>2. l \in Seq(P) /\ Len(l) = Len(text) + 1 /\ Len(text) \in Nat
        /\ \A i \in 1 .. Len(text) + 1 : l[i] = IF i =< Len(text) THEN text[i] ELSE body[1]
    BY <1>0, <2>1
  <2>3. s \in Seq(P) /\ Len(s) = Len(text) + Len(body)
        /\ \A i \in 1 .. Len(s) : s[i] = IF i =< Len(text) + 1 THEN l[i] ELSE Tail(body)[i - (Len(text) + 1)]
    <3> HIDE DEF l
    <3> QED BY <2>1, <2>2
  <2>4. t \in Seq(P) /\ Len(t) = Len(text) + Len(body)
        /\ \A i \in 1 .. Len(t) : t[i] = IF i =< Len(text) THEN text[i] ELSE body[i - Len(text)]
    BY <1>0
  <2> HIDE DEF l, s, t
  <2>5. ASSUME NEW i \in 1 .. Len(s)
        PROVE  s[i] = t[i]
    BY <2>1, <2>2, <2>3, <2>4
  <2> QED BY <1>1, <2>3, <2>4, <2>5 DEF s, t, l
<1> QED BY <1>2, <1>3

LEMMA BodyIsText ==
  ASSUME NEW size \in Nat, NEW kind \in {"file", "hist"}
  PROVE  BodyOf(size, kind) \in Texts /\ Len(BodyOf(size, kind)) = size
  BY DEF BodyOf, Texts

LEMMA BodyIsWhole ==
  ASSUME NEW size \in Nat \ {0}, NEW kind \in {"file", "hist"}
  PROVE  WholeOf(size, BodyOf(size, kind))
<1>1. BodyOf(size, kind) \in Texts /\ Len(BodyOf(size, kind)) = size /\ size \in Nat \ {0}
  BY BodyIsText
<1>2. BodyOf(size, kind) # <<>>
  BY <1>1
<1>3. BodyOf(size, kind) \in {<<>>, BodyOf(size, "file"), BodyOf(size, "hist")}
  OBVIOUS
<1>4. \A i \in 1 .. Len(BodyOf(size, kind)) : i =< Len(BodyOf(size, kind))
  OBVIOUS
<1>5. Len(BodyOf(size, kind)) =< Len(BodyOf(size, kind))
  BY <1>1
<1> QED BY <1>2, <1>3, <1>4, <1>5 DEF WholeOf

\* What may follow a body: what was typed, and the newline of formatting.
Tails == Seq({"typed", "newline"} \X Nat)

LEMMA TypedIsTail == TypedTexts \subseteq Tails
<1>1. {"typed"} \X Nat \subseteq {"typed", "newline"} \X Nat
  OBVIOUS
<1> QED BY <1>1 DEF TypedTexts, Tails

LEMMA WholeGrows ==
  ASSUME NEW size \in Nat, NEW text \in Texts, NEW tail \in Tails, tail # <<>>,
         text = <<>> \/ WholeOf(size, text)
  PROVE  WholeOf(size, text \o tail)
<1> DEFINE bodies == {<<>>, BodyOf(size, "file"), BodyOf(size, "hist")}
<1>1. \A i \in 1 .. Len(tail) : tail[i][1] \in {"typed", "newline"}
  BY DEF Tails
<1>2. text \o tail # <<>> /\ Len(text \o tail) = Len(text) + Len(tail)
      /\ Len(text) \in Nat /\ Len(tail) \in Nat
  BY DEF Texts, Tails
<1>3. \A i \in 1 .. Len(text) + Len(tail) :
        (text \o tail)[i] = IF i =< Len(text) THEN text[i] ELSE tail[i - Len(text)]
  BY DEF Texts, Tails
<1>4. PICK body \in bodies :
        /\ Len(body) \in Nat /\ Len(body) =< Len(text)
        /\ \A i \in 1 .. Len(text) : IF i =< Len(body) THEN text[i] = body[i]
                ELSE text[i][1] \in {"typed", "newline"}
  <2>1. CASE text = <<>>
    BY <2>1
  <2>2. CASE WholeOf(size, text)
    <3>1. PICK body \in bodies :
            /\ Len(body) =< Len(text)
            /\ \A i \in 1 .. Len(text) : IF i =< Len(body) THEN text[i] = body[i]
                ELSE text[i][1] \in {"typed", "newline"}
      BY <2>2 DEF WholeOf
    <3>2. Len(body) \in Nat
      <4>1. Len(BodyOf(size, "file")) = size /\ Len(BodyOf(size, "hist")) = size
        BY BodyIsText
      <4> QED BY <4>1, <3>1
    <3> QED BY <3>1, <3>2
  <2> QED BY <2>1, <2>2
<1>5. \A i \in 1 .. Len(text \o tail) :
        IF i =< Len(body) THEN (text \o tail)[i] = body[i] ELSE (text \o tail)[i][1] \in {"typed", "newline"}
  <2> SUFFICES ASSUME NEW i \in 1 .. Len(text) + Len(tail)
               PROVE  IF i =< Len(body) THEN (text \o tail)[i] = body[i]
                      ELSE (text \o tail)[i][1] \in {"typed", "newline"}
    BY <1>2
  <2>1. CASE i =< Len(text)
    BY <1>2, <1>3, <1>4, <2>1
  <2>2. CASE ~(i =< Len(text))
    <3>1. i - Len(text) \in 1 .. Len(tail) /\ ~(i =< Len(body))
      BY <1>2, <1>4, <2>2
    <3> QED BY <1>1, <1>3, <2>2, <3>1
  <2> QED BY <2>1, <2>2
<1>6. Len(body) =< Len(text \o tail)
  BY <1>2, <1>4
<1> QED BY <1>2, <1>4, <1>5, <1>6 DEF WholeOf

LEMMA FormattedIsText ==
  ASSUME NEW text \in Texts
  PROVE  Formatted(text) \in Texts
<1>1. Newline \in {"file", "hist", "typed", "newline"} \X Nat
  BY DEF Newline
<1> HIDE DEF Newline
<1> QED BY <1>1 DEF Texts, Formatted

\* Formatting keeps a text whole.
LEMMA FormattedWhole ==
  ASSUME NEW text \in Texts, NEW size \in Nat, WholeOf(size, text)
  PROVE  Formatted(text) \in Texts /\ WholeOf(size, Formatted(text))
<1> DEFINE tail == <<Newline>>
<1>1. tail \in Tails /\ tail \in Texts /\ tail # <<>>
  BY DEF Newline, Tails, Texts
<1>2. Append(text, Newline) = text \o tail /\ text \o tail \in Texts
  <2>1. Newline \in {"file", "hist", "typed", "newline"} \X Nat
    BY DEF Newline
  <2> HIDE DEF Newline
  <2> QED BY <2>1 DEF Texts
<1> HIDE DEF tail
<1>3. WholeOf(size, text \o tail)
  BY <1>1, WholeGrows
<1> QED BY <1>2, <1>3 DEF Formatted

-----------------------------------------------------------------------------
(* What keeps an editor sound: loads. *)

\* The same editor, as far as its soundness goes.
Kin(d, e) ==
  /\ d.text = e.text /\ d.modified = e.modified /\ d.evicted = e.evicted
  /\ d.partial = e.partial /\ d.incomplete = e.incomplete /\ d.failed = e.failed
  /\ d.state = e.state /\ d.load = e.load /\ d.save = e.save
  /\ d.rep.kind = e.rep.kind /\ d.rep.phase = e.rep.phase /\ d.rep.body = e.rep.body
  /\ d.rep.started = e.rep.started
  /\ d.waiting.kind = e.waiting.kind /\ d.waiting.body = e.waiting.body

LEMMA TwinKin ==
  ASSUME NEW d, NEW e, Twin(d, e)
  PROVE  Kin(d, e)
  BY DEF Twin, Kin, SameRep

LEMMA KinSound ==
  ASSUME NEW d, NEW e, NEW f, NEW size, NEW bare, Kin(d, e), Sound(e, f, size, bare)
  PROVE  Sound(d, f, size, bare)
<1>1. TextWhole(d, size)
  BY DEF Kin, Sound, TextWhole, Elsewhere, Changing, Installing, Replacing
<1>2. LoadBrings(d, f, size)
  BY DEF Kin, Sound, LoadBrings, LoadInFlight, Installing
<1>3. RepBrings(d, f, size)
  BY DEF Kin, Sound, RepBrings, Installing, Replacing
<1>4. SaveHolds(d, f, size)
  BY DEF Kin, Sound, SaveHolds, Installing, Replacing, Writing, LoadInFlight
<1>5. CleanShows(d, f, bare)
  BY DEF Kin, Sound, CleanShows, Elsewhere, Changing, Installing, Replacing
<1> QED BY <1>1, <1>2, <1>3, <1>4, <1>5 DEF Sound

LEMMA SoundMore ==
  ASSUME NEW e, NEW f, NEW size, NEW bare, NEW more, bare \subseteq more, Sound(e, f, size, bare)
  PROVE  Sound(e, f, size, more)
  BY DEF Sound, CleanShows

\* What a replacement brings depends on nothing else.
LEMMA RepBringsOn ==
  ASSUME NEW e, NEW x, NEW f, NEW size, RepBrings(e, f, size),
         x.rep = e.rep, x.waiting = e.waiting, x.text = e.text, x.save.step = e.save.step,
         x.save.ticket => e.save.ticket, Installing(x) => Installing(e)
  PROVE  RepBrings(x, f, size)
<1>1. Replacing(x) <=> Replacing(e)
  BY DEF Replacing
<1>2. Replacing(x) => ~Installing(x)
  BY <1>1 DEF RepBrings
<1> DEFINE held(text) == WholeOf(size, text) /\ (e.rep.kind = "mirror" /\ e.save.ticket => text = f)
           brings(text) == WholeOf(size, text) /\ (e.rep.kind = "mirror" /\ x.save.ticket => text = f)
<1>3. \A text : held(text) => brings(text)
  OBVIOUS
<1>4. /\ e.rep.kind = "mirror" <=> e.save.step = "mirror"
      /\ e.rep.phase = "clear" => IF e.rep.kind = "evict" THEN e.rep.body = <<>> ELSE held(e.rep.body)
      /\ e.rep.phase = "insert" => e.rep.kind # "evict" /\ held(e.text \o e.rep.body)
      /\ e.rep.phase = "cancel" => e.rep.kind # "mirror"
      /\ e.waiting.kind \in {"none", "restore"}
      /\ e.waiting.kind = "restore" => WholeOf(size, e.waiting.body)
  BY DEF RepBrings
<1>5. RepBrings(x, f, size) <=>
      /\ Replacing(x) => ~Installing(x)
      /\ e.rep.kind = "mirror" <=> e.save.step = "mirror"
      /\ e.rep.phase = "clear" => IF e.rep.kind = "evict" THEN e.rep.body = <<>> ELSE brings(e.rep.body)
      /\ e.rep.phase = "insert" => e.rep.kind # "evict" /\ brings(e.text \o e.rep.body)
      /\ e.rep.phase = "cancel" => e.rep.kind # "mirror"
      /\ e.waiting.kind \in {"none", "restore"}
      /\ e.waiting.kind = "restore" => WholeOf(size, e.waiting.body)
  BY DEF RepBrings
<1> HIDE DEF held, brings
<1> QED BY <1>2, <1>3, <1>4, <1>5

LEMMA AbortSound ==
  ASSUME NEW e \in Editors, NEW f, NEW size, NEW bare, Sound(e, f, size, bare),
         e.load.parked \/ e.load.user
  PROVE  Sound(Abort(e), f, size, bare)
<1>1. CASE e.load.phase \in {"clear", "insert"}
  <2> DEFINE a == Abort(e)
  <2>1. /\ SameRest(a, e) /\ a.text = e.text /\ a.modified = e.modified /\ a.failed = e.failed
        /\ a.state = e.state /\ a.save = e.save /\ a.load.step = e.load.step
        /\ a.load.parked = e.load.parked /\ a.load.user = e.load.user
        /\ a.load.phase = "cancel" /\ a.incomplete
        /\ e.load.step = "none"
    BY <1>1, AbortIs DEF Editors, Loads
  <2> HIDE DEF a
  <2>2. TextWhole(a, size) /\ LoadBrings(a, f, size) /\ CleanShows(a, f, bare)
    <3>1. TextWhole(a, size) /\ CleanShows(a, f, bare)
      BY <2>1 DEF TextWhole, CleanShows, Elsewhere, Changing, Installing
    <3>2. e.state = "Loading"
      BY <1>1 DEF Sound, LoadBrings, Installing, LoadInFlight
    <3>3. LoadBrings(a, f, size)
      BY <2>1, <3>2 DEF LoadBrings, Installing, LoadInFlight
    <3> QED BY <3>1, <3>3
  <2>3. RepBrings(a, f, size) /\ SaveHolds(a, f, size)
    <3>1. RepBrings(e, f, size) /\ SaveHolds(e, f, size)
      BY DEF Sound
    <3>2. RepBrings(a, f, size)
      BY <1>1, <2>1, <3>1, RepBringsOn DEF SameRest, Installing
    <3>3. SaveHolds(a, f, size)
      BY <1>1, <2>1, <3>1 DEF SaveHolds, SameRest, Installing, Replacing, Writing, LoadInFlight
    <3> QED BY <3>2, <3>3
  <2> QED BY <2>2, <2>3 DEF Sound, a
<1>2. CASE e.load.phase \notin {"clear", "insert"}
  BY <1>2 DEF Abort
<1> QED BY <1>1, <1>2

LEMMA BeginLoadSound ==
  ASSUME NEW e \in Editors, NEW f, NEW size, NEW bare, ~Installing(e), WholeOf(size, f),
         RepBrings(e, f, size), SaveHolds(e, f, size),
         \/ Elsewhere(e) \/ WholeOf(size, e.text)
         \/ /\ e.text = <<>> /\ e.save.step = "none"
            /\ e.state # "Loaded" \/ (e.partial /\ ~e.modified)
  PROVE  Sound(BeginLoad(e), f, size, bare)
<1> DEFINE x == Reading(e)
<1>1. /\ Twin(BeginLoad(e), x) /\ SameRest(x, e)
      /\ x.text = e.text /\ x.modified = e.modified /\ x.incomplete = e.incomplete
      /\ x.load.step = "reading" /\ x.load.phase = "none"
      /\ e.state # "Loaded" => x.load.error = "Failed"
      /\ x.save = [e.save EXCEPT !.ticket = FALSE] /\ x.state = "Loading"
  BY BeginLoadIs
<1>2. /\ x.save.step = e.save.step /\ x.save.text = e.save.text /\ x.save.path = e.save.path
      /\ x.save.out = e.save.out
      /\ x.save.torn = e.save.torn /\ x.save.result = e.save.result /\ ~x.save.ticket
  BY <1>1 DEF Editors, Writes
<1> HIDE DEF x
<1>3. TextWhole(x, size)
  <2>1. Elsewhere(e) => Elsewhere(x)
    BY <1>1 DEF Elsewhere, Changing, SameRest, Installing, Replacing
  <2>2. Elsewhere(e) \/ WholeOf(size, e.text) \/ (e.text = <<>> /\ e.save.step = "none"
           /\ (e.state # "Loaded" \/ (e.partial /\ ~e.modified)))
    OBVIOUS
  <2> QED BY <1>1, <1>2, <2>1, <2>2 DEF TextWhole, SameRest
<1>4. LoadBrings(x, f, size) /\ CleanShows(x, f, bare)
  BY <1>1 DEF LoadBrings, CleanShows, Installing, LoadInFlight
<1>5. RepBrings(x, f, size)
  <2>1. x.rep = e.rep /\ x.waiting = e.waiting /\ x.load.phase = "none"
    BY <1>1 DEF SameRest
  <2> QED BY <1>1, <1>2, <2>1, RepBringsOn DEF Installing
<1>6. SaveHolds(x, f, size)
  BY <1>1, <1>2 DEF SaveHolds, SameRest, Replacing, Writing
<1> QED BY <1>1, <1>3, <1>4, <1>5, <1>6, TwinKin, KinSound DEF Sound

LEMMA CancelLoadSound ==
  ASSUME NEW e \in Editors, NEW f, NEW size, NEW bare, Sound(e, f, size, bare)
  PROVE  Sound(CancelLoad(e), f, size, bare)
<1> DEFINE s == Stopping(e)
           a == Abort(s)
           x == [a EXCEPT !.state = "Failed", !.failed = TRUE]
<1>1. /\ s \in Editors /\ SameRest(s, e)
      /\ s.text = e.text /\ s.modified = e.modified /\ s.incomplete = e.incomplete
      /\ s.failed = e.failed /\ s.state = e.state
      /\ s.load.step = "none" /\ s.load.phase = e.load.phase /\ s.load.body = e.load.body
      /\ s.load.user <=> (e.state = "Loading" /\ Installing(e))
      /\ s.save = [e.save EXCEPT !.ticket = FALSE]
  BY StoppingIs
<1>2. /\ s.save.step = e.save.step /\ s.save.text = e.save.text /\ s.save.path = e.save.path
      /\ s.save.out = e.save.out
      /\ s.save.torn = e.save.torn /\ s.save.result = e.save.result /\ ~s.save.ticket
  BY <1>1 DEF Editors, Writes
<1>3. /\ a \in Editors /\ SameRest(a, e)
      /\ CancelLoad(e) = IF e.state = "Loading" /\ ~Installing(e) THEN LoadCancelled(a) ELSE a
  BY CancelLoadIs
<1> HIDE DEF s
<1>4. CASE e.state = "Loading" /\ ~Installing(e)
  <2>1. a = s
    BY <1>1, <1>4, AbortIs DEF Installing
  <2>2. /\ Twin(LoadCancelled(a), x) /\ SameRest(x, a)
        /\ x.text = a.text /\ x.modified = a.modified /\ x.incomplete = a.incomplete
        /\ x.load = a.load /\ x.save = a.save /\ x.state = "Failed" /\ x.failed
    BY <1>3, LoadCancelledTwin
  <2> HIDE DEF a, x
  <2>3. /\ SameRest(x, e) /\ x.text = e.text /\ x.modified = e.modified
        /\ x.incomplete = e.incomplete /\ x.state = "Failed" /\ x.failed
        /\ x.load.step = "none" /\ x.load.phase = "none" /\ e.load.phase = "none"
        /\ x.save.step = e.save.step /\ x.save.text = e.save.text /\ x.save.path = e.save.path
        /\ x.save.out = e.save.out
        /\ x.save.torn = e.save.torn /\ x.save.result = e.save.result /\ ~x.save.ticket
    BY <1>1, <1>2, <1>4, <2>1, <2>2 DEF SameRest, Installing
  <2>4. TextWhole(x, size) /\ LoadBrings(x, f, size) /\ CleanShows(x, f, bare)
    BY <1>4, <2>3 DEF Sound, TextWhole, LoadBrings, CleanShows, Elsewhere, Changing, SameRest,
                      Installing, Replacing, LoadInFlight
  <2>5. RepBrings(x, f, size) /\ SaveHolds(x, f, size)
    BY <1>4, <2>3 DEF Sound, RepBrings, SaveHolds, SameRest, Installing, Replacing, Writing, LoadInFlight
  <2>6. Sound(x, f, size, bare)
    BY <2>4, <2>5 DEF Sound
  <2> QED BY <1>3, <1>4, <2>2, <2>6, TwinKin, KinSound DEF x, a
<1>5. CASE ~(e.state = "Loading" /\ ~Installing(e))
  <2>1. Sound(s, f, size, bare)
    <3>1. TextWhole(s, size)
      BY <1>1, <1>2 DEF Sound, TextWhole, Elsewhere, Changing, SameRest, Installing, Replacing
    <3>2. LoadBrings(s, f, size)
      BY <1>1, <1>2, <1>5 DEF Sound, LoadBrings, Installing, LoadInFlight
    <3>3. CleanShows(s, f, bare)
      <4>1. e.save.step # "ran" \/ e.save.ticket \/ (s.save.step = "ran" /\ ~s.save.ticket)
        BY <1>2
      <4> QED BY <1>1, <1>2, <4>1 DEF Sound, CleanShows, Elsewhere, Changing, SameRest, Installing, Replacing
    <3>4. RepBrings(s, f, size)
      BY <1>1, <1>2 DEF Sound, RepBrings, SameRest, Installing, Replacing
    <3>5. SaveHolds(s, f, size)
      BY <1>1, <1>2 DEF Sound, SaveHolds, SameRest, Replacing, Writing
    <3> QED BY <3>1, <3>2, <3>3, <3>4, <3>5 DEF Sound
  <2>2. CASE Installing(e)
    <3>1. s.load.user
      BY <1>1, <1>5, <2>2 DEF Sound, LoadBrings, LoadInFlight
    <3>2. Sound(Abort(s), f, size, bare)
      BY <1>1, <2>1, <3>1, AbortSound
    <3> QED BY <1>3, <1>5, <3>2
  <2>3. CASE ~Installing(e)
    <3>1. a = s
      BY <1>1, <2>3, AbortIs DEF Installing
    <3> QED BY <1>1, <1>3, <1>5, <2>1, <3>1
  <2> QED BY <2>2, <2>3
<1> QED BY <1>4, <1>5

LEMMA PublishedSound ==
  ASSUME NEW e \in Editors, NEW f, NEW size, NEW bare, WholeOf(size, f), WholeOf(size, e.text),
         e.save.step # "ran" => e.text = f,
         Writing(e) => ~e.save.ticket,
         ~Replacing(e), RepBrings(e, f, size), SaveHolds(e, f, size)
  PROVE  Sound(Published(e), f, size, bare)
<1> DEFINE x == Unlock(Whole0(e), "whole")
<1>1. /\ Twin(Published(e), x) /\ Plain(x, e)
      /\ x.text = e.text /\ ~x.modified /\ ~x.incomplete /\ ~x.partial /\ ~x.evicted
      /\ ~x.failed /\ x.state = "Loaded" /\ x.save = e.save
      /\ x.load.step = "none" /\ x.load.phase = "none"
  BY PublishedIs
<1> HIDE DEF x
<1>2. TextWhole(x, size) /\ LoadBrings(x, f, size) /\ CleanShows(x, f, bare)
  BY <1>1 DEF TextWhole, LoadBrings, CleanShows, Writing, Installing, LoadInFlight
<1>3. RepBrings(x, f, size)
  BY <1>1 DEF RepBrings, Plain, SameRep, Installing, Replacing
<1>4. SaveHolds(x, f, size)
  BY <1>1 DEF SaveHolds, Plain, SameRep, Installing, Replacing, Writing, LoadInFlight
<1> QED BY <1>1, <1>2, <1>3, <1>4, TwinKin, KinSound DEF Sound

LEMMA DeliveredSound ==
  ASSUME NEW e, EditorOK(e), e.load.step \in {"read", "error"}, NEW f, NEW size, NEW bare,
         Sound(e, f, size, bare), ~Replacing(e)
  PROVE  Sound(Delivered(e), f, size, bare)
<1>0. /\ e \in Editors /\ e.load.phase = "none" /\ e.load.body \in Texts /\ e.save \in Writes
      /\ e.rep.phase = "none"
  BY DEF EditorOK, Editors, Loads, Replacing
<1>1. e.state = "Loading" /\ LoadInFlight(e) /\ (Writing(e) => ~e.save.ticket)
  BY DEF Sound, LoadBrings, SaveHolds, LoadInFlight
<1>2. CASE e.load.step = "error"
  <2> DEFINE x == FailedLoad(e)
  <2>1. /\ SameRest(x, e) /\ x.text = e.text /\ x.modified = e.modified
        /\ x.incomplete = e.incomplete /\ x.failed /\ x.state \in {"Loaded", "Failed"}
        /\ x.save = e.save /\ x.load.step = "none" /\ x.load.phase = "none"
        /\ Twin(Notify(x), x) /\ Delivered(e) = Notify(x)
    BY <1>0, <1>2, DeliveredIs
  <2>a. x.state = e.load.error
    BY <1>0 DEF FailedLoad, Editors
  <2> HIDE DEF x
  <2>2. TextWhole(x, size) /\ LoadBrings(x, f, size) /\ CleanShows(x, f, bare)
    BY <1>0, <1>1, <1>2, <2>1, <2>a DEF Sound, TextWhole, LoadBrings, CleanShows, Elsewhere, Changing,
                        SameRest, Installing, Replacing, LoadInFlight
  <2>3. RepBrings(x, f, size) /\ SaveHolds(x, f, size)
    BY <1>0, <1>1, <2>1 DEF Sound, RepBrings, SaveHolds, SameRest, Installing, Replacing, Writing,
                            LoadInFlight
  <2> QED BY <2>1, <2>2, <2>3, TwinKin, KinSound DEF Sound
<1>3. CASE e.load.step = "read"
  <2>1. CASE Large(e.text) \/ Large(e.load.body)
    <3> DEFINE x == Installed(e)
    <3>1. /\ SameRest(x, e) /\ x.text = e.text /\ x.modified = e.modified
          /\ x.incomplete = e.incomplete /\ x.failed = e.failed /\ x.state = e.state
          /\ x.save = e.save /\ x.load.step = "none" /\ x.load.phase = "clear"
          /\ x.load.body = e.load.body /\ Delivered(e) = x
      BY <1>0, <1>3, <2>1, DeliveredIs
    <3> HIDE DEF x
    <3>2. TextWhole(x, size) /\ LoadBrings(x, f, size) /\ CleanShows(x, f, bare)
      BY <1>1, <1>3, <3>1 DEF Sound, TextWhole, LoadBrings, CleanShows, Elsewhere, Changing,
                              Installing, LoadInFlight
    <3>3. RepBrings(x, f, size) /\ SaveHolds(x, f, size)
      BY <1>0, <1>1, <3>1 DEF Sound, RepBrings, SaveHolds, SameRest, Installing, Replacing, Writing,
                              LoadInFlight
    <3> QED BY <3>1, <3>2, <3>3 DEF Sound
  <2>2. CASE ~(Large(e.text) \/ Large(e.load.body))
    <3> DEFINE t == TakenUp(e)
               p == Put(t, e.load.body)
    <3>1. /\ t \in Editors /\ SameRest(t, e) /\ t.save = e.save /\ t.state = e.state
          /\ t.load.step = "none" /\ t.load.phase = "none" /\ Delivered(e) = Published(p)
      BY <1>0, <1>3, <2>2, DeliveredIs
    <3> HIDE DEF t
    <3>2. /\ p \in Editors /\ SameRest(p, t) /\ p.load = t.load /\ p.text = e.load.body
          /\ p.state = t.state
          /\ p.save = IF t.save.step = "capturing" THEN [t.save EXCEPT !.torn = TRUE] ELSE t.save
      BY <1>0, <3>1, PutIs
    <3> HIDE DEF p
    <3>3. /\ p.save.step = e.save.step /\ p.save.text = e.save.text /\ p.save.path = e.save.path
          /\ p.save.out = e.save.out
          /\ p.save.result = e.save.result /\ p.save.ticket = e.save.ticket
          /\ p.save.was = e.save.was
          /\ p.save.step = "capturing" => p.save.torn
      BY <1>0, <3>1, <3>2 DEF Writes
    <3>4. ~Replacing(p) /\ WholeOf(size, p.text) /\ (p.save.step # "ran" => p.text = f)
          /\ (Writing(p) => ~p.save.ticket)
      BY <1>1, <1>3, <3>1, <3>2, <3>3 DEF Sound, LoadBrings, SameRest, Replacing, Writing
    <3>5. RepBrings(p, f, size)
      BY <1>0, <3>1, <3>2, <3>3, <3>4 DEF Sound, RepBrings, SameRest, Installing, Replacing
    <3>6. SaveHolds(p, f, size)
      BY <1>0, <1>1, <3>1, <3>2, <3>3, <3>4 DEF Sound, SaveHolds, SameRest, Installing,
                              Replacing, Writing, LoadInFlight
    <3> QED BY <3>1, <3>2, <3>4, <3>5, <3>6, PublishedSound DEF Sound
  <2> QED BY <2>1, <2>2
<1> QED BY <1>2, <1>3

LEMMA CancelLoadKeeps ==
  ASSUME NEW e \in Editors
  PROVE  LET x == CancelLoad(e)
         IN  /\ x \in Editors /\ x.text = e.text /\ x.modified = e.modified /\ x.hist = e.hist
             /\ x.evicted = e.evicted /\ x.partial = e.partial /\ x.held = e.held
             /\ x.rep.kind = e.rep.kind /\ x.load.step = "none"
             /\ x.save = [e.save EXCEPT !.ticket = FALSE]
             /\ x.state # "Loading" \/ Installing(x)
<1> DEFINE s == Stopping(e)
           a == Abort(s)
           x == [a EXCEPT !.state = "Failed", !.failed = TRUE]
<1>1. /\ s \in Editors /\ SameRest(s, e)
      /\ s.text = e.text /\ s.modified = e.modified /\ s.state = e.state
      /\ s.load.step = "none" /\ s.load.phase = e.load.phase
      /\ s.save = [e.save EXCEPT !.ticket = FALSE]
  BY StoppingIs
<1> HIDE DEF s
<1>2. /\ a \in Editors /\ SameRest(a, s) /\ a.text = s.text /\ a.modified = s.modified
      /\ a.state = s.state /\ a.save = s.save /\ a.load.step = s.load.step
      /\ s.load.phase # "none" => a.load.phase # "none"
  BY <1>1, AbortIs
<1>3. CancelLoad(e) = IF e.state = "Loading" /\ ~Installing(e) THEN LoadCancelled(a) ELSE a
  BY CancelLoadIs DEF s
<1> HIDE DEF a
<1>4. /\ Twin(LoadCancelled(a), x) /\ SameRest(x, a)
      /\ x.text = a.text /\ x.modified = a.modified
      /\ x.load = a.load /\ x.save = a.save /\ x.state = "Failed"
  BY <1>2, LoadCancelledTwin
<1> HIDE DEF x
<1>5. CASE e.state = "Loading" /\ ~Installing(e)
  BY <1>1, <1>2, <1>3, <1>4, <1>5 DEF Twin, SameRest, SameRep
<1>6. CASE ~(e.state = "Loading" /\ ~Installing(e))
  BY <1>1, <1>2, <1>3, <1>6 DEF SameRest, Installing
<1> QED BY <1>5, <1>6

LEMMA InstallingMeans ==
  ASSUME NEW e, EditorOK(e), Installing(e), NEW f, NEW size, NEW bare, Sound(e, f, size, bare)
  PROVE  /\ e \in Editors /\ e.state = "Loading" /\ e.load.step = "none" /\ e.rep.kind = "none"
         /\ e.rep.phase = "none" /\ e.save \in Writes /\ e.load.body \in Texts /\ e.text \in Texts
         /\ Writing(e) => ~e.save.ticket
  BY DEF EditorOK, Editors, Loads, Installing, Replacing, Sound, LoadBrings, RepBrings, SaveHolds,
         LoadInFlight

LEMMA ClearSliceSound ==
  ASSUME NEW e, EditorOK(e), e.load.phase \in {"clear", "cancel"},
         NEW f, NEW size, NEW bare, Sound(e, f, size, bare)
  PROVE  Sound(ClearSlice(e), f, size, bare)
<1> DEFINE x == ClearSlice(e)
<1>0. /\ e \in Editors /\ e.state = "Loading" /\ e.load.step = "none" /\ e.rep.kind = "none"
      /\ e.rep.phase = "none" /\ e.save \in Writes /\ (Writing(e) => ~e.save.ticket)
  BY InstallingMeans DEF Installing
<1>1. /\ x \in Editors /\ SameRest(x, e) /\ x.load = e.load
      /\ x.incomplete = e.incomplete /\ x.failed = e.failed /\ x.state = e.state
      /\ x.save \in {e.save, [e.save EXCEPT !.torn = TRUE]}
      /\ e.save.step = "capturing" /\ ~e.save.torn /\ x.save = e.save => x.text = e.text
  BY <1>0, ClearSliceIs
<1> HIDE DEF x
<1>2. /\ x.save.step = e.save.step /\ x.save.text = e.save.text /\ x.save.path = e.save.path
      /\ x.save.out = e.save.out
      /\ x.save.result = e.save.result /\ x.save.ticket = e.save.ticket
      /\ x.save.was = e.save.was
      /\ ~x.save.torn => x.save = e.save /\ ~e.save.torn
  BY <1>0, <1>1 DEF Writes
<1>3. TextWhole(x, size) /\ LoadBrings(x, f, size) /\ CleanShows(x, f, bare)
  BY <1>0, <1>1, <1>2 DEF Sound, TextWhole, LoadBrings, CleanShows, Elsewhere, Changing, Installing,
                          LoadInFlight
<1>4. RepBrings(x, f, size)
  BY <1>0, <1>1, <1>2 DEF Sound, RepBrings, SameRest, Installing, Replacing
<1>5. SaveHolds(x, f, size)
  BY <1>0, <1>1, <1>2 DEF Sound, SaveHolds, SameRest, Installing, Replacing, Writing, LoadInFlight
<1> QED BY <1>3, <1>4, <1>5 DEF Sound, x

LEMMA FilledSound ==
  ASSUME NEW e, EditorOK(e), e.load.phase = "insert", e.load.body # <<>>,
         NEW f, NEW size, NEW bare, Sound(e, f, size, bare)
  PROVE  Sound(Filled(e), f, size, bare)
<1> DEFINE x == Filled(e)
<1>0. /\ e \in Editors /\ e.state = "Loading" /\ e.load.step = "none" /\ e.rep.kind = "none"
      /\ e.rep.phase = "none" /\ e.save \in Writes /\ (Writing(e) => ~e.save.ticket)
      /\ e.load.body \in Texts /\ e.text \in Texts
  BY InstallingMeans DEF Installing
<1>1. /\ x \in Editors /\ SameRest(x, e)
      /\ x.load.step = e.load.step /\ x.load.phase = e.load.phase
      /\ x.load.body = Tail(e.load.body) /\ x.text = Append(e.text, Head(e.load.body))
      /\ x.incomplete = e.incomplete /\ x.failed = e.failed /\ x.state = e.state
      /\ x.save = IF e.save.step = "capturing" THEN [e.save EXCEPT !.torn = TRUE] ELSE e.save
  BY <1>0, FilledIs
<1> HIDE DEF x
<1>2. /\ x.save.step = e.save.step /\ x.save.text = e.save.text /\ x.save.path = e.save.path
      /\ x.save.out = e.save.out
      /\ x.save.result = e.save.result /\ x.save.ticket = e.save.ticket
      /\ x.save.was = e.save.was
      /\ x.save.step = "capturing" => x.save.torn
  BY <1>0, <1>1 DEF Writes
<1>3. x.text \o x.load.body = e.text \o e.load.body
  BY <1>0, <1>1, Joined
<1>4. TextWhole(x, size) /\ CleanShows(x, f, bare)
  BY <1>1 DEF TextWhole, CleanShows, Elsewhere, Changing, Installing
<1>5. LoadBrings(x, f, size)
  BY <1>0, <1>1, <1>2, <1>3 DEF Sound, LoadBrings, Installing, LoadInFlight
<1>6. RepBrings(x, f, size)
  BY <1>0, <1>1, <1>2 DEF Sound, RepBrings, SameRest, Installing, Replacing
<1>7. SaveHolds(x, f, size)
  BY <1>0, <1>1, <1>2 DEF Sound, SaveHolds, SameRest, Installing, Replacing, Writing, LoadInFlight
<1> QED BY <1>4, <1>5, <1>6, <1>7 DEF Sound, x

LEMMA FillingSound ==
  ASSUME NEW e, EditorOK(e), e.load.phase = "clear", ClearSlice(e).text = <<>>,
         NEW f, NEW size, NEW bare, Sound(e, f, size, bare)
  PROVE  Sound(Filling(e), f, size, bare)
<1> DEFINE x == Filling(e)
           c == ClearSlice(e)
<1>0. e \in Editors /\ e.load.step = "none" /\ e.load.body \in Texts
  BY InstallingMeans DEF Installing
<1>1. /\ SameRest(x, e) /\ x.load.step = e.load.step /\ x.load.phase = "insert"
      /\ x.load.body = e.load.body
      /\ x.text = c.text /\ x.incomplete = e.incomplete
      /\ x.failed = e.failed /\ x.state = e.state /\ x.save = c.save
  BY <1>0, FillingIs
<1>2. /\ SameRest(c, e) /\ c.load = e.load /\ c.incomplete = e.incomplete /\ c.failed = e.failed
      /\ c.state = e.state
  BY <1>0, ClearSliceIs
<1>3. Sound(c, f, size, bare)
  BY ClearSliceSound
<1> HIDE DEF x, c
<1>4. x.text \o x.load.body = e.load.body
  BY <1>0, <1>1, Joined DEF c
<1>5. TextWhole(x, size) /\ CleanShows(x, f, bare)
  BY <1>1 DEF TextWhole, CleanShows, Elsewhere, Changing, Installing
<1>6. LoadBrings(x, f, size)
  BY <1>0, <1>1, <1>2, <1>3, <1>4 DEF Sound, LoadBrings, Installing, LoadInFlight
<1>7. RepBrings(x, f, size)
  BY <1>1, <1>2, <1>3 DEF Sound, RepBrings, SameRest, Installing, Replacing
<1>8. SaveHolds(x, f, size)
  BY <1>1, <1>2, <1>3 DEF Sound, SaveHolds, SameRest, Installing, Replacing, Writing, LoadInFlight
<1> QED BY <1>3, <1>5, <1>6, <1>7, <1>8 DEF Sound, x

LEMMA ClearedAwaySound ==
  ASSUME NEW e, EditorOK(e), e.load.phase = "cancel", e.text = <<>>,
         NEW f, NEW size, NEW bare, Sound(e, f, size, bare)
  PROVE  Sound(ClearedAway(e), f, size, bare)
<1> DEFINE x == Unlock(ClearedOnce(e), "unpublished")
           y == [x EXCEPT !.state = "Failed", !.failed = TRUE]
<1>0. /\ e \in Editors /\ e.state = "Loading" /\ e.load.step = "none" /\ e.rep.kind = "none"
      /\ e.rep.phase = "none" /\ (Writing(e) => ~e.save.ticket) /\ e.incomplete
      /\ e.load.parked \/ e.load.user
  BY InstallingMeans DEF Installing, Sound, LoadBrings
<1>1. /\ Plain(x, e) /\ x.text = e.text /\ ~x.modified /\ x.incomplete = e.incomplete
      /\ x.partial = e.partial /\ x.evicted = e.evicted /\ x.failed = e.failed
      /\ x.state = e.state /\ x.save = e.save
      /\ x.load.step = e.load.step /\ x.load.phase = "none"
  BY <1>0, ClearedOnceIs
<1>2. ClearedAway(e) = IF e.load.parked
                       THEN BeginLoad(IF e.load.user THEN LoadCancelled(x) ELSE x)
                       ELSE IF e.load.user THEN LoadCancelled(x) ELSE x
  BY DEF ClearedAway, ClearedOnce
<1> HIDE DEF x
<1>3. x \in Editors
  BY <1>1 DEF Plain
<1>4. RepBrings(x, f, size)
  BY <1>0, <1>1 DEF Sound, RepBrings, Plain, SameRep, Installing, Replacing
<1>5. SaveHolds(x, f, size)
  BY <1>0, <1>1 DEF Sound, SaveHolds, Plain, SameRep, Installing, Replacing, Writing, LoadInFlight
<1>6. /\ Twin(LoadCancelled(x), y) /\ y \in Editors /\ SameRest(y, x)
      /\ y.text = x.text /\ y.modified = x.modified /\ y.incomplete = x.incomplete
      /\ y.load = x.load /\ y.save = x.save /\ y.state = "Failed" /\ y.failed
  BY <1>3, LoadCancelledTwin
<1> HIDE DEF y
<1>7. TextWhole(y, size) /\ LoadBrings(y, f, size) /\ CleanShows(y, f, bare)
  BY <1>0, <1>1, <1>6 DEF TextWhole, LoadBrings, CleanShows, Elsewhere, Installing, LoadInFlight
<1>8. RepBrings(y, f, size) /\ SaveHolds(y, f, size)
  BY <1>0, <1>1, <1>4, <1>5, <1>6 DEF RepBrings, SaveHolds, SameRest, Installing, Replacing, Writing,
                          LoadInFlight
<1>9. Sound(LoadCancelled(x), f, size, bare)
  BY <1>6, <1>7, <1>8, TwinKin, KinSound DEF Sound
<1>10. LoadCancelled(x) \in Editors /\ ~Installing(LoadCancelled(x)) /\ Elsewhere(LoadCancelled(x))
  BY <1>0, <1>1, <1>6 DEF Twin, Installing, Elsewhere
<1>11. Sound(BeginLoad(LoadCancelled(x)), f, size, bare)
  BY <1>9, <1>10, BeginLoadSound DEF Sound
<1>12. Sound(BeginLoad(x), f, size, bare)
  <2>1. ~Installing(x) /\ Elsewhere(x) /\ WholeOf(size, f)
    BY <1>0, <1>1 DEF Installing, Elsewhere, Sound
  <2> QED BY <1>3, <1>4, <1>5, <2>1, BeginLoadSound
<1> QED BY <1>0, <1>2, <1>9, <1>11, <1>12

LEMMA InstallTurnedSound ==
  ASSUME NEW e, EditorOK(e), Installing(e), NEW f, NEW size, NEW bare, Sound(e, f, size, bare)
  PROVE  Sound(InstallTurned(e), f, size, bare)
<1> DEFINE c == ClearSlice(e)
<1>0. /\ e \in Editors /\ e.load.phase \in {"clear", "insert", "cancel"} /\ e.text \in Texts
      /\ e.rep.kind = "none" /\ (Writing(e) => ~e.save.ticket) /\ e.save \in Writes
      /\ e.load.body \in Texts
  BY InstallingMeans DEF Editors, Loads, Installing
<1>1. e.load.phase \in {"clear", "cancel"} => EditorOK(c) /\ Sound(c, f, size, bare) /\ c.load = e.load
  BY <1>0, ClearSlicePlain, ClearSliceIs, PlainOK, ClearSliceSound
<1>2. ASSUME e.load.phase = "cancel", c.text = <<>>
      PROVE  Sound(ClearedAway(c), f, size, bare)
  <2> HIDE DEF c
  <2> QED BY <1>1, <1>2, ClearedAwaySound
<1>3. ASSUME e.load.phase = "clear", c.text = <<>>
      PROVE  Sound(Filling(e), f, size, bare)
  BY <1>3, FillingSound
<1>4. ASSUME e.load.phase = "insert", e.load.body # <<>>
      PROVE  Sound(Filled(e), f, size, bare)
  BY <1>4, FilledSound
<1>5. ASSUME e.load.phase = "insert", e.load.body = <<>>
      PROVE  Sound(Published(e), f, size, bare)
  <2>1. e.text \o e.load.body = e.text
    BY <1>0, <1>5, Joined
  <2>2. WholeOf(size, e.text) /\ (e.save.step # "ran" => e.text = f)
    BY <1>5, <2>1 DEF Sound, LoadBrings
  <2> QED BY <1>0, <2>2, PublishedSound DEF Sound, Replacing
<1>6. ASSUME e.load.phase = "insert", e.load.body # <<>>, Filled(e).load.body = <<>>
      PROVE  Sound(Published(Filled(e)), f, size, bare)
  <2> DEFINE x == Filled(e)
  <2>1. /\ x \in Editors /\ SameRest(x, e) /\ x.load.phase = "insert"
        /\ x.load.body = <<>>
        /\ x.save = IF e.save.step = "capturing" THEN [e.save EXCEPT !.torn = TRUE] ELSE e.save
    BY <1>0, <1>6, FilledIs
  <2>2. Sound(x, f, size, bare)
    BY <1>4, <1>6
  <2> HIDE DEF x
  <2>3. x.text \in Texts /\ x.text \o x.load.body = x.text
    BY <2>1, Joined DEF Editors
  <2>4. WholeOf(size, x.text) /\ (x.save.step # "ran" => x.text = f)
    BY <2>1, <2>2, <2>3 DEF Sound, LoadBrings
  <2>5. x.save.step = e.save.step /\ x.save.ticket = e.save.ticket
    BY <1>0, <2>1 DEF Writes
  <2>6. ~Replacing(x) /\ (Writing(x) => ~x.save.ticket)
    BY <1>0, <2>1, <2>5 DEF SameRest, Replacing, Writing
  <2>7. Sound(Published(x), f, size, bare)
    BY <2>1, <2>2, <2>4, <2>6, PublishedSound DEF Sound
  <2> QED BY <2>7 DEF x
<1>7. c = ClearSlice(e)
  OBVIOUS
<1> HIDE DEF c
<1> QED BY <1>0, <1>1, <1>2, <1>3, <1>4, <1>5, <1>6, <1>7, InstallTurnedCases

-----------------------------------------------------------------------------
(* What keeps an editor sound: replacements. *)

LEMMA UnlockIs ==
  ASSUME NEW e \in Editors, NEW content
  PROVE  LET x == Unlock(e, content)
         IN  /\ x \in Editors /\ x.text = e.text /\ x.modified = e.modified /\ x.evicted = e.evicted
             /\ x.partial = e.partial /\ x.incomplete = e.incomplete /\ x.failed = e.failed
             /\ x.state = e.state /\ x.load = e.load /\ x.save = e.save /\ x.hist = e.hist
             /\ x.rep = e.rep /\ x.waiting = e.waiting
<1> DEFINE h == [e.held EXCEPT !.broken = content = "unpublished"]
           x == Unlock(e, content)
<1>1. x \in Editors
  BY UnlockPlain DEF Plain
<1>2. x = e \/ x = [e EXCEPT !.held = h]
  BY DEF Unlock, Editors
<1> HIDE DEF h, x
<1>3. /\ x.text = e.text /\ x.modified = e.modified /\ x.evicted = e.evicted
      /\ x.partial = e.partial /\ x.incomplete = e.incomplete /\ x.failed = e.failed
  BY <1>2 DEF Editors
<1>4. /\ x.state = e.state /\ x.load = e.load /\ x.save = e.save /\ x.hist = e.hist
      /\ x.rep = e.rep /\ x.waiting = e.waiting
  BY <1>2 DEF Editors
<1> QED BY <1>1, <1>3, <1>4 DEF x

LEMMA EndSaveAsIs ==
  ASSUME NEW e \in Editors, NEW modified \in BOOLEAN
  PROVE  LET x == EndSaveAs(e, modified)
         IN  /\ x \in Editors /\ x.text = e.text /\ x.modified = modified /\ x.evicted = e.evicted
             /\ x.partial = e.partial /\ x.incomplete = e.incomplete /\ x.failed = e.failed
             /\ x.state = e.state /\ x.load = e.load /\ x.save = NoWrite /\ x.hist = e.hist
             /\ SameRep(x.rep, e.rep) /\ SameRep(x.waiting, e.waiting)
<1> DEFINE u == Unlock(e, "unchanged")
           w == [u EXCEPT !.save = NoWrite, !.modified = modified]
<1>1. u = e
  BY DEF Unlock
<1>2. EndSaveAs(e, modified) = Notify(w)
  BY DEF EndSaveAs
<1> HIDE DEF u
<1>3. /\ w \in Editors /\ w.text = e.text /\ w.modified = modified /\ w.evicted = e.evicted
      /\ w.partial = e.partial /\ w.incomplete = e.incomplete /\ w.failed = e.failed
      /\ w.state = e.state /\ w.load = e.load /\ w.save = NoWrite /\ w.hist = e.hist
      /\ w.rep = e.rep /\ w.waiting = e.waiting
  BY <1>1, NoneOK DEF Editors
<1> HIDE DEF w
<1>4. Twin(EndSaveAs(e, modified), w)
  BY <1>2, <1>3, NotifyTwin
<1> QED BY <1>3, <1>4 DEF Twin

LEMMA AcceptedIs ==
  ASSUME NEW e \in Editors
  PROVE  LET x == Accepted(e)
         IN  /\ x \in Editors /\ x.text = e.text /\ ~x.modified /\ x.evicted = e.evicted
             /\ x.partial = e.partial /\ x.incomplete = e.incomplete /\ ~x.failed
             /\ x.state = "Loaded" /\ x.load = e.load /\ x.save = NoWrite /\ x.hist = e.hist
             /\ SameRep(x.rep, e.rep) /\ SameRep(x.waiting, e.waiting)
<1> DEFINE w == EndSaveAs(e, FALSE)
           x == [w EXCEPT !.state = "Loaded", !.failed = FALSE]
<1>1. /\ w \in Editors /\ w.text = e.text /\ w.modified = FALSE /\ w.evicted = e.evicted
      /\ w.partial = e.partial /\ w.incomplete = e.incomplete /\ w.load = e.load
      /\ w.save = NoWrite /\ w.hist = e.hist
      /\ SameRep(w.rep, e.rep) /\ SameRep(w.waiting, e.waiting)
  BY EndSaveAsIs
<1>2. Accepted(e) = x
  BY DEF Accepted
<1> HIDE DEF w
<1>3. /\ x \in Editors /\ x.text = w.text /\ x.modified = w.modified /\ x.evicted = w.evicted
      /\ x.partial = w.partial /\ x.incomplete = w.incomplete /\ x.failed = FALSE
      /\ x.state = "Loaded" /\ x.load = w.load /\ x.save = w.save /\ x.hist = w.hist
      /\ x.rep = w.rep /\ x.waiting = w.waiting
  BY <1>1 DEF Editors
<1> HIDE DEF x
<1> QED BY <1>1, <1>2, <1>3

\* What every outcome leaves alone.
Ended(o, e) ==
  /\ o \in Editors /\ o.text = e.text /\ o.incomplete = e.incomplete /\ o.load = e.load
  /\ o.hist = e.hist /\ SameRep(o.waiting, e.waiting)

LEMMA AnsweredIs ==
  ASSUME NEW e \in Editors, NEW r \in Reps, NEW complete \in BOOLEAN
  PROVE  LET x == Answered(e, r, complete)
         IN  /\ r.kind = "restore" =>
                  /\ Ended(x, e) /\ x.partial = e.partial /\ x.evicted = e.evicted
                  /\ x.failed = e.failed /\ x.state = e.state /\ x.save = e.save
                  /\ x.modified <=> ((complete /\ r.current) \/ e.modified)
             /\ r.kind = "mirror" =>
                  /\ Ended(x, e) /\ x.partial = e.partial /\ x.evicted = e.evicted
                  /\ x.save = NoWrite
                  /\ IF complete /\ e.save.ticket THEN ~x.modified /\ x.state = "Loaded" /\ ~x.failed
                     ELSE x.modified /\ x.state = e.state /\ x.failed = e.failed
             /\ r.kind = "evict" =>
                  /\ Ended(x, e) /\ x.partial = e.partial
                  /\ x.failed = e.failed /\ x.state = e.state /\ x.save = e.save
                  /\ IF (complete /\ r.current) \/ (~complete /\ e.partial)
                     THEN x.evicted /\ ~x.modified
                     ELSE x.evicted = e.evicted /\ x.modified = e.modified
<1> DEFINE x == Answered(e, r, complete)
<1>1. CASE r.kind = "restore"
  <2> DEFINE w == [e EXCEPT !.modified = TRUE]
  <2>1. /\ w \in Editors /\ w.text = e.text /\ w.incomplete = e.incomplete /\ w.load = e.load
        /\ w.hist = e.hist /\ w.waiting = e.waiting /\ w.partial = e.partial
        /\ w.evicted = e.evicted /\ w.failed = e.failed /\ w.state = e.state /\ w.save = e.save
        /\ w.modified = TRUE
    BY DEF Editors
  <2>2. x = IF complete /\ r.current THEN Notify(w) ELSE e
    BY <1>1 DEF Answered
  <2> HIDE DEF w, x
  <2>3. Twin(Notify(w), w)
    BY <2>1, NotifyTwin
  <2>4. CASE complete /\ r.current
    BY <1>1, <2>1, <2>2, <2>3, <2>4 DEF Twin, Ended, x
  <2>5. CASE ~(complete /\ r.current)
    BY <1>1, <2>2, <2>5 DEF Ended, SameRep, x
  <2> QED BY <2>4, <2>5
<1>2. CASE r.kind = "mirror"
  <2>1. x = IF complete /\ e.save.ticket THEN Accepted(e) ELSE EndSaveAs(e, TRUE)
    BY <1>2 DEF Answered, Unaccepted
  <2>2. CASE complete /\ e.save.ticket
    BY <1>2, <2>1, <2>2, AcceptedIs DEF Ended
  <2>3. CASE ~(complete /\ e.save.ticket)
    <3> DEFINE w == EndSaveAs(e, TRUE)
    <3>1. /\ w \in Editors /\ w.text = e.text /\ w.modified = TRUE /\ w.evicted = e.evicted
          /\ w.partial = e.partial /\ w.incomplete = e.incomplete /\ w.failed = e.failed
          /\ w.state = e.state /\ w.load = e.load /\ w.save = NoWrite /\ w.hist = e.hist
          /\ SameRep(w.waiting, e.waiting)
      BY EndSaveAsIs
    <3>2. x = w
      BY <2>1, <2>3
    <3> HIDE DEF w, x
    <3> QED BY <1>2, <2>3, <3>1, <3>2 DEF Ended, x
  <2> QED BY <2>2, <2>3
<1>3. CASE r.kind = "evict"
  <2> DEFINE w == [e EXCEPT !.evicted = TRUE, !.modified = FALSE, !.requeue = @ \/ ~complete]
             c == (complete /\ r.current) \/ (~complete /\ e.partial)
  <2>1. /\ w \in Editors /\ w.text = e.text /\ w.incomplete = e.incomplete /\ w.load = e.load
        /\ w.hist = e.hist /\ w.waiting = e.waiting /\ w.partial = e.partial
        /\ w.evicted = TRUE /\ w.failed = e.failed /\ w.state = e.state /\ w.save = e.save
        /\ w.modified = FALSE
    BY DEF Editors
  <2>2. x = IF c THEN Notify(w) ELSE e
    BY <1>3 DEF Answered
  <2> HIDE DEF w, x
  <2>3. Twin(Notify(w), w)
    BY <2>1, NotifyTwin
  <2>4. CASE c
    BY <1>3, <2>1, <2>2, <2>3, <2>4 DEF Twin, Ended, x
  <2>5. CASE ~c
    BY <1>3, <2>2, <2>5 DEF Ended, SameRep, x
  <2> QED BY <2>4, <2>5
<1> QED BY <1>1, <1>2, <1>3

LEMMA OutcomeIs ==
  ASSUME NEW e \in Editors, e.rep.kind # "none", NEW complete \in BOOLEAN
  PROVE  LET o       == Outcome(e, complete)
             emptied == ~complete /\ e.rep.started
         IN  /\ Ended(o, e) /\ o.rep = NoRep
             /\ o.partial <=> (~complete /\ (e.partial \/ emptied))
             /\ e.rep.kind = "restore" =>
                  /\ o.evicted = e.evicted /\ o.failed = e.failed /\ o.state = e.state
                  /\ o.save = e.save
                  /\ o.modified <=> ((complete /\ e.rep.current) \/ (e.modified /\ ~emptied))
             /\ e.rep.kind = "mirror" =>
                  /\ o.evicted = e.evicted /\ o.save = NoWrite
                  /\ IF complete /\ e.save.ticket THEN ~o.modified /\ o.state = "Loaded" /\ ~o.failed
                     ELSE o.modified /\ o.state = e.state /\ o.failed = e.failed
             /\ e.rep.kind = "evict" =>
                  /\ o.failed = e.failed /\ o.state = e.state /\ o.save = e.save
                  /\ IF (complete /\ e.rep.current) \/ (~complete /\ (e.partial \/ e.rep.started))
                     THEN o.evicted /\ ~o.modified
                     ELSE o.evicted = e.evicted /\ (o.modified <=> (e.modified /\ ~emptied))
<1> DEFINE d == Done(e, complete)
           u == Unlock(d, Verdict(e, complete))
           a == Answered(u, e.rep, complete)
           o == Outcome(e, complete)
           emptied == ~complete /\ e.rep.started
           p == ~complete /\ (e.partial \/ emptied)
           m == e.modified /\ ~emptied
<1>0. e.rep \in Reps /\ p \in BOOLEAN /\ m \in BOOLEAN
  BY DEF Editors
<1>1. o = [a EXCEPT !.rep = NoRep] /\ a \in Editors /\ d \in Editors
  BY OutcomeSteps DEF Plain
<1>2. d = [e EXCEPT !.partial = p, !.modified = m]
  BY Zenon DEF Done
<1> HIDE DEF p, m
<1>3. /\ d.text = e.text /\ d.modified = m /\ d.evicted = e.evicted
      /\ d.partial = p /\ d.incomplete = e.incomplete /\ d.failed = e.failed
      /\ d.state = e.state /\ d.load = e.load /\ d.save = e.save /\ d.hist = e.hist
      /\ d.waiting = e.waiting
  BY <1>2 DEF Editors
<1> HIDE DEF d
<1>4. /\ u \in Editors /\ u.text = e.text /\ u.modified = m /\ u.evicted = e.evicted
      /\ u.partial = p /\ u.incomplete = e.incomplete /\ u.failed = e.failed
      /\ u.state = e.state /\ u.load = e.load /\ u.save = e.save /\ u.hist = e.hist
      /\ u.waiting = e.waiting
  BY <1>1, <1>3, UnlockIs
<1> HIDE DEF u
<1>5. /\ o \in Editors /\ o.rep = NoRep /\ o.text = a.text /\ o.modified = a.modified
      /\ o.evicted = a.evicted /\ o.partial = a.partial /\ o.incomplete = a.incomplete
      /\ o.failed = a.failed /\ o.state = a.state /\ o.load = a.load /\ o.save = a.save
      /\ o.hist = a.hist /\ o.waiting = a.waiting
  <2> HIDE DEF a, o
  <2> QED BY <1>1, NoneOK DEF Editors
<1> HIDE DEF o
<1>6. CASE e.rep.kind = "restore"
  <2>1. /\ Ended(a, u) /\ a.partial = u.partial /\ a.evicted = u.evicted
        /\ a.failed = u.failed /\ a.state = u.state /\ a.save = u.save
        /\ a.modified <=> ((complete /\ e.rep.current) \/ u.modified)
    BY <1>0, <1>4, <1>6, AnsweredIs
  <2> HIDE DEF a
  <2> QED BY <1>4, <1>5, <1>6, <2>1 DEF Ended, p, m, o
<1>7. CASE e.rep.kind = "mirror"
  <2>1. /\ Ended(a, u) /\ a.partial = u.partial /\ a.evicted = u.evicted
        /\ a.save = NoWrite
        /\ IF complete /\ u.save.ticket THEN ~a.modified /\ a.state = "Loaded" /\ ~a.failed
           ELSE a.modified /\ a.state = u.state /\ a.failed = u.failed
    BY <1>0, <1>4, <1>7, AnsweredIs
  <2> HIDE DEF a
  <2> QED BY <1>4, <1>5, <1>7, <2>1 DEF Ended, p, m, o
<1>8. CASE e.rep.kind = "evict"
  <2>1. /\ Ended(a, u) /\ a.partial = u.partial
        /\ a.failed = u.failed /\ a.state = u.state /\ a.save = u.save
        /\ IF (complete /\ e.rep.current) \/ (~complete /\ u.partial)
           THEN a.evicted /\ ~a.modified
           ELSE a.evicted = u.evicted /\ a.modified = u.modified
    BY <1>0, <1>4, <1>8, AnsweredIs
  <2> HIDE DEF a
  <2> QED BY <1>4, <1>5, <1>8, <2>1 DEF Ended, p, m, o
<1> QED BY <1>0, <1>6, <1>7, <1>8 DEF Reps

LEMMA OutcomeKeeps ==
  ASSUME NEW e \in Editors, e.rep.kind # "none", NEW complete \in BOOLEAN, NEW f, NEW size,
         LoadBrings(e, f, size), RepBrings(e, f, size), SaveHolds(e, f, size)
  PROVE  LET o == Outcome(e, complete)
         IN  /\ LoadBrings(o, f, size) /\ RepBrings(o, f, size) /\ SaveHolds(o, f, size)
             /\ ~Changing(o) /\ o.save.step \in {"none", e.save.step} /\ ~Replacing(o)
             /\ o.save.step = "none" /\ e.save.step # "mirror" => e.save.step = "none"
<1> DEFINE o == Outcome(e, complete)
<1>0. /\ e.rep.kind \in {"restore", "evict", "mirror"} /\ ~Installing(e)
      /\ e.save.step \in {"none", "mirror"}
      /\ e.rep.kind = "mirror" <=> e.save.step = "mirror"
  BY DEF Editors, Reps, Writes, RepBrings, SaveHolds, Replacing
<1>1. /\ Ended(o, e) /\ o.rep = NoRep
      /\ e.rep.kind \in {"restore", "evict"} => o.state = e.state /\ o.save = e.save
      /\ e.rep.kind = "mirror" =>
           /\ o.save = NoWrite
           /\ o.state = IF complete /\ e.save.ticket THEN "Loaded" ELSE e.state
  BY OutcomeIs
<1> HIDE DEF o
<1>2. /\ o.rep.kind = "none" /\ o.rep.phase = "none" /\ NoWrite.step = "none"
      /\ o.load = e.load /\ o.waiting.kind = e.waiting.kind /\ o.waiting.body = e.waiting.body
  BY <1>1 DEF NoRep, NoWrite, Ended, SameRep
<1>3. LoadBrings(o, f, size)
  BY <1>0, <1>1, <1>2 DEF Ended, LoadBrings, SaveHolds, Writing, Installing, LoadInFlight
<1>4. RepBrings(o, f, size)
  BY <1>0, <1>1, <1>2 DEF RepBrings, Installing, Replacing
<1>5. SaveHolds(o, f, size)
  BY <1>0, <1>1, <1>2 DEF SaveHolds, Writing
<1>6. ~Changing(o) /\ o.save.step \in {"none", e.save.step} /\ ~Replacing(o)
      /\ (o.save.step = "none" /\ e.save.step # "mirror" => e.save.step = "none")
  BY <1>0, <1>1, <1>2 DEF Changing, Installing, Replacing
<1> QED BY <1>3, <1>4, <1>5, <1>6 DEF o

LEMMA OutcomeTrueSound ==
  ASSUME NEW e \in Editors, e.rep.kind # "none", NEW f, NEW size, NEW bare, WholeOf(size, f),
         LoadBrings(e, f, size), RepBrings(e, f, size), SaveHolds(e, f, size),
         IF e.rep.kind = "evict" THEN e.rep.current
         ELSE e.modified /\ WholeOf(size, e.text) /\ (e.rep.kind = "mirror" /\ e.save.ticket => e.text = f)
  PROVE  Sound(Outcome(e, TRUE), f, size, bare)
<1> DEFINE o == Outcome(e, TRUE)
<1>0. e.rep.kind \in {"restore", "evict", "mirror"} /\ e.modified \in BOOLEAN
  BY DEF Editors, Reps
<1>1. LoadBrings(o, f, size) /\ RepBrings(o, f, size) /\ SaveHolds(o, f, size)
  BY OutcomeKeeps
<1>2. /\ o.text = e.text /\ ~o.partial
      /\ e.rep.kind = "restore" => o.modified
      /\ e.rep.kind = "mirror" => o.modified \/ e.save.ticket
      /\ e.rep.kind = "evict" => o.evicted
  BY <1>0, OutcomeIs DEF Ended
<1> HIDE DEF o
<1>3. TextWhole(o, size) /\ CleanShows(o, f, bare)
  BY <1>0, <1>2 DEF TextWhole, CleanShows, Elsewhere
<1> QED BY <1>1, <1>3 DEF Sound, o

LEMMA OutcomeFalseSound ==
  ASSUME NEW e \in Editors, e.rep.kind # "none", NEW f, NEW size, NEW bare, WholeOf(size, f),
         LoadBrings(e, f, size), RepBrings(e, f, size), SaveHolds(e, f, size),
         IF e.rep.started THEN e.text = <<>> /\ e.rep.kind # "mirror"
         ELSE TextWhole(e, size) /\ CleanShows(e, f, bare)
  PROVE  Sound(Outcome(e, FALSE), f, size, bare)
<1> DEFINE o == Outcome(e, FALSE)
<1>0. /\ e.rep.kind \in {"restore", "evict", "mirror"} /\ e.modified \in BOOLEAN
      /\ e.rep.started \in BOOLEAN /\ e.partial \in BOOLEAN
      /\ ~Installing(e) /\ e.save.step \in {"none", "mirror"}
      /\ e.rep.kind = "mirror" <=> e.save.step = "mirror"
  BY DEF Editors, Reps, Writes, RepBrings, SaveHolds, Replacing
<1>1. /\ LoadBrings(o, f, size) /\ RepBrings(o, f, size) /\ SaveHolds(o, f, size)
      /\ o.save.step \in {"none", e.save.step} /\ ~Changing(o)
  BY OutcomeKeeps
<1>2. /\ o.text = e.text /\ o.incomplete = e.incomplete /\ o.load = e.load
      /\ o.partial <=> (e.partial \/ e.rep.started)
      /\ o.state = e.state /\ o.failed = e.failed
      /\ e.rep.kind = "restore" => o.evicted = e.evicted /\ (o.modified <=> (e.modified /\ ~e.rep.started))
      /\ e.rep.kind = "mirror" => o.modified /\ o.evicted = e.evicted
      /\ e.rep.kind = "evict" =>
           IF e.partial \/ e.rep.started THEN o.evicted
           ELSE o.evicted = e.evicted /\ (o.modified <=> e.modified)
  <2>1. /\ e.rep.kind = "restore" => o.state = e.state /\ o.failed = e.failed
                           /\ o.evicted = e.evicted /\ (o.modified <=> (e.modified /\ ~e.rep.started))
        /\ e.rep.kind = "mirror" => o.state = e.state /\ o.failed = e.failed /\ o.modified
                           /\ o.evicted = e.evicted
        /\ e.rep.kind = "evict" =>
             /\ o.state = e.state /\ o.failed = e.failed
             /\ IF e.partial \/ e.rep.started THEN o.evicted
                ELSE o.evicted = e.evicted /\ (o.modified <=> e.modified)
    BY OutcomeIs
  <2>2. /\ o.text = e.text /\ o.incomplete = e.incomplete /\ o.load = e.load
        /\ o.partial <=> (e.partial \/ e.rep.started)
    BY OutcomeIs DEF Ended
  <2> QED BY <1>0, <2>1, <2>2
<1> HIDE DEF o
<1>3. CASE e.rep.started
  <2>1. TextWhole(o, size) /\ CleanShows(o, f, bare)
    BY <1>0, <1>1, <1>2, <1>3 DEF TextWhole, CleanShows, Elsewhere
  <2> QED BY <1>1, <2>1 DEF Sound, o
<1>4. CASE ~e.rep.started
  <2>1. ~Changing(e)
    BY <1>0, <1>4 DEF Changing
  <2>2. TextWhole(o, size)
    <3>1. CASE Elsewhere(e)
      <4>1. e.evicted \/ e.incomplete
        BY <2>1, <3>1 DEF Elsewhere
      <4>2. e.evicted => o.evicted
        BY <1>0, <1>2, <1>4
      <4> QED BY <1>2, <4>1, <4>2 DEF TextWhole, Elsewhere
    <3>2. CASE WholeOf(size, e.text)
      BY <1>2, <3>2 DEF TextWhole
    <3>3. CASE ~Elsewhere(e) /\ ~WholeOf(size, e.text)
      <4>1. /\ e.text = <<>> /\ e.save.step = "none"
            /\ \/ e.state # "Loaded" /\ (e.load.step # "none" => e.load.error # "Loaded")
               \/ e.partial /\ ~e.modified
        BY <1>4, <3>3 DEF TextWhole
      <4>2. o.save.step = "none" /\ e.rep.kind \in {"restore", "evict"}
        BY <1>0, <1>1, <4>1
      <4>3. e.partial /\ ~e.modified => o.evicted \/ (o.partial /\ ~o.modified)
        BY <1>0, <1>2, <1>4, <4>2
      <4> QED BY <1>2, <4>1, <4>2, <4>3 DEF TextWhole, Elsewhere
    <3> QED BY <3>1, <3>2, <3>3
  <2>3. CleanShows(o, f, bare)
    <3>1. ASSUME ~Elsewhere(o), ~o.modified, ~o.partial
          PROVE  ~Elsewhere(e) /\ ~e.modified /\ ~e.partial
      <4>1. ~e.partial /\ ~e.modified
        BY <1>0, <1>2, <1>4, <3>1
      <4>2. o.evicted = e.evicted
        BY <1>0, <1>2, <1>4, <3>1, <4>1
      <4> QED BY <1>2, <2>1, <3>1, <4>1, <4>2 DEF Elsewhere
    <3>2. e.save.step # "ran" /\ (~o.modified => e.save.step # "mirror")
      BY <1>0, <1>2
    <3>3. CleanShows(e, f, bare)
      BY <1>4
    <3> QED BY <1>2, <3>1, <3>2, <3>3 DEF CleanShows
  <2> QED BY <1>1, <2>2, <2>3 DEF Sound, o
<1> QED BY <1>0, <1>3, <1>4

LEMMA BegunSound ==
  ASSUME NEW e \in Editors, NEW r \in Reps, NEW f, NEW size, NEW bare, Sound(e, f, size, bare),
         r.kind \in {"restore", "evict"}, ~r.started,
         IF r.kind = "evict" THEN r.body = <<>> ELSE WholeOf(size, r.body),
         ~Replacing(e), ~Installing(e), e.save.step = "none"
  PROVE  Sound(Begun(e, r), f, size, bare)
<1> DEFINE b == Begun(e, r)
<1>1. /\ b.text = e.text /\ b.rep.kind = r.kind /\ b.rep.phase = "clear"
      /\ b.rep.body = r.body /\ b.rep.started = r.started /\ b.waiting = e.waiting
  BY BegunIs
<1>2. /\ b.modified = e.modified /\ b.evicted = e.evicted /\ b.partial = e.partial
      /\ b.incomplete = e.incomplete /\ b.failed = e.failed /\ b.state = e.state
      /\ b.load = e.load /\ b.save = e.save
  BY DEF Begun, Editors
<1> HIDE DEF b
<1>3. TextWhole(b, size) /\ CleanShows(b, f, bare)
  BY <1>1, <1>2 DEF Sound, TextWhole, CleanShows, Elsewhere, Changing, Installing, Replacing
<1>4. LoadBrings(b, f, size)
  BY <1>1, <1>2 DEF Sound, LoadBrings, Installing, LoadInFlight
<1>5. RepBrings(b, f, size)
  BY <1>1, <1>2 DEF Sound, RepBrings, Installing, Replacing
<1>6. SaveHolds(b, f, size)
  BY <1>1, <1>2 DEF Sound, SaveHolds, Writing
<1> QED BY <1>3, <1>4, <1>5, <1>6 DEF Sound, b

LEMMA BeginRepSound ==
  ASSUME NEW e \in Editors, NEW r \in Reps, r.kind # "none", ~r.started, NEW f, NEW size, NEW bare,
         Sound(Begun(e, r), f, size, bare)
  PROVE  Sound(BeginRep(e, r), f, size, bare)
<1> DEFINE b == Begun(e, r)
           p == Put(b, r.body)
<1>0. r.body \in Texts
  BY DEF Reps
<1>1. /\ b \in Editors /\ b.rep.kind = r.kind /\ b.rep.phase = "clear"
      /\ b.rep.body = r.body /\ ~b.rep.started /\ b.rep.current = r.current
  BY BegunIs
<1>2. BeginRep(e, r) = IF Large(e.text) \/ Large(r.body) THEN b
                       ELSE IF IsCurrent(b, r) THEN Outcome(p, TRUE) ELSE Outcome(b, FALSE)
  BY DEF BeginRep, Begun
<1> HIDE DEF b
<1>3. /\ p \in Editors /\ SameRest(p, b) /\ p.load = b.load /\ p.text = r.body /\ p.modified
      /\ p.state = b.state
      /\ p.save = IF b.save.step = "capturing" THEN [b.save EXCEPT !.torn = TRUE] ELSE b.save
  BY <1>0, <1>1, PutIs
<1> HIDE DEF p
<1>4. Sound(b, f, size, bare)
  BY DEF b
<1>5. b.save.step \in {"none", "mirror"} /\ p.save = b.save
  BY <1>1, <1>3, <1>4 DEF Sound, SaveHolds, Replacing, Editors, Writes
<1>6. ASSUME IsCurrent(b, r)
      PROVE  Sound(Outcome(p, TRUE), f, size, bare)
  <2>1. LoadBrings(p, f, size)
    BY <1>1, <1>3, <1>4, <1>5 DEF Sound, LoadBrings, RepBrings, Replacing, Installing, LoadInFlight
  <2>2. RepBrings(p, f, size)
    BY <1>1, <1>3, <1>4, <1>5 DEF Sound, RepBrings, Replacing, Installing, SameRest
  <2>3. SaveHolds(p, f, size)
    BY <1>1, <1>3, <1>4, <1>5 DEF Sound, SaveHolds, Replacing, Writing, Installing, LoadInFlight, SameRest
  <2>4. IF p.rep.kind = "evict" THEN p.rep.current
        ELSE p.modified /\ WholeOf(size, p.text) /\ (p.rep.kind = "mirror" /\ p.save.ticket => p.text = f)
    BY <1>1, <1>3, <1>4, <1>5, <1>6 DEF Sound, RepBrings, IsCurrent, SameRest
  <2>5. p.rep.kind # "none" /\ WholeOf(size, f)
    BY <1>1, <1>3, <1>4 DEF SameRest, Sound
  <2> QED BY <1>3, <2>1, <2>2, <2>3, <2>4, <2>5, OutcomeTrueSound
<1>7. Sound(Outcome(b, FALSE), f, size, bare)
  BY <1>1, <1>4, OutcomeFalseSound DEF Sound
<1> QED BY <1>2, <1>4, <1>6, <1>7

LEMMA FinishRepSound ==
  ASSUME NEW e \in Editors, e.rep.kind # "none", NEW complete \in BOOLEAN,
         e.waiting.phase = "none", ~e.waiting.started, NEW f, NEW size, NEW bare,
         Sound(Outcome(e, complete), f, size, bare),
         e.waiting.kind # "none" => e.waiting.kind = "restore" /\ WholeOf(size, e.waiting.body)
                                    /\ e.save.step = "none" /\ ~Installing(e)
  PROVE  Sound(FinishRep(e, complete), f, size, bare)
<1> DEFINE o == Outcome(e, complete)
           d == [o EXCEPT !.waiting = NoRep]
           r == o.waiting
<1>1. /\ o \in Editors /\ o.rep = NoRep /\ SameRep(r, e.waiting) /\ o.load = e.load
      /\ e.rep.kind \in {"restore", "evict"} => o.save = e.save
      /\ e.rep.kind = "mirror" => o.save = NoWrite
  BY OutcomeIs DEF Ended
<1>2. FinishRep(e, complete) = IF r.kind = "none" THEN o ELSE BeginRep(d, r)
  BY DEF FinishRep
<1>3. CASE e.waiting.kind = "none"
  BY <1>1, <1>2, <1>3 DEF SameRep
<1>4. CASE e.waiting.kind # "none"
  <2> HIDE DEF o
  <2>1. /\ r \in Reps /\ r.kind = "restore" /\ ~r.started /\ WholeOf(size, r.body)
    BY <1>1, <1>4 DEF SameRep, Editors
  <2>a. e.rep.kind \in {"restore", "evict", "mirror"} /\ NoWrite.step = "none"
    BY DEF NoWrite, Editors, Reps
  <2>2. o.save.step = "none"
    BY <1>1, <1>4, <2>a
  <2>3. /\ d \in Editors /\ d.text = o.text /\ d.modified = o.modified /\ d.evicted = o.evicted
        /\ d.partial = o.partial /\ d.incomplete = o.incomplete /\ d.failed = o.failed
        /\ d.state = o.state /\ d.load = o.load /\ d.save = o.save /\ d.rep = NoRep
        /\ d.waiting = NoRep
    BY <1>1, NoneOK DEF Editors
  <2>4. Sound(o, f, size, bare)
    BY DEF o
  <2> HIDE DEF d, r
  <2>5. ~Replacing(d) /\ ~Installing(d) /\ d.save.step = "none" /\ NoRep.kind = "none"
    BY <1>1, <1>4, <2>2, <2>3 DEF Replacing, Installing, NoRep
  <2>6. Sound(d, f, size, bare)
    <3>1. TextWhole(d, size) /\ CleanShows(d, f, bare)
      BY <1>1, <2>3, <2>4 DEF Sound, TextWhole, CleanShows, Elsewhere, Changing, Installing, Replacing
    <3>2. LoadBrings(d, f, size)
      BY <2>3, <2>4 DEF Sound, LoadBrings, Installing, LoadInFlight
    <3>3. RepBrings(d, f, size)
      BY <1>1, <2>3, <2>4, <2>5 DEF Sound, RepBrings, Installing, Replacing
    <3>4. SaveHolds(d, f, size)
      BY <2>3, <2>4, <2>5 DEF Sound, SaveHolds, Writing
    <3> QED BY <2>4, <3>1, <3>2, <3>3, <3>4 DEF Sound
  <2>7. Sound(Begun(d, r), f, size, bare)
    BY <2>1, <2>3, <2>5, <2>6, BegunSound
  <2>8. Sound(BeginRep(d, r), f, size, bare)
    BY <2>1, <2>3, <2>7, BeginRepSound
  <2> QED BY <1>2, <2>1, <2>8 DEF r
<1> QED BY <1>3, <1>4

\* What no replacement changes but by its outcome.
LEMMA ReplacingMeans ==
  ASSUME NEW e, EditorOK(e), Replacing(e), NEW f, NEW size, NEW bare, Sound(e, f, size, bare)
  PROVE  /\ e \in Editors /\ e.rep.kind \in {"restore", "evict", "mirror"}
         /\ e.rep.phase \in {"clear", "insert", "cancel"} /\ e.rep.body \in Texts /\ e.text \in Texts
         /\ e.save.step \in {"none", "mirror"} /\ ~Installing(e)
         /\ e.rep.kind = "mirror" <=> e.save.step = "mirror"
         /\ e.waiting.phase = "none" /\ ~e.waiting.started
         /\ e.waiting.kind # "none" =>
              /\ e.rep.phase = "cancel" /\ e.waiting.kind = "restore" /\ WholeOf(size, e.waiting.body)
              /\ e.save.step = "none"
         /\ e.rep.started \in BOOLEAN
<1>1. e \in Editors /\ e.rep \in Reps /\ e.save \in Writes /\ e.text \in Texts
  BY DEF EditorOK, Editors
<1>2. /\ e.rep.kind \in {"restore", "evict", "mirror"}
      /\ e.rep.phase \in {"clear", "insert", "cancel"} /\ e.rep.body \in Texts
      /\ e.rep.started \in BOOLEAN
      /\ e.waiting.phase = "none" /\ ~e.waiting.started
      /\ e.waiting.kind # "none" => e.rep.phase = "cancel"
  BY <1>1 DEF EditorOK, Replacing, Reps
<1>3. e.save.step \in {"none", "mirror"} /\ ~Installing(e)
      /\ (e.rep.kind = "mirror" <=> e.save.step = "mirror")
  BY <1>1 DEF Sound, RepBrings, SaveHolds, Writes
<1>4. e.waiting.kind # "none" => e.waiting.kind = "restore" /\ WholeOf(size, e.waiting.body)
  BY DEF Sound, RepBrings
<1>5. e.rep.phase = "cancel" => e.rep.kind # "mirror"
  BY DEF Sound, RepBrings
<1> QED BY <1>1, <1>2, <1>3, <1>4, <1>5

LEMMA CancelRepSound ==
  ASSUME NEW e, EditorOK(e), Replacing(e), NEW f, NEW size, NEW bare, Sound(e, f, size, bare),
         ~(e.rep.kind = "mirror" /\ e.rep.started)
  PROVE  /\ Sound(CancelRep(e), f, size, bare)
         /\ e.save.step = "none" => CancelRep(e).save.step = "none"
         /\ ~Installing(CancelRep(e))
<1>0. /\ e \in Editors /\ e.rep.kind \in {"restore", "evict", "mirror"}
      /\ e.save.step \in {"none", "mirror"} /\ ~Installing(e)
      /\ e.waiting.phase = "none" /\ ~e.waiting.started
      /\ e.waiting.kind # "none" => e.rep.phase = "cancel"
      /\ e.rep.kind = "mirror" <=> e.save.step = "mirror"
  BY ReplacingMeans
<1>1. CASE e.rep.started
  <2> DEFINE c == Cancelling(e)
  <2>1. CancelRep(e) = c
    BY <1>1 DEF CancelRep, Cancelling
  <2>2. /\ c.waiting = e.waiting /\ c.rep.kind = e.rep.kind /\ c.rep.phase = "cancel"
        /\ c.rep.body = <<>> /\ c.rep.started = e.rep.started
    BY <1>0, CancellingIs
  <2>3. /\ c.text = e.text /\ c.modified = e.modified /\ c.evicted = e.evicted
        /\ c.partial = e.partial /\ c.incomplete = e.incomplete /\ c.failed = e.failed
        /\ c.state = e.state /\ c.load = e.load /\ c.save = e.save
    BY <1>0 DEF Cancelling, Editors
  <2> HIDE DEF c
  <2>4. TextWhole(c, size) /\ CleanShows(c, f, bare)
    BY <1>0, <1>1, <2>2 DEF TextWhole, CleanShows, Elsewhere, Changing, Replacing
  <2>5. LoadBrings(c, f, size)
    BY <2>3 DEF Sound, LoadBrings, Installing, LoadInFlight
  <2>6. RepBrings(c, f, size)
    BY <1>0, <1>1, <2>2, <2>3 DEF Sound, RepBrings, Installing, Replacing
  <2>7. SaveHolds(c, f, size)
    BY <2>2, <2>3 DEF Sound, SaveHolds, Installing, Replacing, Writing, LoadInFlight
  <2>8. Sound(c, f, size, bare)
    BY <2>4, <2>5, <2>6, <2>7 DEF Sound
  <2> QED BY <1>0, <2>1, <2>3, <2>8 DEF Installing
<1>2. CASE ~e.rep.started
  <2>1. e.waiting.kind = "none"
    BY <1>0, <1>2 DEF EditorOK
  <2>2. CancelRep(e) = FinishRep(e, FALSE)
    BY <1>2 DEF CancelRep
  <2>3. Sound(Outcome(e, FALSE), f, size, bare)
    BY <1>0, <1>2, OutcomeFalseSound DEF Sound
  <2>4. Sound(FinishRep(e, FALSE), f, size, bare)
    BY <1>0, <2>1, <2>3, FinishRepSound
  <2>5. FinishRep(e, FALSE) = Outcome(e, FALSE)
    <3>1. SameRep(Outcome(e, FALSE).waiting, e.waiting)
      BY <1>0, OutcomeOK
    <3> QED BY <2>1, <3>1 DEF FinishRep, SameRep
  <2>6. Outcome(e, FALSE).save.step \in {"none", e.save.step} /\ Outcome(e, FALSE).load = e.load
    BY <1>0, OutcomeKeeps, OutcomeIs DEF Sound, Ended
  <2> QED BY <1>0, <2>2, <2>4, <2>5, <2>6 DEF Installing
<1> QED BY <1>1, <1>2

LEMMA AcceptRepSound ==
  ASSUME NEW e, EditorOK(e), NEW r \in Reps, NEW f, NEW size, NEW bare, Sound(e, f, size, bare),
         r.kind \in {"restore", "evict"}, r.phase = "none", ~r.started,
         IF r.kind = "evict" THEN r.body = <<>> ELSE WholeOf(size, r.body),
         r.kind = "evict" => ~Replacing(e),
         e.save.step = "none", ~Installing(e)
  PROVE  Sound(AcceptRep(e, r), f, size, bare)
<1>0. e \in Editors
  BY DEF EditorOK
<1>1. CASE ~Replacing(e)
  <2>1. Sound(Begun(e, r), f, size, bare)
    BY <1>0, <1>1, BegunSound
  <2> QED BY <1>0, <1>1, <2>1, BeginRepSound DEF AcceptRep
<1>2. CASE Replacing(e)
  <2> DEFINE c == CancelRep(e)
  <2>1. e.rep.kind # "mirror" /\ e.rep.kind # "none" /\ r.kind = "restore"
    BY <1>2, ReplacingMeans DEF Replacing
  <2>2. Sound(c, f, size, bare) /\ c.save.step = "none" /\ ~Installing(c)
    BY <1>2, <2>1, CancelRepSound
  <2>3. EditorOK(c) /\ c \in Editors
    BY <2>1, CancelRepOK DEF EditorOK
  <2>4. AcceptRep(e, r) = IF ~Replacing(c) THEN BeginRep(c, r)
                          ELSE [Displaced(c, c.waiting) EXCEPT !.waiting = r]
    BY <1>2 DEF AcceptRep
  <2> HIDE DEF c
  <2>5. CASE ~Replacing(c)
    <3>1. Sound(Begun(c, r), f, size, bare)
      BY <2>2, <2>3, <2>5, BegunSound
    <3> QED BY <2>3, <2>4, <2>5, <3>1, BeginRepSound
  <2>6. CASE Replacing(c)
    <3> DEFINE d == [c EXCEPT !.waiting = r]
    <3>1. Displaced(c, c.waiting) = c
      BY <2>2 DEF Displaced, Sound, RepBrings
    <3>2. /\ d.text = c.text /\ d.modified = c.modified /\ d.evicted = c.evicted
          /\ d.partial = c.partial /\ d.incomplete = c.incomplete /\ d.failed = c.failed
          /\ d.state = c.state /\ d.load = c.load /\ d.save = c.save /\ d.rep = c.rep
          /\ d.waiting = r
      BY <2>3 DEF Editors
    <3> HIDE DEF d
    <3>3. TextWhole(d, size) /\ CleanShows(d, f, bare)
      BY <2>2, <3>2 DEF Sound, TextWhole, CleanShows, Elsewhere, Changing, Installing, Replacing
    <3>4. LoadBrings(d, f, size)
      BY <2>2, <3>2 DEF Sound, LoadBrings, Installing, LoadInFlight
    <3>5. RepBrings(d, f, size)
      BY <2>1, <2>2, <3>2 DEF Sound, RepBrings, Installing, Replacing
    <3>6. SaveHolds(d, f, size)
      BY <2>2, <3>2 DEF Sound, SaveHolds, Installing, Replacing, Writing, LoadInFlight
    <3>7. Sound(d, f, size, bare)
      BY <2>2, <3>3, <3>4, <3>5, <3>6 DEF Sound
    <3> QED BY <2>4, <2>6, <3>1, <3>7 DEF d
  <2> QED BY <2>5, <2>6
<1> QED BY <1>1, <1>2

LEMMA SlicedSound ==
  ASSUME NEW e, EditorOK(e), Replacing(e), e.rep.phase \in {"clear", "cancel"},
         NEW f, NEW size, NEW bare, Sound(e, f, size, bare), Sliced(e).text # <<>>
  PROVE  Sound(Sliced(e), f, size, bare)
<1> DEFINE c == Sliced(e)
<1>0. /\ e \in Editors /\ e.rep.kind # "none" /\ e.save.step \in {"none", "mirror"} /\ ~Installing(e)
  BY ReplacingMeans
<1>1. /\ c.waiting = e.waiting
      /\ c.rep.kind = e.rep.kind /\ c.rep.phase = e.rep.phase /\ c.rep.body = e.rep.body
      /\ c.rep.started <=> (e.rep.started \/ e.text # <<>>)
      /\ c.text = IF e.text = <<>> THEN <<>> ELSE Tail(e.text)
      /\ c.evicted = e.evicted /\ c.partial = e.partial /\ c.incomplete = e.incomplete
      /\ c.failed = e.failed /\ c.state = e.state /\ c.load = e.load /\ c.save = e.save
  BY <1>0, SlicedIs
<1> HIDE DEF c
<1>2. c.rep.started
  BY <1>1 DEF c
<1>3. TextWhole(c, size) /\ CleanShows(c, f, bare)
  BY <1>0, <1>1, <1>2 DEF TextWhole, CleanShows, Elsewhere, Changing, Replacing
<1>4. LoadBrings(c, f, size)
  BY <1>0, <1>1 DEF Sound, LoadBrings, Installing, LoadInFlight
<1>5. RepBrings(c, f, size)
  BY <1>1 DEF Sound, RepBrings, Installing, Replacing
<1>6. SaveHolds(c, f, size)
  BY <1>0, <1>1 DEF Sound, SaveHolds, Installing, Replacing, Writing, LoadInFlight
<1> QED BY <1>3, <1>4, <1>5, <1>6 DEF Sound, c

LEMMA RepTurnedSound ==
  ASSUME NEW e, EditorOK(e), Replacing(e), NEW f, NEW size, NEW bare, Sound(e, f, size, bare),
         ~(e.rep.kind = "mirror" /\ e.rep.started /\ ~IsCurrent(e, e.rep))
  PROVE  Sound(RepTurned(e), f, size, bare)
<1> DEFINE c == Sliced(e)
           g == Grown(e)
           i == [c EXCEPT !.rep.phase = "insert"]
<1>0. /\ e \in Editors /\ e.rep.kind \in {"restore", "evict", "mirror"}
      /\ e.rep.phase \in {"clear", "insert", "cancel"} /\ e.rep.body \in Texts /\ e.text \in Texts
      /\ e.save.step \in {"none", "mirror"} /\ ~Installing(e)
      /\ e.rep.kind = "mirror" <=> e.save.step = "mirror"
      /\ e.waiting.phase = "none" /\ ~e.waiting.started
      /\ e.waiting.kind # "none" =>
           /\ e.rep.phase = "cancel" /\ e.waiting.kind = "restore" /\ WholeOf(size, e.waiting.body)
           /\ e.save.step = "none"
      /\ e.rep.started \in BOOLEAN
  BY ReplacingMeans
<1>1. /\ c \in Editors /\ c.waiting = e.waiting
      /\ c.rep.kind = e.rep.kind /\ c.rep.phase = e.rep.phase /\ c.rep.body = e.rep.body
      /\ c.rep.current = e.rep.current
      /\ c.rep.started <=> (e.rep.started \/ e.text # <<>>)
      /\ c.text = IF e.text = <<>> THEN <<>> ELSE Tail(e.text)
      /\ c.modified <=> (e.modified \/ e.text # <<>>)
      /\ c.evicted = e.evicted /\ c.partial = e.partial /\ c.incomplete = e.incomplete
      /\ c.failed = e.failed /\ c.state = e.state /\ c.load = e.load /\ c.save = e.save
  BY <1>0, SlicedIs
<1>2. ASSUME e.rep.phase \in {"clear", "cancel"}, c.text # <<>>
      PROVE  Sound(c, f, size, bare)
  BY <1>2, SlicedSound
<1>d. c = Sliced(e) /\ g = Grown(e) /\ i = [c EXCEPT !.rep.phase = "insert"]
  OBVIOUS
<1> HIDE DEF c, i
<1>3. ASSUME e.rep.phase \in {"clear", "cancel"}
      PROVE  LoadBrings(c, f, size) /\ RepBrings(c, f, size) /\ SaveHolds(c, f, size) /\ WholeOf(size, f)
  <2>1. LoadBrings(c, f, size)
    BY <1>0, <1>1 DEF Sound, LoadBrings, Installing, LoadInFlight
  <2>2. RepBrings(c, f, size)
    BY <1>1, <1>3 DEF Sound, RepBrings, Installing, Replacing
  <2>3. SaveHolds(c, f, size)
    BY <1>0, <1>1 DEF Sound, SaveHolds, Installing, Replacing, Writing, LoadInFlight
  <2> QED BY <2>1, <2>2, <2>3 DEF Sound
<1>4. c.rep.kind # "none" /\ c.waiting.phase = "none" /\ ~c.waiting.started
      /\ (c.waiting.kind # "none" => c.waiting.kind = "restore" /\ WholeOf(size, c.waiting.body)
                                    /\ c.save.step = "none" /\ ~Installing(c))
  BY <1>0, <1>1 DEF Installing
<1>5. ASSUME e.rep.phase = "cancel", c.text = <<>>
      PROVE  Sound(FinishRep(c, FALSE), f, size, bare)
  <2>1. c.rep.started /\ c.rep.kind # "mirror"
    BY <1>0, <1>1, <1>5 DEF EditorOK, Sound, RepBrings
  <2>2. Sound(Outcome(c, FALSE), f, size, bare)
    BY <1>1, <1>3, <1>4, <1>5, <2>1, OutcomeFalseSound
  <2> QED BY <1>1, <1>4, <2>2, FinishRepSound
<1>6. ASSUME e.rep.phase = "clear", e.rep.body = <<>>, IsCurrent(e, e.rep)
      PROVE  Sound(FinishRep(c, TRUE), f, size, bare)
  <2>0. \A text : WholeOf(size, text) => text # <<>>
    BY DEF WholeOf
  <2>1. e.rep.kind = "evict" /\ e.rep.current
    <3>1. e.rep.kind = "evict"
      BY <1>0, <1>6, <2>0 DEF Sound, RepBrings
    <3> QED BY <1>6, <3>1 DEF IsCurrent
  <2>2. Sound(Outcome(c, TRUE), f, size, bare)
    BY <1>1, <1>3, <1>4, <1>6, <2>1, OutcomeTrueSound
  <2> QED BY <1>1, <1>4, <2>2, FinishRepSound
<1>7. ASSUME e.rep.phase = "clear", e.rep.body # <<>>, c.text = <<>>
      PROVE  Sound(i, f, size, bare)
  <2>1. /\ i.text = c.text /\ i.modified = c.modified /\ i.evicted = c.evicted
        /\ i.partial = c.partial /\ i.incomplete = c.incomplete /\ i.failed = c.failed
        /\ i.state = c.state /\ i.load = c.load /\ i.save = c.save /\ i.waiting = c.waiting
        /\ i.rep.kind = c.rep.kind /\ i.rep.phase = "insert" /\ i.rep.body = c.rep.body
        /\ i.rep.started = c.rep.started
    BY <1>1 DEF i, Editors, Reps
  <2>2. i.text \o i.rep.body = e.rep.body
    BY <1>0, <1>1, <1>7, <2>1, Joined
  <2>3. e.rep.kind # "evict"
    BY <1>7 DEF Sound, RepBrings
  <2>4. LoadBrings(i, f, size)
    BY <1>3, <1>7, <2>1 DEF LoadBrings, Installing, LoadInFlight
  <2>5. RepBrings(i, f, size)
    BY <1>1, <1>3, <1>7, <2>1, <2>2, <2>3 DEF RepBrings, Installing, Replacing
  <2>6. SaveHolds(i, f, size)
    BY <1>0, <1>1, <1>3, <1>7, <2>1 DEF SaveHolds, Installing, Replacing, Writing, LoadInFlight
  <2>7. TextWhole(i, size) /\ CleanShows(i, f, bare)
    <3>1. CASE c.rep.started
      BY <1>4, <2>1, <3>1 DEF TextWhole, CleanShows, Elsewhere, Changing, Replacing
    <3>2. CASE ~c.rep.started
      <4>1. /\ e.text = <<>> /\ i.text = e.text /\ ~e.rep.started /\ ~i.rep.started
            /\ i.modified <=> e.modified
            /\ i.evicted = e.evicted /\ i.partial = e.partial /\ i.incomplete = e.incomplete
            /\ i.failed = e.failed /\ i.state = e.state /\ i.load = e.load /\ i.save = e.save
        BY <1>0, <1>1, <2>1, <3>2
      <4>2. TextWhole(e, size) /\ CleanShows(e, f, bare)
        BY DEF Sound
      <4>3. TextWhole(i, size)
        BY <4>1, <4>2 DEF TextWhole, Elsewhere, Changing, Installing
      <4>4. CleanShows(i, f, bare)
        BY <4>1, <4>2 DEF CleanShows, Elsewhere, Changing, Installing
      <4> QED BY <4>3, <4>4
    <3> QED BY <3>1, <3>2
  <2> QED BY <1>3, <1>7, <2>4, <2>5, <2>6, <2>7 DEF Sound
<1>8. ASSUME e.rep.phase = "insert"
      PROVE  /\ g \in Editors /\ Sound(g, f, size, bare)
             /\ g.rep.body = <<>> => Sound(FinishRep(g, TRUE), f, size, bare)
  <2>1. e.rep.body # <<>>
    BY <1>8 DEF EditorOK
  <2>2. /\ g \in Editors /\ g.waiting = e.waiting
        /\ g.rep.kind = e.rep.kind /\ g.rep.phase = e.rep.phase
        /\ g.rep.body = Tail(e.rep.body) /\ g.rep.current = e.rep.current /\ g.rep.started
        /\ g.text = Append(e.text, Head(e.rep.body)) /\ g.modified
        /\ g.evicted = e.evicted /\ g.partial = e.partial /\ g.incomplete = e.incomplete
        /\ g.failed = e.failed /\ g.state = e.state /\ g.load = e.load /\ g.save = e.save
    BY <1>0, <2>1, GrownIs
  <2>3. g.text \o g.rep.body = e.text \o e.rep.body
    BY <1>0, <2>1, <2>2, Joined
  <2> HIDE DEF g
  <2>4. LoadBrings(g, f, size)
    BY <1>0, <2>2 DEF Sound, LoadBrings, Installing, LoadInFlight
  <2>5. RepBrings(g, f, size)
    BY <1>8, <2>2, <2>3 DEF Sound, RepBrings, Installing, Replacing
  <2>6. SaveHolds(g, f, size)
    BY <1>0, <2>2 DEF Sound, SaveHolds, Installing, Replacing, Writing, LoadInFlight
  <2>7. TextWhole(g, size) /\ CleanShows(g, f, bare)
    BY <1>0, <2>2 DEF TextWhole, CleanShows, Elsewhere, Changing, Replacing
  <2>8. Sound(g, f, size, bare)
    BY <2>4, <2>5, <2>6, <2>7 DEF Sound
  <2>9. ASSUME g.rep.body = <<>>
        PROVE  Sound(FinishRep(g, TRUE), f, size, bare)
    <3>1. g.text \in Texts /\ g.text \o g.rep.body = g.text
      BY <2>2, <2>9, Joined DEF Editors
    <3>2. /\ g.rep.kind # "evict" /\ WholeOf(size, g.text)
          /\ g.rep.kind = "mirror" /\ g.save.ticket => g.text = f
      BY <1>8, <2>2, <2>5, <3>1 DEF RepBrings
    <3>3. g.rep.kind # "none"
      BY <1>0, <2>2
    <3>4. Sound(Outcome(g, TRUE), f, size, bare)
      BY <2>2, <2>8, <3>2, <3>3, OutcomeTrueSound DEF Sound
    <3>5. g.waiting.phase = "none" /\ ~g.waiting.started /\ g.waiting.kind = "none"
      BY <1>0, <1>8, <2>2
    <3> QED BY <2>2, <3>3, <3>4, <3>5, FinishRepSound
  <2> QED BY <2>2, <2>8, <2>9
<1>9. ASSUME ~IsCurrent(e, e.rep)
      PROVE  Sound(CancelRep(e), f, size, bare)
  BY <1>9, CancelRepSound
<1> HIDE DEF g
<1> QED BY <1>0, <1>2, <1>5, <1>6, <1>7, <1>8, <1>9, <1>d, RepTurnedCases

LEMMA InsertIs ==
  ASSUME NEW e \in Editors, NEW text \in Texts
  PROVE  LET x == [Put(e, e.text \o text) EXCEPT !.save.ticket = FALSE, !.hist.current = FALSE]
         IN  /\ Twin(Insert(e, text), x) /\ x \in Editors
             /\ x.text = e.text \o text /\ x.modified /\ x.evicted = e.evicted
             /\ x.partial = e.partial /\ x.incomplete = e.incomplete /\ x.failed = e.failed
             /\ x.state = e.state /\ x.load = e.load /\ x.rep = e.rep /\ x.waiting = e.waiting
             /\ x.held = e.held /\ ~x.hist.current
             /\ ~x.save.ticket /\ x.save.step = e.save.step /\ x.save.text = e.save.text /\ x.save.out = e.save.out
             /\ x.save.was = e.save.was /\ x.save.path = e.save.path
             /\ x.save.result = e.save.result
             /\ x.save.step = "capturing" => x.save.torn
<1> DEFINE p == Put(e, e.text \o text)
           x == [p EXCEPT !.save.ticket = FALSE, !.hist.current = FALSE]
<1>0. e.text \o text \in Texts /\ e.save \in Writes
  BY TextOps DEF Editors
<1>1. /\ p \in Editors /\ SameRest(p, e) /\ p.load = e.load
      /\ p.text = e.text \o text /\ p.modified /\ p.incomplete = e.incomplete
      /\ p.failed = e.failed /\ p.state = e.state
      /\ p.save = IF e.save.step = "capturing" THEN [e.save EXCEPT !.torn = TRUE] ELSE e.save
  BY <1>0, PutIs
<1>2. Insert(e, text) = Notify(Advance(p))
  BY DEF Insert
<1> HIDE DEF p
<1>3. x \in Editors /\ Twin(Advance(p), x)
  BY <1>1, AdvanceTwin
<1>4. Twin(Insert(e, text), x)
  <2>1. Twin(Notify(Advance(p)), Advance(p))
    BY <1>3, NotifyTwin DEF Twin
  <2> QED BY <1>2, <1>3, <2>1, TwinTwin
<1>5. /\ x.text = p.text /\ x.modified = p.modified /\ x.evicted = p.evicted
      /\ x.partial = p.partial /\ x.incomplete = p.incomplete /\ x.failed = p.failed
      /\ x.state = p.state /\ x.load = p.load /\ x.rep = p.rep /\ x.waiting = p.waiting
      /\ x.held = p.held /\ x.hist.current = FALSE
      /\ x.save = [p.save EXCEPT !.ticket = FALSE]
  BY <1>1 DEF Editors
<1> HIDE DEF x
<1>6. /\ ~x.save.ticket /\ x.save.step = e.save.step /\ x.save.text = e.save.text /\ x.save.out = e.save.out
      /\ x.save.was = e.save.was /\ x.save.path = e.save.path
      /\ x.save.result = e.save.result
      /\ x.save.step = "capturing" => x.save.torn
  BY <1>0, <1>1, <1>5 DEF Writes
<1> QED BY <1>1, <1>3, <1>4, <1>5, <1>6 DEF SameRest, x, p

LEMMA InsertSound ==
  ASSUME NEW e, EditorOK(e), NEW text \in TypedTexts, text # <<>>, NEW f, NEW size \in Nat, NEW bare,
         Sound(e, f, size, bare), ~Locked(e), e.state # "Loading"
  PROVE  Sound(Insert(e, text), f, size, bare)
<1> DEFINE x == [Put(e, e.text \o text) EXCEPT !.save.ticket = FALSE, !.hist.current = FALSE]
<1>0. /\ e \in Editors /\ text \in Texts /\ e.text \in Texts
      /\ ~Replacing(e) /\ ~Installing(e) /\ e.rep.phase = "none" /\ e.load.step = "none"
      /\ e.save.step \in {"none", "queued"}
  BY TypedIsText DEF EditorOK, Editors, Writes, Locked, Writing, Replacing, Sound, LoadBrings,
                     LoadInFlight
<1>1. /\ Twin(Insert(e, text), x) /\ x \in Editors
      /\ x.text = e.text \o text /\ x.modified /\ x.evicted = e.evicted
      /\ x.partial = e.partial /\ x.incomplete = e.incomplete /\ x.failed = e.failed
      /\ x.state = e.state /\ x.load = e.load /\ x.rep = e.rep /\ x.waiting = e.waiting
      /\ x.held = e.held /\ ~x.hist.current
      /\ ~x.save.ticket /\ x.save.step = e.save.step /\ x.save.text = e.save.text /\ x.save.out = e.save.out
      /\ x.save.was = e.save.was /\ x.save.path = e.save.path /\ x.save.result = e.save.result
      /\ x.save.step = "capturing" => x.save.torn
  <2>1. e \in Editors /\ text \in Texts
    BY <1>0
  <2> QED BY <2>1, InsertIs, Zenon
<1> HIDE DEF x
<1>2. Elsewhere(x) \/ WholeOf(size, x.text)
  <2>1. Elsewhere(e) \/ WholeOf(size, e.text) \/ e.text = <<>>
    BY DEF Sound, TextWhole
  <2>2. Elsewhere(e) => Elsewhere(x)
    BY <1>0, <1>1 DEF Elsewhere, Changing
  <2> QED BY <1>0, <1>1, <2>1, <2>2, TypedIsTail, WholeGrows
<1>3. TextWhole(x, size) /\ CleanShows(x, f, bare)
  BY <1>1, <1>2 DEF TextWhole, CleanShows
<1>4. LoadBrings(x, f, size)
  BY <1>0, <1>1 DEF Sound, LoadBrings, Installing, LoadInFlight
<1>5. RepBrings(x, f, size)
  BY <1>0, <1>1 DEF Sound, RepBrings, Installing, Replacing
<1>6. SaveHolds(x, f, size)
  BY <1>0, <1>1 DEF Sound, SaveHolds, Installing, Replacing, Writing
<1> QED BY <1>1, <1>3, <1>4, <1>5, <1>6, TwinKin, KinSound DEF Sound

-----------------------------------------------------------------------------
(* What was typed. *)

LEMMA SpendOK ==
  ASSUME left \in BufferBounds,
         NEW what \in {"typed", "looks", "reloads", "renames", "evicts", "restores", "saves", "faults"},
         Spend(what)
  PROVE  left' \in BufferBounds /\ left'.size = left.size
<1>1. left[what] \in Nat /\ left[what] > 0
  BY DEF BufferBounds, Spend
<1>2. left' = [left EXCEPT ![what] = left[what] - 1] /\ left[what] - 1 \in Nat
  BY <1>1 DEF Spend
<1> QED BY <1>2 DEF BufferBounds

Fates == [typed : Nat, kept : SUBSET ({"typed"} \X Nat), stray : SUBSET ({"typed"} \X Nat),
          bare : SUBSET Texts, crossed : BOOLEAN]

LEMMA CrossingOK ==
  ASSUME fate \in Fates, NEW test \in BOOLEAN, Crossing(test)
  PROVE  /\ fate' \in Fates /\ fate'.typed = fate.typed /\ fate'.kept = fate.kept
         /\ fate'.stray = fate.stray /\ fate'.bare = fate.bare
         /\ (fate'.crossed <=> (fate.crossed \/ test))
<1>1. fate' = [fate EXCEPT !.crossed = fate.crossed \/ test]
  BY DEF Crossing
<1>2. (fate.crossed \/ test) \in BOOLEAN
  BY DEF Fates
<1> QED BY <1>1, <1>2 DEF Fates

LEMMA TypedOf ==
  ASSUME NEW text \in Texts
  PROVE  Typed(text) \in SUBSET ({"typed"} \X Nat)
         /\ \A n \in Nat : <<"typed", n>> \in ToSet(text) => <<"typed", n>> \in Typed(text)
<1>1. ToSet(text) \subseteq {"file", "hist", "typed", "newline"} \X Nat
  BY DEF Texts, ToSet
<1>2. ASSUME NEW p \in {"file", "hist", "typed", "newline"} \X Nat, p[1] = "typed"
      PROVE  p \in {"typed"} \X Nat
  BY <1>2
<1>3. Typed(text) = {p \in ToSet(text) : p[1] = "typed"}
  BY DEF Typed
<1>4. \A n \in Nat : <<"typed", n>>[1] = "typed"
  OBVIOUS
<1> QED BY <1>1, <1>2, <1>3, <1>4

LEMMA SetOf ==
  ASSUME NEW s \in Texts, NEW t \in Texts
  PROVE  ToSet(s \o t) = ToSet(s) \cup ToSet(t)
<1>1. s \o t \in Texts /\ Len(s \o t) = Len(s) + Len(t) /\ Len(s) \in Nat /\ Len(t) \in Nat
  BY DEF Texts
<1>2. \A i \in 1 .. Len(s) + Len(t) : (s \o t)[i] = IF i =< Len(s) THEN s[i] ELSE t[i - Len(s)]
  BY DEF Texts
<1>3. \A u \in Texts : ToSet(u) = {u[i] : i \in 1 .. Len(u)}
  BY DEF Texts, ToSet
<1>4. ASSUME NEW p \in ToSet(s \o t)
      PROVE  p \in ToSet(s) \cup ToSet(t)
  <2>0. ToSet(s \o t) = {(s \o t)[i] : i \in 1 .. Len(s) + Len(t)}
    BY <1>1, <1>3
  <2>1. PICK i \in 1 .. Len(s) + Len(t) : p = (s \o t)[i]
    BY <2>0
  <2>2. CASE i =< Len(s)
    BY <1>1, <1>2, <1>3, <2>1, <2>2
  <2>3. CASE ~(i =< Len(s))
    <3>1. i - Len(s) \in 1 .. Len(t) /\ p = t[i - Len(s)]
      BY <1>1, <1>2, <2>1, <2>3
    <3> QED BY <1>3, <3>1
  <2> QED BY <2>2, <2>3
<1>5. ASSUME NEW p \in ToSet(s)
      PROVE  p \in ToSet(s \o t)
  <2>1. PICK i \in 1 .. Len(s) : p = s[i]
    BY <1>3
  <2>2. i \in 1 .. Len(s) + Len(t) /\ (s \o t)[i] = p
    BY <1>1, <1>2, <2>1
  <2> QED BY <1>1, <1>3, <2>2
<1>6. ASSUME NEW p \in ToSet(t)
      PROVE  p \in ToSet(s \o t)
  <2>1. PICK i \in 1 .. Len(t) : p = t[i]
    BY <1>3
  <2>2. i + Len(s) \in 1 .. Len(s) + Len(t) /\ (s \o t)[i + Len(s)] = p
    BY <1>1, <1>2, <2>1
  <2> QED BY <1>1, <1>3, <2>2
<1> QED BY <1>4, <1>5, <1>6

\* Nothing more was typed, and no more of it is held or given up.
SameFate ==
  /\ fate'.typed = fate.typed /\ fate.kept \subseteq fate'.kept /\ fate.stray \subseteq fate'.stray
  /\ ed'.held.text = ed.held.text

LEMMA LooseShrinks ==
  ASSUME SameFate
  PROVE  Loose' \subseteq Loose
  BY DEF SameFate, Loose

LEMMA LooseGone ==
  ASSUME BufferInv, ~fate.crossed, SameFate,
         LoadInFlight(ed) \/ Replacing(ed) \/ ~ed.modified \/ ed.evicted \/ ed.incomplete
           \/ (ed.save.step = "ran" /\ ed.save.result = "ok")
  PROVE  LooseShown(ed', Loose')
<1>1. Loose = {}
  BY DEF BufferInv, LooseShown
<1>2. Loose' = {}
  BY <1>1, LooseShrinks
<1> QED BY <1>2 DEF LooseShown

LEMMA LooseStays ==
  ASSUME BufferInv, ~fate.crossed, SameFate,
         Loose # {} =>
           /\ ed'.text = ed.text /\ ed'.modified /\ ~ed'.evicted /\ ~ed'.incomplete
           /\ ~LoadInFlight(ed') /\ ~Replacing(ed')
           /\ ed'.hist.asked /\ ed'.hist.current => Loose \subseteq ed'.hist.typed
           /\ \/ ed'.save.step \notin {"writing", "ran"}
              \/ /\ ed'.save.was = ed.save.was /\ ed'.save.text = ed.save.text
                 /\ ed'.save.step = ed.save.step /\ ed'.save.result = ed.save.result
  PROVE  LooseShown(ed', Loose')
<1>1. Loose' \subseteq Loose
  BY LooseShrinks
<1>2. CASE Loose = {}
  BY <1>1, <1>2 DEF LooseShown
<1>3. CASE Loose # {}
  <2>1. LooseShown(ed, Loose)
    BY DEF BufferInv
  <2> QED BY <1>1, <1>3, <2>1 DEF LooseShown
<1> QED BY <1>2, <1>3

LEMMA LooseIsTyped ==
  ASSUME BufferTypeOK
  PROVE  /\ \A p \in Loose : \E n \in Nat : p = <<"typed", n>>
         /\ fate \in Fates
  BY DEF BufferTypeOK, Loose, Fates

-----------------------------------------------------------------------------
(* The steps of the user. *)

LEMMA BeginLoadAll ==
  ASSUME NEW e, EditorOK(e), NEW f, NEW size, NEW bare, Sound(e, f, size, bare)
  PROVE  /\ EditorOK(BeginLoad(e)) /\ BeginLoad(e).held.text = e.held.text
         /\ Sound(BeginLoad(e), f, size, bare)
<1>0. e \in Editors
  BY DEF EditorOK
<1>1. Plain(BeginLoad(e), e)
  BY <1>0, BeginLoadPlain
<1>2. EditorOK(BeginLoad(e)) /\ BeginLoad(e).held.text = e.held.text
  BY <1>1, PlainOK DEF Plain
<1>3. CASE ~Installing(e)
  <2>1. Sound(BeginLoad(e), f, size, bare)
    BY <1>0, <1>3, BeginLoadSound DEF Sound, TextWhole
  <2> QED BY <1>2, <2>1
<1>4. CASE Installing(e)
  <2> DEFINE x == Parked(e)
  <2>1. /\ x \in Editors /\ SameRest(x, e)
        /\ x.text = e.text /\ x.modified = e.modified /\ x.incomplete = e.incomplete
        /\ x.failed = e.failed /\ x.state = e.state /\ x.save = e.save
        /\ x.load.step = e.load.step /\ x.load.phase = e.load.phase /\ x.load.body = e.load.body
        /\ x.load.parked
    BY <1>0, ParkedIs
  <2>2. BeginLoad(e) = Abort(x)
    BY <1>4 DEF BeginLoad, Parked
  <2> HIDE DEF x
  <2>3. TextWhole(x, size) /\ CleanShows(x, f, bare)
    <3>1. Elsewhere(x)
      BY <1>4, <2>1 DEF Elsewhere, Changing, Installing
    <3> QED BY <3>1 DEF TextWhole, CleanShows
  <2>4. LoadBrings(x, f, size)
    <3>1. LoadInFlight(x) <=> LoadInFlight(e)
      BY <2>1 DEF Installing, LoadInFlight
    <3>2. LoadBrings(e, f, size)
      BY DEF Sound
    <3> QED BY <2>1, <3>1, <3>2 DEF LoadBrings
  <2>s. RepBrings(e, f, size) /\ SaveHolds(e, f, size)
    BY DEF Sound
  <2>5. RepBrings(x, f, size)
    BY <2>1, <2>s, RepBringsOn DEF SameRest, Installing
  <2>6. SaveHolds(x, f, size)
    <3>1. (LoadInFlight(x) => LoadInFlight(e)) /\ (Replacing(x) <=> Replacing(e))
      BY <2>1 DEF LoadInFlight, Installing, Replacing, SameRest
    <3>2. Writing(x) <=> Writing(e)
      BY <2>1 DEF Writing
    <3> QED BY <2>1, <2>s, <3>1, <3>2 DEF SaveHolds
  <2>7. Sound(x, f, size, bare)
    BY <2>3, <2>4, <2>5, <2>6 DEF Sound
  <2> QED BY <1>2, <2>1, <2>2, <2>7, AbortSound
<1> QED BY <1>3, <1>4

LEMMA InvMeans ==
  ASSUME BufferInv
  PROVE  /\ EditorOK(ed) /\ ed \in Editors /\ file \in Texts /\ left \in BufferBounds
         /\ fate \in Fates /\ left.size \in Nat \ {0}
         /\ ~fate.crossed => Sound(ed, file, left.size, fate.bare) /\ LooseShown(ed, Loose)
  BY DEF BufferInv, BufferTypeOK, EditorOK, BufferBounds, Fates

LEMMA StepKeeps ==
  ASSUME BufferInv, EditorOK(ed'), file' \in Texts, left' \in BufferBounds, left'.size = left.size,
         fate' \in Fates,
         ~fate'.crossed => Sound(ed', file', left.size, fate'.bare) /\ LooseShown(ed', Loose')
  PROVE  BufferInv'
  BY DEF BufferInv, BufferTypeOK, Fates

\* More text that is held.
Holding(e, t, b) == [e EXCEPT !.held.text = t, !.held.broken = b]

LEMMA HeldIs ==
  ASSUME NEW e \in Editors, NEW t \in TypedTexts, NEW b \in BOOLEAN
  PROVE  LET x == Holding(e, t, b)
         IN  /\ x \in Editors /\ x.held.text = t
             /\ x.text = e.text /\ x.modified = e.modified /\ x.evicted = e.evicted
             /\ x.partial = e.partial /\ x.incomplete = e.incomplete /\ x.failed = e.failed
             /\ x.state = e.state /\ x.load = e.load /\ x.save = e.save
             /\ x.rep = e.rep /\ x.waiting = e.waiting /\ x.hist = e.hist
<1> DEFINE h == [e.held EXCEPT !.text = t, !.broken = b]
           x == Holding(e, t, b)
<1>1. h \in [text : Seq({"typed"} \X Nat), broken : BOOLEAN] /\ h.text = t
  BY DEF Editors, TypedTexts
<1>2. x = [e EXCEPT !.held = h]
  BY DEF Editors, Holding
<1> HIDE DEF h, x
<1>3. x \in Editors
  BY <1>1, <1>2 DEF Editors
<1>4. /\ x.held = h
      /\ x.text = e.text /\ x.modified = e.modified /\ x.evicted = e.evicted
      /\ x.partial = e.partial /\ x.incomplete = e.incomplete /\ x.failed = e.failed
      /\ x.state = e.state /\ x.load = e.load /\ x.save = e.save
      /\ x.rep = e.rep /\ x.waiting = e.waiting /\ x.hist = e.hist
  BY <1>2 DEF Editors
<1> QED BY <1>1, <1>3, <1>4 DEF x

LEMMA TypeKeeps ==
  ASSUME BufferInv, Type
  PROVE  BufferInv'
<1> DEFINE q == <<"typed", fate.typed + 1>>
           p == <<q>>
           given == ~HoldsInput(ed) /\ (ed.evicted \/ ed.incomplete \/ ed.state = "Failed")
<1>0. /\ EditorOK(ed) /\ ed \in Editors /\ file \in Texts /\ left \in BufferBounds /\ fate \in Fates
      /\ left.size \in Nat \ {0}
      /\ ~fate.crossed => Sound(ed, file, left.size, fate.bare) /\ LooseShown(ed, Loose)
  BY InvMeans
<1>1. left' \in BufferBounds /\ left'.size = left.size
  <2>1. Spend("typed")
    BY DEF Type
  <2> QED BY <1>0, <2>1, SpendOK
<1>2. /\ q \in {"typed"} \X Nat /\ p \in TypedTexts /\ p # <<>> /\ ToSet(p) = {q} /\ p \in Texts
      /\ fate.typed \in Nat
  <2>1. fate.typed \in Nat /\ q \in {"typed"} \X Nat
    BY <1>0 DEF Fates
  <2>2. p \in TypedTexts /\ p # <<>> /\ Len(p) = 1 /\ p[1] = q
    BY <2>1 DEF TypedTexts
  <2>3. ToSet(p) = {q}
    BY <2>2 DEF ToSet
  <2> QED BY <2>1, <2>2, <2>3, TypedIsText
<1>3. /\ fate' = [fate EXCEPT !.typed = @ + 1, !.stray = IF given THEN @ \cup ToSet(p) ELSE @]
      /\ file' = file
      /\ IF HoldsInput(ed)
         THEN ed' = [ed EXCEPT !.held.text = @ \o p, !.held.broken = @ /\ ed.held.text # <<>>]
         ELSE ed' = Insert(ed, p)
  BY DEF Type
<1> HIDE DEF p, q
<1>4. /\ fate' \in Fates /\ fate'.typed = fate.typed + 1 /\ fate'.kept = fate.kept
      /\ fate'.stray = IF given THEN fate.stray \cup {q} ELSE fate.stray
      /\ fate'.crossed = fate.crossed /\ fate'.bare = fate.bare
  <2>1. (IF given THEN fate.stray \cup {q} ELSE fate.stray) \in SUBSET ({"typed"} \X Nat)
    BY <1>0, <1>2 DEF Fates
  <2>2. fate.typed + 1 \in Nat
    BY <1>2
  <2> QED BY <1>0, <1>2, <1>3, <2>1, <2>2 DEF Fates
<1>5. Loose' = ({<<"typed", n>> : n \in 1 .. fate.typed} \cup {q})
                 \ (fate.kept \cup fate'.stray \cup ToSet(ed'.held.text))
  <2>1. {<<"typed", n>> : n \in 1 .. fate.typed + 1} = {<<"typed", n>> : n \in 1 .. fate.typed} \cup {q}
    BY <1>2 DEF q
  <2>2. Loose' = {<<"typed", n>> : n \in 1 .. fate'.typed}
                   \ (fate'.kept \cup fate'.stray \cup ToSet(ed'.held.text))
    BY DEF Loose
  <2> QED BY <1>4, <2>1, <2>2
<1>6. CASE HoldsInput(ed)
  <2>1. ed.held \in [text : TypedTexts, broken : BOOLEAN]
    BY <1>0 DEF Editors, TypedTexts
  <2> DEFINE t == ed.held.text \o p
             b == ed.held.broken /\ ed.held.text # <<>>
  <2>2. t \in TypedTexts /\ b \in BOOLEAN
    BY <1>2, <2>1 DEF TypedTexts
  <2>3. ed' = Holding(ed, t, b)
    BY Zenon, <1>3, <1>6 DEF Holding
  <2>d. t = ed.held.text \o p
    OBVIOUS
  <2> HIDE DEF t, b
  <2>4. /\ ed' \in Editors /\ ed'.held.text = ed.held.text \o p
        /\ ed'.text = ed.text /\ ed'.modified = ed.modified /\ ed'.evicted = ed.evicted
        /\ ed'.partial = ed.partial /\ ed'.incomplete = ed.incomplete /\ ed'.failed = ed.failed
        /\ ed'.state = ed.state /\ ed'.load = ed.load /\ ed'.save = ed.save
        /\ ed'.rep = ed.rep /\ ed'.waiting = ed.waiting /\ ed'.hist = ed.hist
    <3>1. /\ Holding(ed, t, b) \in Editors /\ Holding(ed, t, b).held.text = t
          /\ Holding(ed, t, b).text = ed.text /\ Holding(ed, t, b).modified = ed.modified
          /\ Holding(ed, t, b).evicted = ed.evicted /\ Holding(ed, t, b).partial = ed.partial
          /\ Holding(ed, t, b).incomplete = ed.incomplete /\ Holding(ed, t, b).failed = ed.failed
          /\ Holding(ed, t, b).state = ed.state /\ Holding(ed, t, b).load = ed.load
          /\ Holding(ed, t, b).save = ed.save /\ Holding(ed, t, b).rep = ed.rep
          /\ Holding(ed, t, b).waiting = ed.waiting /\ Holding(ed, t, b).hist = ed.hist
      BY <1>0, <2>2, HeldIs
    <3> QED BY <2>3, <2>d, <3>1
  <2>5. EditorOK(ed')
    BY <1>0, <2>4 DEF EditorOK
  <2>6. ~fate.crossed => Sound(ed', file, left.size, fate.bare)
    BY <1>0, <2>4, KinSound DEF Kin
  <2>7. Loose' \subseteq Loose
    <3>1. ToSet(ed'.held.text) = ToSet(ed.held.text) \cup {q}
      <4>1. ed.held.text \in Texts
        BY <2>1, TypedIsText
      <4> QED BY <1>2, <2>4, <4>1, SetOf
    <3> QED BY <1>4, <1>5, <1>6, <3>1 DEF Loose
  <2>8. ~fate.crossed => LooseShown(ed', Loose')
    BY <1>0, <2>4, <2>7 DEF LooseShown, LoadInFlight, Installing, Replacing
  <2> QED BY <1>0, <1>1, <1>3, <1>4, <2>5, <2>6, <2>8, StepKeeps
<1>7. CASE ~HoldsInput(ed)
  <2> DEFINE x == [Put(ed, ed.text \o p) EXCEPT !.save.ticket = FALSE, !.hist.current = FALSE]
  <2>1. ~Locked(ed) /\ ed.state # "Loading" /\ ed' = Insert(ed, p)
    BY <1>3, <1>7 DEF HoldsInput
  <2>0. ed \in Editors /\ p \in Texts
    BY <1>0, <1>2
  <2>2. /\ Twin(Insert(ed, p), x) /\ x \in Editors
        /\ x.text = ed.text \o p /\ x.modified /\ x.evicted = ed.evicted
        /\ x.partial = ed.partial /\ x.incomplete = ed.incomplete /\ x.failed = ed.failed
        /\ x.state = ed.state /\ x.load = ed.load /\ x.rep = ed.rep /\ x.waiting = ed.waiting
        /\ x.held = ed.held /\ ~x.hist.current
        /\ ~x.save.ticket /\ x.save.step = ed.save.step /\ x.save.text = ed.save.text
        /\ x.save.was = ed.save.was /\ x.save.path = ed.save.path
        /\ x.save.result = ed.save.result
        /\ x.save.step = "capturing" => x.save.torn
    BY <2>0, InsertIs, Zenon
  <2> HIDE DEF x
  <2>3. /\ ed' \in Editors /\ ed'.text = ed.text \o p /\ ed'.modified /\ ed'.evicted = ed.evicted
        /\ ed'.incomplete = ed.incomplete /\ ed'.state = ed.state /\ ed'.load = ed.load
        /\ ed'.held = ed.held /\ ~ed'.hist.current /\ ed'.save.step = ed.save.step
        /\ ed'.rep.kind = ed.rep.kind /\ Plain(ed', ed)
    BY <2>1, <2>2 DEF Twin, Plain, SameRep
  <2>4. EditorOK(ed')
    BY <1>0, <2>3, PlainOK
  <2>5. ASSUME ~fate.crossed
        PROVE  Sound(ed', file, left.size, fate.bare)
    BY <1>0, <1>2, <2>1, <2>5, InsertSound
  <2>6. ASSUME ~fate.crossed
        PROVE  LooseShown(ed', Loose')
    <3>1. /\ ~LoadInFlight(ed') /\ ~Replacing(ed')
          /\ ed'.save.step \notin {"writing", "ran"}
      BY <1>0, <2>1, <2>3, <2>6 DEF Locked, Writing, Sound, LoadBrings, LoadInFlight, Installing,
                                    Replacing
    <3>2. Loose' \subseteq Loose \cup {q}
      BY <1>4, <1>5, <2>3 DEF Loose
    <3>3. Loose' # {} => ~ed.evicted /\ ~ed.incomplete
      <4>1. CASE given
        <5>1. Loose' \subseteq Loose
          BY <1>4, <1>5, <2>3, <4>1 DEF Loose
        <5> QED BY <1>0, <2>6, <5>1 DEF LooseShown
      <4>2. CASE ~given
        BY <1>7, <4>2
      <4> QED BY <4>1, <4>2
    <3>4. Loose' \subseteq ToSet(ed'.text)
      <4>1. ed.text \in Texts
        BY <1>0 DEF Editors
      <4>2. ToSet(ed'.text) = ToSet(ed.text) \cup {q}
        BY <1>2, <2>3, <4>1, SetOf
      <4>3. Loose \subseteq ToSet(ed.text)
        BY <1>0, <2>6 DEF LooseShown
      <4> QED BY <3>2, <4>2, <4>3
    <3> QED BY <2>3, <3>1, <3>3, <3>4 DEF LooseShown
  <2> QED BY <1>0, <1>1, <1>3, <1>4, <2>4, <2>5, <2>6, StepKeeps
<1> QED BY <1>6, <1>7

LEMMA SelectKeeps ==
  ASSUME BufferInv, Select
  PROVE  BufferInv'
<1> DEFINE x == [ed EXCEPT !.shown = TRUE]
           seen == Notify(x)
<1>0. /\ EditorOK(ed) /\ ed \in Editors /\ file \in Texts /\ left \in BufferBounds /\ fate \in Fates
      /\ left.size \in Nat \ {0}
      /\ ~fate.crossed => Sound(ed, file, left.size, fate.bare) /\ LooseShown(ed, Loose)
  BY InvMeans
<1>1. left' \in BufferBounds /\ left'.size = left.size
  BY <1>0, SpendOK DEF Select
<1>2. file' = file /\ fate' = fate /\ ed' = IF seen.evicted THEN BeginLoad(seen) ELSE seen
  BY DEF Select
<1>3. /\ x \in Editors /\ x.text = ed.text /\ x.modified = ed.modified /\ x.evicted = ed.evicted
      /\ x.partial = ed.partial /\ x.incomplete = ed.incomplete /\ x.failed = ed.failed
      /\ x.state = ed.state /\ x.load = ed.load /\ x.save = ed.save /\ x.held = ed.held
      /\ x.rep = ed.rep /\ x.waiting = ed.waiting /\ x.hist = ed.hist
  BY <1>0 DEF Editors
<1> HIDE DEF x
<1>4. Twin(seen, x)
  BY <1>3, NotifyTwin
<1> HIDE DEF seen
<1>5. /\ EditorOK(seen) /\ seen.held.text = ed.held.text /\ seen.evicted = ed.evicted
      /\ seen.text = ed.text /\ seen.modified = ed.modified /\ seen.incomplete = ed.incomplete
      /\ seen.state = ed.state /\ seen.load = ed.load /\ seen.save = ed.save
      /\ seen.rep.kind = ed.rep.kind /\ seen.hist = ed.hist
  BY <1>0, <1>3, <1>4, PlainOK DEF Twin, Plain, SameRep
<1>6. ~fate.crossed => Sound(seen, file, left.size, fate.bare)
  <2>1. ~fate.crossed => Sound(x, file, left.size, fate.bare)
    BY <1>0, <1>3, KinSound DEF Kin
  <2> QED BY <1>4, <2>1, TwinKin, KinSound
<1>7. EditorOK(ed') /\ ed'.held.text = ed.held.text /\ (~fate.crossed => Sound(ed', file, left.size, fate.bare))
  <2>0. EditorOK(BeginLoad(seen)) /\ BeginLoad(seen).held.text = ed.held.text
    <3>1. Plain(BeginLoad(seen), seen)
      BY <1>5, BeginLoadPlain DEF EditorOK
    <3> QED BY <1>5, <3>1, PlainOK DEF Plain
  <2>1. ~fate.crossed => Sound(BeginLoad(seen), file, left.size, fate.bare)
    BY <1>5, <1>6, BeginLoadAll
  <2> QED BY <1>2, <1>5, <1>6, <2>0, <2>1
<1>8. ~fate.crossed => LooseShown(ed', Loose')
  <2>0. SameFate
    BY <1>2, <1>7 DEF SameFate
  <2>1. CASE ed.evicted
    BY <2>0, <2>1, LooseGone
  <2>2. CASE ~ed.evicted
    <3>1. ed' = seen
      BY <1>2, <1>5, <2>2
    <3>2. ~fate.crossed => (Loose # {} =>
             /\ ed.modified /\ ~ed.incomplete /\ ~LoadInFlight(ed) /\ ~Replacing(ed)
             /\ ed.hist.asked /\ ed.hist.current => Loose \subseteq ed.hist.typed)
      BY <1>0 DEF LooseShown
    <3> QED BY <1>5, <2>0, <2>2, <3>1, <3>2, LooseStays DEF LoadInFlight, Installing, Replacing
  <2> QED BY <2>1, <2>2
<1> QED BY <1>0, <1>1, <1>2, <1>7, <1>8, StepKeeps

LEMMA DeselectKeeps ==
  ASSUME BufferInv, Deselect
  PROVE  BufferInv'
<1>0. /\ EditorOK(ed) /\ ed \in Editors /\ file \in Texts /\ left \in BufferBounds /\ fate \in Fates
      /\ left.size \in Nat \ {0}
      /\ ~fate.crossed => Sound(ed, file, left.size, fate.bare) /\ LooseShown(ed, Loose)
  BY InvMeans
<1>1. left' \in BufferBounds /\ left'.size = left.size
  BY <1>0, SpendOK DEF Deselect
<1>2. file' = file /\ fate' = fate /\ ed' = [ed EXCEPT !.shown = FALSE]
  BY DEF Deselect
<1>3. /\ ed' \in Editors /\ ed'.text = ed.text /\ ed'.modified = ed.modified
      /\ ed'.evicted = ed.evicted
      /\ ed'.partial = ed.partial /\ ed'.incomplete = ed.incomplete /\ ed'.failed = ed.failed
      /\ ed'.state = ed.state /\ ed'.load = ed.load /\ ed'.save = ed.save /\ ed'.held = ed.held
      /\ ed'.rep = ed.rep /\ ed'.waiting = ed.waiting /\ ed'.hist = ed.hist
  BY <1>0, <1>2 DEF Editors
<1>4. EditorOK(ed')
  BY <1>0, <1>3 DEF EditorOK
<1>5. ~fate.crossed => Sound(ed', file, left.size, fate.bare)
  BY <1>0, <1>3, KinSound DEF Kin
<1>6. ~fate.crossed => LooseShown(ed', Loose')
  <2>1. Loose' = Loose
    BY <1>2, <1>3 DEF Loose
  <2> QED BY <1>0, <1>3, <2>1 DEF LooseShown, LoadInFlight, Installing, Replacing
<1> QED BY <1>0, <1>1, <1>2, <1>4, <1>5, <1>6, StepKeeps

LEMMA ReloadKeeps ==
  ASSUME BufferInv, Reload
  PROVE  BufferInv'
<1>0. /\ EditorOK(ed) /\ ed \in Editors /\ file \in Texts /\ left \in BufferBounds /\ fate \in Fates
      /\ left.size \in Nat \ {0}
      /\ ~fate.crossed => Sound(ed, file, left.size, fate.bare) /\ LooseShown(ed, Loose)
  BY InvMeans
<1>1. left' \in BufferBounds /\ left'.size = left.size
  BY <1>0, SpendOK DEF Reload
<1>2. /\ file' = file /\ ed' = BeginLoad(ed)
      /\ fate' = [fate EXCEPT !.stray = fate.stray \cup Typed(ed.text)]
  BY DEF Reload
<1>3. /\ fate' \in Fates /\ fate'.typed = fate.typed /\ fate'.kept = fate.kept
      /\ fate'.stray = fate.stray \cup Typed(ed.text) /\ fate'.crossed = fate.crossed
      /\ fate'.bare = fate.bare
  <2>1. Typed(ed.text) \in SUBSET ({"typed"} \X Nat)
    BY <1>0, TypedOf DEF Editors
  <2> QED BY <1>0, <1>2, <2>1 DEF Fates
<1>4. EditorOK(ed') /\ ed'.held.text = ed.held.text
  <2>1. Plain(BeginLoad(ed), ed)
    BY <1>0, BeginLoadPlain
  <2> QED BY <1>0, <1>2, <2>1, PlainOK DEF Plain
<1>5. ~fate.crossed => Sound(ed', file, left.size, fate.bare)
  BY <1>0, <1>2, BeginLoadAll
<1>6. ~fate.crossed => LooseShown(ed', Loose')
  <2>1. Loose' \subseteq Loose
    BY <1>3, <1>4 DEF Loose
  <2>2. ASSUME ~fate.crossed, NEW p \in Loose'
        PROVE  FALSE
    <3>1. p \in ToSet(ed.text)
      BY <1>0, <2>1, <2>2 DEF LooseShown
    <3>2. PICK n \in Nat : p = <<"typed", n>>
      BY <2>1, LooseIsTyped DEF BufferInv
    <3>3. p \in Typed(ed.text)
      BY <1>0, <3>1, <3>2, TypedOf DEF Editors
    <3>4. p \notin fate'.stray
      BY DEF Loose
    <3> QED BY <1>3, <3>3, <3>4
  <2> QED BY <2>2 DEF LooseShown
<1> QED BY <1>0, <1>1, <1>2, <1>3, <1>4, <1>5, <1>6, StepKeeps

LEMMA ReloadAffectedKeeps ==
  ASSUME BufferInv, ReloadAffected
  PROVE  BufferInv'
<1>0. /\ EditorOK(ed) /\ ed \in Editors /\ file \in Texts /\ left \in BufferBounds /\ fate \in Fates
      /\ left.size \in Nat \ {0}
      /\ ~fate.crossed => Sound(ed, file, left.size, fate.bare) /\ LooseShown(ed, Loose)
  BY InvMeans
<1>1. left' \in BufferBounds /\ left'.size = left.size
  BY <1>0, SpendOK DEF ReloadAffected
<1>2. file' = file /\ fate' = fate /\ ed' = BeginLoad(ed) /\ ~Dirty(ed)
  BY DEF ReloadAffected
<1>3. EditorOK(ed') /\ ed'.held.text = ed.held.text
  <2>1. Plain(BeginLoad(ed), ed)
    BY <1>0, BeginLoadPlain
  <2> QED BY <1>0, <1>2, <2>1, PlainOK DEF Plain
<1>4. ~fate.crossed => Sound(ed', file, left.size, fate.bare)
  BY <1>0, <1>2, BeginLoadAll
<1>5. ~fate.crossed => LooseShown(ed', Loose')
  <2>1. SameFate
    BY <1>2, <1>3 DEF SameFate
  <2>2. LoadInFlight(ed) \/ Replacing(ed) \/ ~ed.modified
    BY <1>2 DEF Dirty, LoadInFlight, Replacing, Evicting
  <2> QED BY <2>1, <2>2, LooseGone
<1> QED BY <1>0, <1>1, <1>2, <1>3, <1>4, <1>5, StepKeeps

LEMMA RenamedKeeps ==
  ASSUME BufferInv, Renamed
  PROVE  BufferInv'
<1> DEFINE w == [ed EXCEPT !.save.path = FALSE, !.state = "Loaded"]
           x == [w EXCEPT !.save.ticket = FALSE, !.hist.current = FALSE]
<1>0. /\ EditorOK(ed) /\ ed \in Editors /\ file \in Texts /\ left \in BufferBounds /\ fate \in Fates
      /\ left.size \in Nat \ {0}
      /\ ~fate.crossed => Sound(ed, file, left.size, fate.bare) /\ LooseShown(ed, Loose)
  BY InvMeans
<1>1. left' \in BufferBounds /\ left'.size = left.size
  BY <1>0, SpendOK DEF Renamed
<1>2. file' = file /\ ed' = Advance(w)
  BY DEF Renamed
<1>3. /\ fate' \in Fates /\ fate'.typed = fate.typed /\ fate'.kept = fate.kept
      /\ fate'.stray = fate.stray /\ fate'.bare = fate.bare
      /\ (fate'.crossed <=> (fate.crossed \/ ed.state # "Loaded"))
  BY <1>0, CrossingOK DEF Renamed
<1>4. /\ w \in Editors /\ w.text = ed.text /\ w.modified = ed.modified /\ w.evicted = ed.evicted
      /\ w.partial = ed.partial /\ w.incomplete = ed.incomplete /\ w.failed = ed.failed
      /\ w.state = "Loaded" /\ w.load = ed.load /\ w.held = ed.held
      /\ w.rep = ed.rep /\ w.waiting = ed.waiting /\ w.hist = ed.hist
      /\ w.save = [ed.save EXCEPT !.path = FALSE]
  <2> DEFINE s == [ed.save EXCEPT !.path = FALSE]
             y == [ed EXCEPT !.save = s, !.state = "Loaded"]
  <2>1. s \in Writes
    BY <1>0 DEF Editors, Writes
  <2>2. w = y
    BY <1>0 DEF Editors
  <2> HIDE DEF s, w
  <2>3. y \in Editors
    BY <1>0, <2>1 DEF Editors
  <2>4. /\ y.text = ed.text /\ y.modified = ed.modified /\ y.evicted = ed.evicted
        /\ y.partial = ed.partial /\ y.incomplete = ed.incomplete /\ y.failed = ed.failed
        /\ y.state = "Loaded" /\ y.load = ed.load
    BY <1>0 DEF Editors
  <2>5. /\ y.held = ed.held /\ y.rep = ed.rep /\ y.waiting = ed.waiting /\ y.hist = ed.hist
        /\ y.save = s
    BY <1>0 DEF Editors
  <2> HIDE DEF y
  <2> QED BY <2>2, <2>3, <2>4, <2>5 DEF s
<1> HIDE DEF w
<1>5. x \in Editors /\ Twin(ed', x)
  BY <1>2, <1>4, AdvanceTwin
<1>6. /\ x.text = ed.text /\ x.modified = ed.modified /\ x.evicted = ed.evicted
      /\ x.partial = ed.partial /\ x.incomplete = ed.incomplete /\ x.failed = ed.failed
      /\ x.state = "Loaded" /\ x.load = ed.load /\ x.held = ed.held
      /\ x.rep = ed.rep /\ x.waiting = ed.waiting /\ x.hist.current = FALSE
      /\ x.save = [w.save EXCEPT !.ticket = FALSE]
  BY <1>4 DEF Editors
<1> HIDE DEF x
<1>7. /\ ~x.save.ticket /\ ~x.save.path /\ x.save.step = ed.save.step /\ x.save.text = ed.save.text
      /\ x.save.out = ed.save.out /\ x.save.was = ed.save.was
      /\ x.save.result = ed.save.result /\ x.save.torn = ed.save.torn
  BY <1>0, <1>4, <1>6 DEF Editors, Writes
<1>8. EditorOK(ed') /\ ed'.held.text = ed.held.text
  BY <1>0, <1>5, <1>6, PlainOK DEF Twin, Plain
<1>9. ASSUME ~fate.crossed, ed.state = "Loaded"
      PROVE  Sound(ed', file, left.size, fate.bare)
  <2>1. TextWhole(x, left.size) /\ CleanShows(x, file, fate.bare)
    BY <1>0, <1>6, <1>7, <1>9 DEF Sound, TextWhole, CleanShows, Elsewhere, Changing, Installing,
                                  Replacing
  <2>2. LoadBrings(x, file, left.size)
    BY <1>0, <1>6, <1>7, <1>9 DEF Sound, LoadBrings, Installing, LoadInFlight
  <2>3. RepBrings(x, file, left.size)
    BY <1>0, <1>6, <1>7, <1>9 DEF Sound, RepBrings, Installing, Replacing
  <2>4. SaveHolds(x, file, left.size)
    BY <1>0, <1>6, <1>7, <1>9 DEF Sound, SaveHolds, Replacing
  <2>5. Sound(x, file, left.size, fate.bare)
    BY <1>0, <1>9, <2>1, <2>2, <2>3, <2>4 DEF Sound
  <2> QED BY <1>5, <2>5, TwinKin, KinSound
<1>10. ASSUME ~fate.crossed, ed.state = "Loaded"
       PROVE  LooseShown(ed', Loose')
  <2>1. SameFate
    BY <1>3, <1>8 DEF SameFate
  <2>2. /\ ed'.text = ed.text /\ ed'.modified = ed.modified /\ ed'.evicted = ed.evicted
        /\ ed'.incomplete = ed.incomplete /\ ed'.state = "Loaded" /\ ed'.load = ed.load
        /\ ed'.rep.kind = ed.rep.kind /\ ~ed'.hist.current /\ ed'.save = x.save
    BY <1>5, <1>6 DEF Twin, SameRep
  <2>3. Loose # {} =>
             /\ ed.modified /\ ~ed.evicted /\ ~ed.incomplete /\ ~LoadInFlight(ed) /\ ~Replacing(ed)
    BY <1>0, <1>10 DEF LooseShown
  <2>4. ~LoadInFlight(ed) => ~LoadInFlight(ed')
    BY <2>2 DEF LoadInFlight, Installing
  <2> QED BY <1>7, <1>10, <2>1, <2>2, <2>3, <2>4, LooseStays DEF Replacing
<1> QED BY <1>0, <1>1, <1>2, <1>3, <1>8, <1>9, <1>10, StepKeeps

LEMMA EvictKeeps ==
  ASSUME BufferInv, Evict
  PROVE  BufferInv'
<1> DEFINE r == RepRequest("evict", <<>>)
<1>0. /\ EditorOK(ed) /\ ed \in Editors /\ file \in Texts /\ left \in BufferBounds /\ fate \in Fates
      /\ left.size \in Nat \ {0}
      /\ ~fate.crossed => Sound(ed, file, left.size, fate.bare) /\ LooseShown(ed, Loose)
  BY InvMeans
<1>1. left' \in BufferBounds /\ left'.size = left.size
  BY <1>0, SpendOK DEF Evict
<1>2. /\ file' = file /\ fate' = fate /\ ed' = AcceptRep(ed, r)
      /\ ~Dirty(ed) /\ ~Locked(ed) /\ ed.save.step = "none"
  BY DEF Evict, HoldsInput
<1>3. r \in Reps /\ r.kind = "evict" /\ r.phase = "none" /\ ~r.started /\ r.body = <<>>
  BY NoneOK DEF RepRequest, NoRep, Reps
<1> HIDE DEF r
<1>4. EditorOK(ed') /\ ed'.held.text = ed.held.text
  BY <1>0, <1>2, <1>3, AcceptRepOK
<1>5. ASSUME ~fate.crossed
      PROVE  Sound(ed', file, left.size, fate.bare)
  <2>1. ~Replacing(ed) /\ ~Installing(ed)
    BY <1>2 DEF Locked
  <2> QED BY <1>0, <1>2, <1>3, <1>5, <2>1, AcceptRepSound
<1>6. ~fate.crossed => LooseShown(ed', Loose')
  <2>1. SameFate
    BY <1>2, <1>4 DEF SameFate
  <2>2. ~ed.modified
    BY <1>2 DEF Dirty, Locked, Replacing, Evicting
  <2> QED BY <2>1, <2>2, LooseGone
<1> QED BY <1>0, <1>1, <1>2, <1>4, <1>5, <1>6, StepKeeps

LEMMA AskRestoreKeeps ==
  ASSUME BufferInv, AskRestore
  PROVE  BufferInv'
<1>0. /\ EditorOK(ed) /\ ed \in Editors /\ file \in Texts /\ left \in BufferBounds /\ fate \in Fates
      /\ left.size \in Nat \ {0}
      /\ ~fate.crossed => Sound(ed, file, left.size, fate.bare) /\ LooseShown(ed, Loose)
  BY InvMeans
<1>1. left' \in BufferBounds /\ left'.size = left.size
  BY <1>0, SpendOK DEF AskRestore
<1> DEFINE h == [asked |-> TRUE, current |-> TRUE, typed |-> Typed(ed.text)]
<1>2. file' = file /\ fate' = fate /\ ed' = [ed EXCEPT !.hist = h]
  BY DEF AskRestore
<1>3. h \in [asked : BOOLEAN, current : BOOLEAN, typed : SUBSET ({"typed"} \X Nat)]
      /\ h.typed = Typed(ed.text)
  BY <1>0, TypedOf DEF Editors
<1> HIDE DEF h
<1>4. /\ ed' \in Editors /\ ed'.text = ed.text /\ ed'.modified = ed.modified
      /\ ed'.evicted = ed.evicted
      /\ ed'.partial = ed.partial /\ ed'.incomplete = ed.incomplete /\ ed'.failed = ed.failed
      /\ ed'.state = ed.state /\ ed'.load = ed.load /\ ed'.save = ed.save /\ ed'.held = ed.held
      /\ ed'.rep = ed.rep /\ ed'.waiting = ed.waiting /\ ed'.hist = h
  BY <1>0, <1>2, <1>3 DEF Editors
<1>5. EditorOK(ed')
  BY <1>0, <1>4 DEF EditorOK
<1>6. ~fate.crossed => Sound(ed', file, left.size, fate.bare)
  BY <1>0, <1>4, KinSound DEF Kin
<1>7. ~fate.crossed => LooseShown(ed', Loose')
  <2>1. Loose' = Loose
    BY <1>2, <1>4 DEF Loose
  <2>2. ASSUME ~fate.crossed, NEW p \in Loose
        PROVE  p \in Typed(ed.text)
    <3>1. p \in ToSet(ed.text)
      BY <1>0, <2>2 DEF LooseShown
    <3>2. PICK n \in Nat : p = <<"typed", n>>
      BY <2>2, LooseIsTyped DEF BufferInv
    <3> QED BY <1>0, <3>1, <3>2, TypedOf DEF Editors
  <2>3. ~fate.crossed => Loose \subseteq ed'.hist.typed
    BY <1>3, <1>4, <2>2
  <2> QED BY <1>0, <1>4, <2>1, <2>3 DEF LooseShown, LoadInFlight, Installing, Replacing
<1> QED BY <1>0, <1>1, <1>2, <1>5, <1>6, <1>7, StepKeeps

\* The editor with another request to save, or with none.
Saving(e, s) == Notify([e EXCEPT !.save = s])

LEMMA SavingIs ==
  ASSUME NEW e \in Editors, NEW s \in Writes
  PROVE  LET x == [e EXCEPT !.save = s]
         IN  /\ x \in Editors /\ Twin(Saving(e, s), x) /\ x.save = s
             /\ x.text = e.text /\ x.modified = e.modified /\ x.evicted = e.evicted
             /\ x.partial = e.partial /\ x.incomplete = e.incomplete /\ x.failed = e.failed
             /\ x.state = e.state /\ x.load = e.load /\ x.held = e.held
             /\ x.rep = e.rep /\ x.waiting = e.waiting /\ x.hist = e.hist
<1> DEFINE x == [e EXCEPT !.save = s]
<1>1. /\ x \in Editors /\ x.save = s
      /\ x.text = e.text /\ x.modified = e.modified /\ x.evicted = e.evicted
      /\ x.partial = e.partial /\ x.incomplete = e.incomplete /\ x.failed = e.failed
      /\ x.state = e.state /\ x.load = e.load /\ x.held = e.held
      /\ x.rep = e.rep /\ x.waiting = e.waiting /\ x.hist = e.hist
  BY WithSave
<1>2. Saving(e, s) = Notify(x)
  BY DEF Saving
<1> HIDE DEF x
<1> QED BY <1>1, <1>2, NotifyTwin DEF x

LEMMA SavingKeeps ==
  ASSUME NEW e, EditorOK(e), NEW s \in Writes
  PROVE  LET x == Saving(e, s)
         IN  /\ EditorOK(x) /\ x.held.text = e.held.text /\ x.save = s
             /\ x.text = e.text /\ x.modified = e.modified /\ x.evicted = e.evicted
             /\ x.partial = e.partial /\ x.incomplete = e.incomplete /\ x.failed = e.failed
             /\ x.state = e.state /\ x.load = e.load /\ x.hist = e.hist
             /\ SameRep(x.rep, e.rep) /\ SameRep(x.waiting, e.waiting)
<1> DEFINE x == [e EXCEPT !.save = s]
<1>0. e \in Editors
  BY DEF EditorOK
<1>1. /\ x \in Editors /\ Twin(Saving(e, s), x) /\ x.save = s
      /\ x.text = e.text /\ x.modified = e.modified /\ x.evicted = e.evicted
      /\ x.partial = e.partial /\ x.incomplete = e.incomplete /\ x.failed = e.failed
      /\ x.state = e.state /\ x.load = e.load /\ x.held = e.held
      /\ x.rep = e.rep /\ x.waiting = e.waiting /\ x.hist = e.hist
  BY <1>0, SavingIs
<1> HIDE DEF x
<1> QED BY <1>1, PlainOK DEF Twin, Plain

\* A save that ends without having run, or has not begun.
LEMMA IdleSaveSound ==
  ASSUME NEW e \in Editors, NEW s \in Writes, s.step \in {"none", "queued"},
         NEW f, NEW size, NEW bare, Sound(e, f, size, bare), e.save.step \in {"none", "queued", "capturing"},
         s.step = "queued" => ~Replacing(e) /\ (Elsewhere(e) \/ WholeOf(size, e.text))
  PROVE  Sound(Saving(e, s), f, size, bare)
<1> DEFINE x == [e EXCEPT !.save = s]
<1>1. /\ Twin(Saving(e, s), x) /\ x.save = s
      /\ x.text = e.text /\ x.modified = e.modified /\ x.evicted = e.evicted
      /\ x.partial = e.partial /\ x.incomplete = e.incomplete /\ x.failed = e.failed
      /\ x.state = e.state /\ x.load = e.load
      /\ x.rep = e.rep /\ x.waiting = e.waiting
  BY SavingIs
<1> HIDE DEF x
<1>2. TextWhole(x, size)
  BY <1>1 DEF Sound, TextWhole, Elsewhere, Changing, Installing, Replacing
<1>3. LoadBrings(x, f, size)
  BY <1>1 DEF Sound, LoadBrings, Installing, LoadInFlight
<1>4. RepBrings(x, f, size)
  BY <1>1 DEF Sound, RepBrings, Installing, Replacing
<1>5. SaveHolds(x, f, size)
  BY <1>1 DEF Sound, SaveHolds, Writing, Replacing
<1>6. CleanShows(x, f, bare)
  BY <1>1 DEF Sound, CleanShows, Elsewhere, Changing, Installing, Replacing
<1> QED BY <1>1, <1>2, <1>3, <1>4, <1>5, <1>6, TwinKin, KinSound DEF Sound

LEMMA RequestSaveKeeps ==
  ASSUME BufferInv, RequestSave
  PROVE  BufferInv'
<1> DEFINE s == [NoWrite EXCEPT !.step = "queued", !.path = TRUE, !.required = Dirty(ed)]
<1>0. /\ EditorOK(ed) /\ ed \in Editors /\ file \in Texts /\ left \in BufferBounds /\ fate \in Fates
      /\ left.size \in Nat \ {0}
      /\ ~fate.crossed => Sound(ed, file, left.size, fate.bare) /\ LooseShown(ed, Loose)
  BY InvMeans
<1>1. left' \in BufferBounds /\ left'.size = left.size
  BY <1>0, SpendOK DEF RequestSave
<1>2. /\ file' = file /\ ed' = Saving(ed, s)
      /\ ed.state # "Loading" /\ ~NoWholeDocument(ed) /\ ~Replacing(ed) /\ ed.save.step = "none"
  BY DEF RequestSave, Saving
<1>3. /\ fate' \in Fates /\ fate'.typed = fate.typed /\ fate'.kept = fate.kept
      /\ fate'.stray = fate.stray /\ fate'.bare = fate.bare
      /\ (fate'.crossed <=> (fate.crossed \/ ed.state = "Failed"))
  BY <1>0, CrossingOK DEF RequestSave
<1>4. s \in Writes /\ s.step = "queued"
  <2>1. Dirty(ed) \in BOOLEAN
    BY DEF Dirty
  <2> QED BY <2>1, NoneOK DEF NoWrite, Writes
<1> HIDE DEF s
<1>5. /\ EditorOK(ed') /\ ed'.held.text = ed.held.text /\ ed'.save = s
      /\ ed'.text = ed.text /\ ed'.modified = ed.modified /\ ed'.evicted = ed.evicted
      /\ ed'.incomplete = ed.incomplete /\ ed'.state = ed.state /\ ed'.load = ed.load
      /\ ed'.hist = ed.hist /\ ed'.rep.kind = ed.rep.kind
  BY <1>0, <1>2, <1>4, SavingKeeps DEF SameRep
<1>6. ASSUME ~fate.crossed, ed.state # "Failed"
      PROVE  Sound(ed', file, left.size, fate.bare)
  <2>1. ed.state = "Loaded"
    BY <1>0, <1>2, <1>6 DEF Editors
  <2>2. Elsewhere(ed) \/ WholeOf(left.size, ed.text)
    BY <1>0, <1>2, <1>6, <2>1 DEF Sound, TextWhole, NoWholeDocument
  <2> QED BY <1>0, <1>2, <1>4, <1>6, <2>2, IdleSaveSound
<1>7. ASSUME ~fate.crossed
      PROVE  LooseShown(ed', Loose')
  <2>1. SameFate
    BY <1>3, <1>5 DEF SameFate
  <2>2. Loose # {} =>
             /\ ed.modified /\ ~ed.evicted /\ ~ed.incomplete /\ ~LoadInFlight(ed) /\ ~Replacing(ed)
             /\ ed.hist.asked /\ ed.hist.current => Loose \subseteq ed.hist.typed
    BY <1>0, <1>7 DEF LooseShown
  <2> QED BY <1>4, <1>5, <1>7, <2>1, <2>2, LooseStays DEF LoadInFlight, Installing, Replacing
<1> QED BY <1>0, <1>1, <1>2, <1>3, <1>5, <1>6, <1>7, StepKeeps

-----------------------------------------------------------------------------
(* The steps of the program. *)

LEMMA RepTurnKeeps ==
  ASSUME BufferInv, RepTurn
  PROVE  BufferInv'
<1>0. /\ EditorOK(ed) /\ ed \in Editors /\ file \in Texts /\ left \in BufferBounds /\ fate \in Fates
      /\ ~fate.crossed => Sound(ed, file, left.size, fate.bare) /\ LooseShown(ed, Loose)
  BY InvMeans
<1> DEFINE meets == ed.rep.kind = "mirror" /\ ed.rep.started /\ ~IsCurrent(ed, ed.rep)
<1>1. left' = left /\ file' = file /\ ed' = RepTurned(ed) /\ Replacing(ed) /\ Crossing(meets)
  BY DEF RepTurn
<1>2. meets \in BOOLEAN
  OBVIOUS
<1>3. /\ fate' \in Fates /\ fate'.typed = fate.typed /\ fate'.kept = fate.kept
      /\ fate'.stray = fate.stray /\ fate'.bare = fate.bare
      /\ (fate'.crossed <=> (fate.crossed \/ meets))
  <2> HIDE DEF meets
  <2> QED BY <1>0, <1>1, <1>2, CrossingOK
<1>4. EditorOK(ed') /\ ed'.held.text = ed.held.text
  BY <1>0, <1>1, RepTurnedOK
<1>5. ASSUME ~fate'.crossed
      PROVE  Sound(ed', file, left.size, fate.bare) /\ LooseShown(ed', Loose')
  <2>1. Sound(ed', file, left.size, fate.bare)
    BY <1>0, <1>1, <1>3, <1>5, RepTurnedSound
  <2>2. SameFate
    BY <1>3, <1>4 DEF SameFate
  <2> QED BY <1>1, <1>3, <1>5, <2>1, <2>2, LooseGone
<1> QED BY <1>0, <1>1, <1>3, <1>4, <1>5, StepKeeps

LEMMA InstallTurnKeeps ==
  ASSUME BufferInv, InstallTurn
  PROVE  BufferInv'
<1>0. /\ EditorOK(ed) /\ ed \in Editors /\ file \in Texts /\ left \in BufferBounds /\ fate \in Fates
      /\ ~fate.crossed => Sound(ed, file, left.size, fate.bare) /\ LooseShown(ed, Loose)
  BY InvMeans
<1>1. left' = left /\ file' = file /\ fate' = fate /\ ed' = InstallTurned(ed) /\ Installing(ed)
  BY DEF InstallTurn
<1>2. EditorOK(ed') /\ ed'.held.text = ed.held.text
  BY <1>0, <1>1, InstallTurnedPlain, PlainOK DEF Plain
<1>3. ASSUME ~fate.crossed
      PROVE  Sound(ed', file, left.size, fate.bare) /\ LooseShown(ed', Loose')
  <2>1. Sound(ed', file, left.size, fate.bare)
    BY <1>0, <1>1, <1>3, InstallTurnedSound
  <2>2. SameFate
    BY <1>1, <1>2 DEF SameFate
  <2>3. LoadInFlight(ed)
    BY <1>1 DEF LoadInFlight
  <2> QED BY <1>3, <2>1, <2>2, <2>3, LooseGone
<1> QED BY <1>0, <1>1, <1>2, <1>3, StepKeeps

LEMMA LoadReadKeeps ==
  ASSUME BufferInv, LoadRead
  PROVE  BufferInv'
<1>0. /\ EditorOK(ed) /\ ed \in Editors /\ file \in Texts /\ left \in BufferBounds /\ fate \in Fates
      /\ ~fate.crossed => Sound(ed, file, left.size, fate.bare) /\ LooseShown(ed, Loose)
  BY InvMeans
<1>1. /\ file' = file /\ fate' = fate /\ ed.load.step = "reading"
      /\ left' \in BufferBounds /\ left'.size = left.size
      /\ ed' \in {[ed EXCEPT !.load.step = "read", !.load.body = file], [ed EXCEPT !.load.step = "error"]}
  BY <1>0, SpendOK DEF LoadRead
<1>2. ed.load \in Loads /\ ed.load.phase = "none"
  BY <1>0, <1>1 DEF Editors, Loads
<1>3. /\ ed' \in Editors /\ ed'.text = ed.text /\ ed'.modified = ed.modified
      /\ ed'.evicted = ed.evicted
      /\ ed'.partial = ed.partial /\ ed'.incomplete = ed.incomplete /\ ed'.failed = ed.failed
      /\ ed'.state = ed.state /\ ed'.save = ed.save /\ ed'.held = ed.held
      /\ ed'.rep = ed.rep /\ ed'.waiting = ed.waiting /\ ed'.hist = ed.hist
      /\ ed'.load.phase = "none" /\ ed'.load.error = ed.load.error
      /\ ed'.load.step \in {"read", "error"} /\ (ed'.load.step = "read" => ed'.load.body = file)
  <2>1. CASE ed' = [ed EXCEPT !.load.step = "read", !.load.body = file]
    <3> DEFINE l == [ed.load EXCEPT !.step = "read", !.body = file]
    <3>1. /\ l \in Loads /\ l.step = "read" /\ l.body = file /\ l.phase = "none"
          /\ l.error = ed.load.error
      BY <1>0, <1>2 DEF Loads
    <3>2. ed' = [ed EXCEPT !.load = l]
      BY <1>0, <1>2, <2>1 DEF Editors, Loads
    <3> HIDE DEF l
    <3> QED BY <1>0, <3>1, <3>2 DEF Editors
  <2>2. CASE ed' = [ed EXCEPT !.load.step = "error"]
    <3> DEFINE l == [ed.load EXCEPT !.step = "error"]
    <3>1. l \in Loads /\ l.step = "error" /\ l.phase = "none" /\ l.error = ed.load.error
      BY <1>0, <1>2 DEF Loads
    <3>2. ed' = [ed EXCEPT !.load = l]
      BY <1>0, <1>2, <2>2 DEF Editors, Loads
    <3> HIDE DEF l
    <3> QED BY <1>0, <3>1, <3>2 DEF Editors
  <2> QED BY <1>1, <2>1, <2>2
<1>4. EditorOK(ed')
  BY <1>0, <1>3 DEF EditorOK
<1>5. ASSUME ~fate.crossed
      PROVE  Sound(ed', file, left.size, fate.bare) /\ LooseShown(ed', Loose')
  <2>1. Sound(ed, file, left.size, fate.bare)
    BY <1>0, <1>5
  <2>2. TextWhole(ed', left.size) /\ CleanShows(ed', file, fate.bare)
    BY <1>1, <1>2, <1>3, <2>1 DEF Sound, TextWhole, CleanShows, Elsewhere, Changing, Installing, Replacing
  <2>3. LoadBrings(ed', file, left.size)
    BY <1>1, <1>2, <1>3, <2>1 DEF Sound, LoadBrings, Installing, LoadInFlight
  <2>4. RepBrings(ed', file, left.size)
    BY <1>2, <1>3, <2>1 DEF Sound, RepBrings, Installing, Replacing
  <2>5. SaveHolds(ed', file, left.size)
    BY <1>1, <1>2, <1>3, <2>1 DEF Sound, SaveHolds, Installing, Replacing, Writing, LoadInFlight
  <2>6. SameFate /\ LoadInFlight(ed)
    BY <1>1, <1>3 DEF SameFate, LoadInFlight
  <2>7. LooseShown(ed', Loose')
    BY <1>5, <2>6, LooseGone
  <2> QED BY <2>1, <2>2, <2>3, <2>4, <2>5, <2>7 DEF Sound
<1> QED BY <1>0, <1>1, <1>4, <1>5, StepKeeps

LEMMA LoadDeliverKeeps ==
  ASSUME BufferInv, LoadDeliver
  PROVE  BufferInv'
<1>0. /\ EditorOK(ed) /\ ed \in Editors /\ file \in Texts /\ left \in BufferBounds /\ fate \in Fates
      /\ ~fate.crossed => Sound(ed, file, left.size, fate.bare) /\ LooseShown(ed, Loose)
  BY InvMeans
<1>1. /\ left' = left /\ file' = file /\ ed' = Delivered(ed) /\ ed.load.step \in {"read", "error"}
      /\ Crossing(Replacing(ed))
  BY DEF LoadDeliver
<1>2. /\ fate' \in Fates /\ fate'.typed = fate.typed /\ fate'.kept = fate.kept
      /\ fate'.stray = fate.stray /\ fate'.bare = fate.bare
      /\ (fate'.crossed <=> (fate.crossed \/ Replacing(ed)))
  <2>1. Replacing(ed) \in BOOLEAN
    BY DEF Replacing
  <2> QED BY <1>0, <1>1, <2>1, CrossingOK
<1>3. EditorOK(ed') /\ ed'.held.text = ed.held.text
  BY <1>0, <1>1, DeliveredPlain, PlainOK DEF Plain
<1>4. ASSUME ~fate'.crossed
      PROVE  Sound(ed', file, left.size, fate.bare) /\ LooseShown(ed', Loose')
  <2>1. Sound(ed', file, left.size, fate.bare)
    BY <1>0, <1>1, <1>2, <1>4, DeliveredSound
  <2>2. SameFate
    BY <1>2, <1>3 DEF SameFate
  <2>3. LoadInFlight(ed)
    BY <1>1 DEF LoadInFlight
  <2> QED BY <1>2, <1>4, <2>1, <2>2, <2>3, LooseGone
<1> QED BY <1>0, <1>1, <1>2, <1>3, <1>4, StepKeeps

LEMMA ReloadEmptiedKeeps ==
  ASSUME BufferInv, ReloadEmptied
  PROVE  BufferInv'
<1> DEFINE e == [ed EXCEPT !.requeue = FALSE]
<1>0. /\ EditorOK(ed) /\ ed \in Editors /\ file \in Texts /\ left \in BufferBounds /\ fate \in Fates
      /\ ~fate.crossed => Sound(ed, file, left.size, fate.bare) /\ LooseShown(ed, Loose)
  BY InvMeans
<1>1. /\ left' = left /\ file' = file /\ fate' = fate
      /\ ed' = IF e.evicted /\ e.shown /\ e.state # "Loading" THEN BeginLoad(e) ELSE e
  BY DEF ReloadEmptied
<1>2. /\ e \in Editors /\ e.text = ed.text /\ e.modified = ed.modified /\ e.evicted = ed.evicted
      /\ e.partial = ed.partial /\ e.incomplete = ed.incomplete /\ e.failed = ed.failed
      /\ e.state = ed.state /\ e.load = ed.load /\ e.save = ed.save /\ e.held = ed.held
      /\ e.rep = ed.rep /\ e.waiting = ed.waiting /\ e.hist = ed.hist
  BY <1>0 DEF Editors
<1> HIDE DEF e
<1>3. EditorOK(e)
  BY <1>0, <1>2 DEF EditorOK
<1>4. ~fate.crossed => Sound(e, file, left.size, fate.bare)
  BY <1>0, <1>2, KinSound DEF Kin
<1>5. EditorOK(ed') /\ ed'.held.text = ed.held.text
  <2>1. Plain(BeginLoad(e), e)
    BY <1>2, BeginLoadPlain
  <2>2. EditorOK(BeginLoad(e)) /\ BeginLoad(e).held.text = e.held.text
    BY <1>3, <2>1, PlainOK DEF Plain
  <2> QED BY <1>1, <1>2, <1>3, <2>2
<1>6. ASSUME ~fate.crossed
      PROVE  Sound(ed', file, left.size, fate.bare) /\ LooseShown(ed', Loose')
  <2>1. Sound(BeginLoad(e), file, left.size, fate.bare)
    BY <1>3, <1>4, <1>6, BeginLoadAll
  <2>2. Sound(ed', file, left.size, fate.bare)
    BY <1>1, <1>4, <1>6, <2>1
  <2>3. SameFate
    BY <1>1, <1>5 DEF SameFate
  <2>4. CASE ed.evicted
    BY <1>6, <2>2, <2>3, <2>4, LooseGone
  <2>5. CASE ~ed.evicted
    <3>1. ed' = e
      BY <1>1, <1>2, <2>5
    <3>2. Loose # {} =>
             /\ ed.modified /\ ~ed.incomplete /\ ~LoadInFlight(ed) /\ ~Replacing(ed)
             /\ ed.hist.asked /\ ed.hist.current => Loose \subseteq ed.hist.typed
      BY <1>0, <1>6 DEF LooseShown
    <3> QED BY <1>2, <1>6, <2>2, <2>3, <2>5, <3>1, <3>2, LooseStays DEF LoadInFlight, Installing, Replacing
  <2> QED BY <2>4, <2>5
<1> QED BY <1>0, <1>1, <1>5, <1>6, StepKeeps

LEMMA SettleKeeps ==
  ASSUME BufferInv, Settle
  PROVE  BufferInv'
<1> DEFINE free == [ed EXCEPT !.held = NoHeld]
           t == ed.held.text
<1>0. /\ EditorOK(ed) /\ ed \in Editors /\ file \in Texts /\ left \in BufferBounds /\ fate \in Fates
      /\ left.size \in Nat \ {0}
      /\ ~fate.crossed => Sound(ed, file, left.size, fate.bare) /\ LooseShown(ed, Loose)
  BY InvMeans
<1>1. /\ left' = left /\ file' = file /\ t # <<>> /\ ~Locked(ed) /\ ed.state # "Loading"
      /\ IF Replays(ed) THEN ed' = Insert(free, t) /\ fate' = fate
         ELSE ed' = free /\ fate' = [fate EXCEPT !.kept = fate.kept \cup ToSet(t)]
  BY DEF Settle
<1>2. /\ free \in Editors /\ free.held = NoHeld
      /\ free.text = ed.text /\ free.modified = ed.modified /\ free.evicted = ed.evicted
      /\ free.partial = ed.partial /\ free.incomplete = ed.incomplete /\ free.failed = ed.failed
      /\ free.state = ed.state /\ free.load = ed.load /\ free.save = ed.save
      /\ free.rep = ed.rep /\ free.waiting = ed.waiting /\ free.hist = ed.hist
  BY <1>0, NoneOK DEF Editors
<1>3. t \in TypedTexts /\ t \in Texts
  BY <1>0, TypedIsText DEF Editors, TypedTexts
<1>4. NoHeld.text = <<>> /\ ToSet(<<>>) = {}
  BY DEF NoHeld, ToSet
<1>5. ToSet(t) \in SUBSET ({"typed"} \X Nat)
  BY <1>3 DEF TypedTexts, ToSet
<1>d. t = ed.held.text
  OBVIOUS
<1> HIDE DEF free, t
<1>6. EditorOK(free) /\ ~Locked(free)
  BY <1>0, <1>1, <1>2 DEF EditorOK, Locked, Installing, Replacing, Writing
<1>7. ~fate.crossed => Sound(free, file, left.size, fate.bare)
  BY <1>0, <1>2, KinSound DEF Kin
<1>8. ASSUME ~fate.crossed
      PROVE  /\ ed.load.step = "none" /\ ed.load.phase = "none" /\ ed.rep.kind = "none"
             /\ ed.save.step \in {"none", "queued"}
  BY <1>0, <1>1, <1>8 DEF Locked, Writing, Sound, LoadBrings, LoadInFlight, Installing,
                          Replacing, Editors, Writes
<1>9. CASE Replays(ed)
  <2> DEFINE x == [Put(free, free.text \o t) EXCEPT !.save.ticket = FALSE, !.hist.current = FALSE]
  <2>1. ed' = Insert(free, t) /\ fate' = fate /\ ~ed.evicted /\ ~ed.incomplete
    BY <1>1, <1>9 DEF Replays
  <2>2. /\ Twin(Insert(free, t), x) /\ x \in Editors
        /\ x.text = free.text \o t /\ x.modified /\ x.evicted = free.evicted
        /\ x.incomplete = free.incomplete /\ x.state = free.state /\ x.load = free.load
        /\ x.rep = free.rep /\ x.waiting = free.waiting /\ x.held = free.held
        /\ ~x.hist.current /\ x.save.step = free.save.step
    BY <1>2, <1>3, InsertIs
  <2> HIDE DEF x
  <2>3. /\ ed' \in Editors /\ ed'.text = ed.text \o t /\ ed'.modified /\ ed'.evicted = ed.evicted
        /\ ed'.incomplete = ed.incomplete /\ ed'.state = ed.state /\ ed'.load = ed.load
        /\ ed'.held = NoHeld /\ ~ed'.hist.current /\ ed'.save.step = ed.save.step
        /\ ed'.rep.kind = ed.rep.kind /\ Plain(ed', free)
    BY <1>2, <2>1, <2>2 DEF Twin, Plain, SameRep
  <2>4. EditorOK(ed')
    BY <1>6, <2>3, PlainOK
  <2>5. ASSUME ~fate.crossed
        PROVE  Sound(ed', file, left.size, fate.bare)
    BY <1>0, <1>1, <1>2, <1>3, <1>6, <1>7, <2>1, <2>5, InsertSound
  <2>6. ASSUME ~fate.crossed
        PROVE  LooseShown(ed', Loose')
    <3>1. /\ ~LoadInFlight(ed') /\ ~Replacing(ed') /\ ed'.save.step \notin {"writing", "ran"}
      BY <1>1, <1>8, <2>3, <2>6 DEF LoadInFlight, Installing, Replacing
    <3>2. Loose' \subseteq Loose \cup ToSet(t)
      BY <1>d, <2>1 DEF Loose
    <3>3. Loose' \subseteq ToSet(ed'.text)
      <4>1. ed.text \in Texts
        BY <1>0 DEF Editors
      <4>2. ToSet(ed'.text) = ToSet(ed.text) \cup ToSet(t)
        BY <1>3, <2>3, <4>1, SetOf
      <4>3. Loose \subseteq ToSet(ed.text)
        BY <1>0, <2>6 DEF LooseShown
      <4> QED BY <3>2, <4>2, <4>3
    <3> QED BY <2>1, <2>3, <3>1, <3>3 DEF LooseShown
  <2> QED BY <1>0, <1>1, <2>1, <2>4, <2>5, <2>6, StepKeeps
<1>10. CASE ~Replays(ed)
  <2>1. ed' = free /\ fate' = [fate EXCEPT !.kept = fate.kept \cup ToSet(t)]
    BY <1>1, <1>10
  <2>2. /\ fate' \in Fates /\ fate'.typed = fate.typed /\ fate'.stray = fate.stray
        /\ fate'.kept = fate.kept \cup ToSet(t) /\ fate'.crossed = fate.crossed
        /\ fate'.bare = fate.bare
    BY <1>0, <1>5, <2>1 DEF Fates
  <2>3. Loose' \subseteq Loose
    BY <1>d, <2>2 DEF Loose
  <2>4. ~fate.crossed => LooseShown(ed', Loose')
    BY <1>0, <1>2, <2>1, <2>3 DEF LooseShown, LoadInFlight, Installing, Replacing
  <2> QED BY <1>0, <1>1, <1>6, <1>7, <2>1, <2>2, <2>4, StepKeeps
<1> QED BY <1>9, <1>10

\* The same editor with a save that owns the buffer.
LEMMA CapturedSound ==
  ASSUME NEW e \in Editors, NEW s \in Writes, NEW f, NEW size, NEW bare, Sound(e, f, size, bare),
         e.save.step \in {"queued", "capturing"}, s.step \in {"capturing", "writing"},
         WholeOf(size, e.text), s.ticket => s.path /\ ~LoadInFlight(e),
         s.step = "writing" => s.text = e.text /\ s.was = e.modified
  PROVE  Sound([e EXCEPT !.save = s], f, size, bare)
<1> DEFINE x == [e EXCEPT !.save = s]
<1>1. /\ x.save = s
      /\ x.text = e.text /\ x.modified = e.modified /\ x.evicted = e.evicted
      /\ x.partial = e.partial /\ x.incomplete = e.incomplete /\ x.failed = e.failed
      /\ x.state = e.state /\ x.load = e.load /\ x.rep = e.rep /\ x.waiting = e.waiting
  BY DEF Editors
<1> HIDE DEF x
<1>2. TextWhole(x, size)
  BY <1>1 DEF TextWhole
<1>3. LoadBrings(x, f, size)
  BY <1>1 DEF Sound, LoadBrings, Installing, LoadInFlight
<1>4. RepBrings(x, f, size)
  BY <1>1 DEF Sound, RepBrings, Installing, Replacing
<1>5. SaveHolds(x, f, size)
  BY <1>1 DEF Sound, SaveHolds, Writing, Replacing, LoadInFlight, Installing
<1>6. CleanShows(x, f, bare)
  BY <1>1 DEF Sound, CleanShows, Elsewhere, Changing, Installing, Replacing
<1> QED BY <1>2, <1>3, <1>4, <1>5, <1>6 DEF Sound, x

LEMMA LooseWritten ==
  ASSUME BufferInv, ~fate.crossed, SameFate,
         Loose # {} =>
           /\ ed'.text = ed.text /\ ed'.modified /\ ~ed'.evicted /\ ~ed'.incomplete
           /\ ~LoadInFlight(ed') /\ ~Replacing(ed')
           /\ ed'.hist.asked /\ ed'.hist.current => Loose \subseteq ed'.hist.typed
           /\ ed'.save.step \in {"writing", "ran"} => ed'.save.was /\ Loose \subseteq ToSet(ed'.save.text)
           /\ ed'.save.step = "ran" => ed'.save.result # "ok"
  PROVE  LooseShown(ed', Loose')
<1>1. Loose' \subseteq Loose
  BY LooseShrinks
<1>2. CASE Loose = {}
  BY <1>1, <1>2 DEF LooseShown
<1>3. CASE Loose # {}
  <2>1. Loose \subseteq ToSet(ed.text)
    BY <1>3 DEF BufferInv, LooseShown
  <2> QED BY <1>1, <1>3, <2>1 DEF LooseShown
<1> QED BY <1>2, <1>3

LEMMA CaptureDoneKeeps ==
  ASSUME BufferInv, CaptureDone
  PROVE  BufferInv'
<1> DEFINE s == [ed.save EXCEPT !.step = "writing", !.text = ed.text, !.was = ed.modified]
           x == [ed EXCEPT !.save = s]
<1>0. /\ EditorOK(ed) /\ ed \in Editors /\ file \in Texts /\ left \in BufferBounds /\ fate \in Fates
      /\ ~fate.crossed => Sound(ed, file, left.size, fate.bare) /\ LooseShown(ed, Loose)
  BY InvMeans
<1>1. /\ left' = left /\ file' = file /\ fate' = fate /\ ed.save.step = "capturing"
      /\ ed' = IF ed.save.torn THEN Saving(ed, NoWrite) ELSE x
  <2>1. Unlock(ed, "unchanged") = ed
    BY DEF Unlock
  <2>2. [ed EXCEPT !.save.step = "writing", !.save.text = ed.text, !.save.was = ed.modified] = x
    BY <1>0 DEF Editors, Writes
  <2> HIDE DEF x
  <2> QED BY <2>1, <2>2 DEF CaptureDone, Saving
<1>2. /\ s \in Writes /\ s.step = "writing" /\ s.text = ed.text /\ s.was = ed.modified
      /\ s.ticket = ed.save.ticket /\ s.path = ed.save.path
  BY <1>0 DEF Editors, Writes
<1> HIDE DEF s
<1>3. /\ x \in Editors /\ x.save = s
      /\ x.text = ed.text /\ x.modified = ed.modified /\ x.evicted = ed.evicted
      /\ x.incomplete = ed.incomplete /\ x.state = ed.state /\ x.load = ed.load
      /\ x.held = ed.held /\ x.rep = ed.rep /\ x.waiting = ed.waiting /\ x.hist = ed.hist
  BY <1>0, <1>2 DEF Editors
<1>d. x = [ed EXCEPT !.save = s]
  OBVIOUS
<1> HIDE DEF x
<1>4. CASE ed.save.torn
  <2>0. ed' = Saving(ed, NoWrite) /\ NoWrite \in Writes /\ NoWrite.step = "none"
    BY <1>1, <1>4, NoneOK DEF NoWrite
  <2>1. /\ EditorOK(ed') /\ ed'.held.text = ed.held.text /\ ed'.save.step = "none"
        /\ ed'.text = ed.text /\ ed'.modified = ed.modified /\ ed'.evicted = ed.evicted
        /\ ed'.incomplete = ed.incomplete /\ ed'.state = ed.state /\ ed'.load = ed.load
        /\ ed'.hist = ed.hist /\ ed'.rep.kind = ed.rep.kind
    BY <1>0, <2>0, SavingKeeps DEF SameRep
  <2>2. ASSUME ~fate.crossed
        PROVE  Sound(ed', file, left.size, fate.bare) /\ LooseShown(ed', Loose')
    <3>1. Sound(ed', file, left.size, fate.bare)
      BY <1>0, <1>1, <2>0, <2>2, IdleSaveSound
    <3>2. SameFate
      BY <1>1, <2>1 DEF SameFate
    <3>3. Loose # {} =>
             /\ ed.modified /\ ~ed.evicted /\ ~ed.incomplete /\ ~LoadInFlight(ed) /\ ~Replacing(ed)
             /\ ed.hist.asked /\ ed.hist.current => Loose \subseteq ed.hist.typed
      BY <1>0, <2>2 DEF LooseShown
    <3> QED BY <2>1, <2>2, <3>1, <3>2, <3>3, LooseStays DEF LoadInFlight, Installing, Replacing
  <2> QED BY <1>0, <1>1, <2>1, <2>2, StepKeeps
<1>5. CASE ~ed.save.torn
  <2>0. ed' = x
    BY <1>1, <1>5
  <2>1. EditorOK(ed')
    BY <1>0, <1>3, <2>0 DEF EditorOK
  <2>2. ASSUME ~fate.crossed
        PROVE  Sound(ed', file, left.size, fate.bare) /\ LooseShown(ed', Loose')
    <3>1. WholeOf(left.size, ed.text) /\ (s.ticket => s.path /\ ~LoadInFlight(ed))
      BY <1>0, <1>1, <1>2, <1>5, <2>2 DEF Sound, SaveHolds, Writing
    <3>2. Sound(x, file, left.size, fate.bare)
      BY <1>0, <1>1, <1>2, <1>d, <2>2, <3>1, CapturedSound
    <3>3. SameFate
      BY <1>1, <1>3, <2>0 DEF SameFate
    <3>4. Loose # {} =>
             /\ ed.modified /\ ~ed.evicted /\ ~ed.incomplete /\ ~LoadInFlight(ed) /\ ~Replacing(ed)
             /\ ed.hist.asked /\ ed.hist.current => Loose \subseteq ed.hist.typed
             /\ Loose \subseteq ToSet(ed.text)
      BY <1>0, <2>2 DEF LooseShown
    <3> QED BY <1>2, <1>3, <2>0, <2>2, <3>2, <3>3, <3>4, LooseWritten DEF LoadInFlight, Installing, Replacing
  <2> QED BY <1>0, <1>1, <2>1, <2>2, StepKeeps
<1> QED BY <1>4, <1>5

\* A save whose worker ran.
Ran(e, result, out) == [e EXCEPT !.save.step = "ran", !.save.result = result, !.save.out = out]

LEMMA RanIs ==
  ASSUME NEW e \in Editors, NEW result \in {"ok", "before", "after"}, NEW out \in Texts
  PROVE  LET x == Ran(e, result, out)
         IN  /\ x \in Editors /\ x.save.step = "ran" /\ x.save.result = result
             /\ x.save.text = e.save.text /\ x.save.out = out /\ x.save.was = e.save.was
             /\ x.save.path = e.save.path /\ x.save.ticket = e.save.ticket
             /\ x.text = e.text /\ x.modified = e.modified /\ x.evicted = e.evicted
             /\ x.partial = e.partial /\ x.incomplete = e.incomplete /\ x.failed = e.failed
             /\ x.state = e.state /\ x.load = e.load /\ x.held = e.held
             /\ x.rep = e.rep /\ x.waiting = e.waiting /\ x.hist = e.hist
<1> DEFINE s == [e.save EXCEPT !.step = "ran", !.result = result, !.out = out]
<1>1. /\ s \in Writes /\ s.step = "ran" /\ s.result = result /\ s.out = out /\ s.text = e.save.text
      /\ s.was = e.save.was /\ s.path = e.save.path /\ s.ticket = e.save.ticket
  BY DEF Editors, Writes
<1>2. Ran(e, result, out) = [e EXCEPT !.save = s]
  BY DEF Ran, Editors, Writes
<1> HIDE DEF s
<1> QED BY <1>1, <1>2, WithSave

LEMMA RanSound ==
  ASSUME NEW e \in Editors, NEW result \in {"ok", "before", "after"},
         NEW out \in {e.save.text, Formatted(e.save.text)}, NEW size \in Nat,
         NEW f, NEW bare, Sound(e, f, size, bare), e.save.step = "writing"
  PROVE  Sound(Ran(e, result, out), IF result # "before" /\ e.save.path THEN out ELSE f, size, bare)
<1> DEFINE x == Ran(e, result, out)
           g == IF result # "before" /\ e.save.path THEN out ELSE f
<1>0. e.save.text \in Texts /\ WholeOf(size, e.save.text)
  BY DEF Editors, Writes, Sound, SaveHolds
<1>a. out \in Texts /\ WholeOf(size, out)
  BY <1>0, FormattedWhole
<1>1. /\ x.save.step = "ran" /\ x.save.result = result
      /\ x.save.text = e.save.text /\ x.save.out = out /\ x.save.was = e.save.was
      /\ x.save.path = e.save.path /\ x.save.ticket = e.save.ticket
      /\ x.text = e.text /\ x.modified = e.modified /\ x.evicted = e.evicted
      /\ x.partial = e.partial /\ x.incomplete = e.incomplete /\ x.failed = e.failed
      /\ x.state = e.state /\ x.load = e.load /\ x.rep = e.rep /\ x.waiting = e.waiting
  BY <1>a, RanIs
<1> HIDE DEF x
<1>2. WholeOf(size, e.save.text) /\ WholeOf(size, g)
  BY <1>0, <1>a DEF Sound
<1>3. TextWhole(x, size)
  BY <1>1 DEF Sound, TextWhole, Elsewhere, Changing, Installing, Replacing
<1>4. LoadBrings(x, g, size)
  BY <1>1 DEF Sound, LoadBrings, Installing, LoadInFlight
<1>5. ~Replacing(e) /\ (e.save.ticket => e.save.path /\ ~LoadInFlight(e) /\ e.text = e.save.text
                                         /\ e.modified = e.save.was)
  BY DEF Sound, SaveHolds, Writing
<1>6. RepBrings(x, g, size)
  BY <1>1, <1>5 DEF Sound, RepBrings, Installing, Replacing
<1>7. SaveHolds(x, g, size)
  BY <1>1, <1>2, <1>5 DEF SaveHolds, Writing, Replacing, LoadInFlight, Installing
<1>8. CleanShows(x, g, bare)
  BY <1>1, <1>5 DEF Sound, CleanShows, Elsewhere, Changing, Installing, Replacing
<1> QED BY <1>2, <1>3, <1>4, <1>6, <1>7, <1>8 DEF Sound, x

LEMMA WriteSaveKeeps ==
  ASSUME BufferInv, WriteSave
  PROVE  BufferInv'
<1>0. /\ EditorOK(ed) /\ ed \in Editors /\ file \in Texts /\ left \in BufferBounds /\ fate \in Fates
      /\ ~fate.crossed => Sound(ed, file, left.size, fate.bare) /\ LooseShown(ed, Loose)
  BY InvMeans
<1>1. PICK result \in {"ok", "before", "after"}, out \in {ed.save.text, Formatted(ed.save.text)} :
        /\ IF result = "ok" THEN left' = left ELSE Spend("faults")
        /\ ed' = Ran(ed, result, out)
        /\ file' = IF result # "before" /\ ed.save.path THEN out ELSE file
        /\ fate' = IF result = "ok" THEN [fate EXCEPT !.kept = fate.kept \cup Typed(ed.save.text)]
                   ELSE fate
  BY DEF WriteSave, Ran
<1>2. ed.save.step = "writing" /\ ed.save.text \in Texts /\ left.size \in Nat
  BY <1>0 DEF WriteSave, Editors, Writes, BufferBounds
<1>a. out \in Texts
  BY <1>1, <1>2, FormattedIsText
<1>3. left' \in BufferBounds /\ left'.size = left.size
  BY <1>0, <1>1, SpendOK
<1>4. file' \in Texts
  BY <1>0, <1>1, <1>a
<1>5. /\ ed' \in Editors /\ ed'.save.step = "ran" /\ ed'.save.result = result
      /\ ed'.save.text = ed.save.text /\ ed'.save.was = ed.save.was
      /\ ed'.text = ed.text /\ ed'.modified = ed.modified /\ ed'.evicted = ed.evicted
      /\ ed'.incomplete = ed.incomplete /\ ed'.state = ed.state /\ ed'.load = ed.load
      /\ ed'.held = ed.held /\ ed'.rep = ed.rep /\ ed'.waiting = ed.waiting /\ ed'.hist = ed.hist
  <2> DEFINE s == [ed.save EXCEPT !.step = "ran", !.result = result, !.out = out]
             x == [ed EXCEPT !.save = s]
  <2>1. /\ s \in Writes /\ s.step = "ran" /\ s.result = result /\ s.text = ed.save.text
        /\ s.was = ed.save.was
    BY <1>0, <1>a DEF Editors, Writes
  <2>2. ed' = x
    BY <1>0, <1>1 DEF Ran, Editors, Writes
  <2> HIDE DEF s
  <2>3. /\ x \in Editors /\ x.save = s
        /\ x.text = ed.text /\ x.modified = ed.modified /\ x.evicted = ed.evicted
        /\ x.partial = ed.partial /\ x.incomplete = ed.incomplete /\ x.failed = ed.failed
        /\ x.state = ed.state /\ x.load = ed.load /\ x.held = ed.held
        /\ x.rep = ed.rep /\ x.waiting = ed.waiting /\ x.hist = ed.hist
    BY <1>0, <2>1, WithSave
  <2> HIDE DEF x
  <2> QED BY <2>1, <2>2, <2>3
<1>6. EditorOK(ed')
  BY <1>0, <1>5 DEF EditorOK
<1>7. /\ fate' \in Fates /\ fate'.typed = fate.typed /\ fate'.stray = fate.stray
      /\ fate'.crossed = fate.crossed /\ fate'.bare = fate.bare
      /\ fate'.kept = IF result = "ok" THEN fate.kept \cup Typed(ed.save.text) ELSE fate.kept
  <2>1. Typed(ed.save.text) \in SUBSET ({"typed"} \X Nat)
    BY <1>2, TypedOf
  <2> QED BY <1>0, <1>1, <2>1 DEF Fates
<1>8. ASSUME ~fate.crossed
      PROVE  Sound(ed', file', left.size, fate.bare) /\ LooseShown(ed', Loose')
  <2>1. Sound(ed', file', left.size, fate.bare)
    BY <1>0, <1>1, <1>2, <1>8, RanSound
  <2>2. SameFate
    BY <1>5, <1>7 DEF SameFate
  <2>3. Loose # {} =>
           /\ ed.modified /\ ~ed.evicted /\ ~ed.incomplete /\ ~LoadInFlight(ed) /\ ~Replacing(ed)
           /\ ed.hist.asked /\ ed.hist.current => Loose \subseteq ed.hist.typed
           /\ ed.save.was /\ Loose \subseteq ToSet(ed.save.text)
    BY <1>0, <1>2, <1>8 DEF LooseShown
  <2>4. CASE result # "ok"
    BY <1>5, <1>8, <2>1, <2>2, <2>3, <2>4, LooseWritten DEF LoadInFlight, Installing, Replacing
  <2>5. CASE result = "ok"
    <3>1. Loose' \subseteq Loose
      BY <2>2, LooseShrinks
    <3>2. ASSUME NEW p \in Loose'
          PROVE  FALSE
      <4>1. p \in ToSet(ed.save.text)
        BY <2>3, <3>1, <3>2
      <4>2. PICK n \in Nat : p = <<"typed", n>>
        BY <3>1, <3>2, LooseIsTyped DEF BufferInv
      <4>3. p \in Typed(ed.save.text)
        BY <1>2, <4>1, <4>2, TypedOf
      <4>4. p \notin fate'.kept
        BY <3>2 DEF Loose
      <4> QED BY <1>7, <2>5, <4>3, <4>4
    <3> QED BY <2>1, <3>2 DEF LooseShown
  <2> QED BY <2>4, <2>5
<1> QED BY <1>0, <1>3, <1>4, <1>6, <1>7, <1>8, StepKeeps

LEMMA RestoreReadyKeeps ==
  ASSUME BufferInv, RestoreReady
  PROVE  BufferInv'
<1> DEFINE e == [ed EXCEPT !.hist = NoAsk]
           r == RepRequest("restore", Body("hist"))
           meets == ed.hist.current /\ (LoadInFlight(ed) \/ ed.save.step # "none")
<1>0. /\ EditorOK(ed) /\ ed \in Editors /\ file \in Texts /\ left \in BufferBounds /\ fate \in Fates
      /\ left.size \in Nat \ {0}
      /\ ~fate.crossed => Sound(ed, file, left.size, fate.bare) /\ LooseShown(ed, Loose)
  BY InvMeans
<1>1. /\ file' = file /\ ed.hist.asked
      /\ \/ /\ ed' = IF ed.hist.current THEN AcceptRep(e, r) ELSE e
            /\ fate' = [fate EXCEPT !.kept = fate.kept \cup ed.hist.typed,
                                    !.crossed = fate.crossed \/ meets]
            /\ left' = left
         \/ ed' = e /\ Spend("faults") /\ fate' = fate
  BY DEF RestoreReady
<1>2. /\ ed.hist.current \in BOOLEAN /\ meets \in BOOLEAN
      /\ ed.hist.typed \in SUBSET ({"typed"} \X Nat)
  BY <1>0 DEF Editors
<1>a. left' \in BufferBounds /\ left'.size = left.size
  BY <1>0, <1>1, SpendOK
<1>d. meets <=> (ed.hist.current /\ (LoadInFlight(ed) \/ ed.save.step # "none"))
  OBVIOUS
<1> HIDE DEF meets
<1>3. /\ fate' \in Fates /\ fate'.typed = fate.typed /\ fate'.stray = fate.stray
      /\ fate'.bare = fate.bare /\ fate.kept \subseteq fate'.kept
      /\ fate.crossed => fate'.crossed
      /\ ed' # e => /\ ed' = AcceptRep(e, r) /\ ed.hist.current
                    /\ fate'.kept = fate.kept \cup ed.hist.typed /\ (meets => fate'.crossed)
  <2>1. CASE fate' = [fate EXCEPT !.kept = fate.kept \cup ed.hist.typed,
                                 !.crossed = fate.crossed \/ meets]
    <3>1. (fate.crossed \/ meets) \in BOOLEAN
      BY <1>0, <1>2 DEF Fates
    <3>2. /\ fate' \in Fates /\ fate'.typed = fate.typed /\ fate'.stray = fate.stray
          /\ fate'.bare = fate.bare /\ fate'.kept = fate.kept \cup ed.hist.typed
          /\ (fate'.crossed <=> (fate.crossed \/ meets))
      BY <1>0, <1>2, <2>1, <3>1 DEF Fates
    <3> QED BY <1>1, <3>2
  <2>2. CASE fate' = fate /\ ed' = e
    BY <1>0, <2>2
  <2> QED BY <1>1, <2>1, <2>2
<1>4. /\ e \in Editors /\ e.text = ed.text /\ e.modified = ed.modified /\ e.evicted = ed.evicted
      /\ e.partial = ed.partial /\ e.incomplete = ed.incomplete /\ e.failed = ed.failed
      /\ e.state = ed.state /\ e.load = ed.load /\ e.save = ed.save /\ e.held = ed.held
      /\ e.rep = ed.rep /\ e.waiting = ed.waiting /\ e.hist = NoAsk
  BY <1>0, NoneOK DEF Editors
<1>5. WholeOf(left.size, Body("hist")) /\ Body("hist") \in Texts
  BY <1>0, BodyIsWhole, BodyIsText DEF Body
<1>6. /\ r \in Reps /\ r.kind = "restore" /\ r.phase = "none" /\ ~r.started
      /\ r.body = Body("hist")
  BY <1>5, NoneOK DEF RepRequest, NoRep, Reps
<1> HIDE DEF e, r
<1>7. EditorOK(e)
  BY <1>0, <1>4 DEF EditorOK
<1>8. EditorOK(ed') /\ ed'.held.text = ed.held.text
  <2>1. EditorOK(AcceptRep(e, r)) /\ AcceptRep(e, r).held.text = e.held.text
    BY <1>6, <1>7, AcceptRepOK
  <2> QED BY <1>3, <1>4, <1>7, <2>1
<1>9. ASSUME ~fate'.crossed
      PROVE  Sound(ed', file, left.size, fate.bare) /\ LooseShown(ed', Loose')
  <2>0. ~fate.crossed /\ Sound(ed, file, left.size, fate.bare)
    BY <1>0, <1>3, <1>9
  <2>1. Sound(e, file, left.size, fate.bare)
    BY <1>4, <2>0, KinSound DEF Kin
  <2>2. SameFate
    BY <1>3, <1>8 DEF SameFate
  <2>3. CASE ed' # e
    <3>1. ~LoadInFlight(ed) /\ ed.save.step = "none"
      BY <1>3, <1>9, <1>d, <2>3
    <3>2. e.save.step = "none" /\ ~Installing(e)
      BY <1>4, <3>1 DEF LoadInFlight, Installing
    <3>3. Sound(AcceptRep(e, r), file, left.size, fate.bare)
      BY <1>5, <1>6, <1>7, <2>1, <3>2, AcceptRepSound
    <3>4. Loose' = {}
      <4>1. Loose \subseteq ed.hist.typed
        BY <1>0, <1>1, <1>3, <2>0, <2>3 DEF LooseShown
      <4>2. Loose' \subseteq Loose \ fate'.kept
        BY <1>3, <1>8 DEF Loose
      <4> QED BY <1>3, <2>3, <4>1, <4>2
    <3> QED BY <1>3, <2>3, <3>3, <3>4 DEF LooseShown
  <2>4. CASE ed' = e
    <3>1. ~NoAsk.asked
      BY DEF NoAsk
    <3>2. Loose # {} =>
             /\ ed.modified /\ ~ed.evicted /\ ~ed.incomplete /\ ~LoadInFlight(ed) /\ ~Replacing(ed)
      BY <1>0, <2>0 DEF LooseShown
    <3> QED BY <1>4, <2>0, <2>1, <2>2, <2>4, <3>1, <3>2, LooseStays DEF LoadInFlight, Installing, Replacing
  <2> QED BY <2>3, <2>4
<1> QED BY <1>0, <1>1, <1>a, <1>3, <1>8, <1>9, StepKeeps

LEMMA CancelLoadIdle ==
  ASSUME NEW e \in Editors, ~LoadInFlight(e)
  PROVE  ~LoadInFlight(CancelLoad(e)) /\ CancelLoad(e).incomplete = e.incomplete
<1> DEFINE s == Stopping(e)
<1>1. /\ s \in Editors /\ s.incomplete = e.incomplete /\ s.state = e.state
      /\ s.load.step = "none" /\ s.load.phase = e.load.phase
  BY StoppingIs
<1>2. CancelLoad(e) = Abort(s)
  BY CancelLoadIs DEF LoadInFlight
<1> HIDE DEF s
<1>3. Abort(s) = s
  BY <1>1, AbortIs DEF LoadInFlight, Installing
<1> QED BY <1>1, <1>2, <1>3 DEF LoadInFlight, Installing

LEMMA AdmitSaveKeeps ==
  ASSUME BufferInv, AdmitSave
  PROVE  BufferInv'
<1> DEFINE fresh == ed.save.path /\ (ed.save.required => Dirty(ed))
           c == CancelLoad(ed)
           s == [c.save EXCEPT !.ticket = TRUE, !.step = "capturing"]
           w == [s EXCEPT !.step = "writing", !.text = ed.text, !.was = ed.modified]
           own == [c EXCEPT !.save.ticket = TRUE, !.save.step = "capturing"]
<1>0. /\ EditorOK(ed) /\ ed \in Editors /\ file \in Texts /\ left \in BufferBounds /\ fate \in Fates
      /\ ~fate.crossed => Sound(ed, file, left.size, fate.bare) /\ LooseShown(ed, Loose)
  BY InvMeans
<1>1. /\ left' = left /\ file' = file /\ fate' = fate /\ ed.save.step = "queued"
      /\ ed' = IF ~fresh THEN Saving(ed, NoWrite)
               ELSE IF NoWholeDocument(c) THEN Saving(c, NoWrite)
               ELSE IF Large(ed.text) THEN own
               ELSE [own EXCEPT !.save.step = "writing", !.save.text = ed.text, !.save.was = ed.modified]
  BY DEF AdmitSave, Saving, RefusesCapture
<1>2. /\ c \in Editors /\ c.text = ed.text /\ c.modified = ed.modified /\ c.hist = ed.hist
      /\ c.evicted = ed.evicted /\ c.partial = ed.partial /\ c.held = ed.held
      /\ c.rep.kind = ed.rep.kind /\ c.load.step = "none"
      /\ c.save = [ed.save EXCEPT !.ticket = FALSE]
      /\ c.state # "Loading" \/ Installing(c)
  BY <1>0, CancelLoadKeeps
<1>3. EditorOK(c)
  BY <1>0, CancelLoadPlain, PlainOK
<1>4. c.save.step = "queued" /\ c.save.path = ed.save.path
  BY <1>0, <1>1, <1>2 DEF Editors, Writes
<1>5. ASSUME ~fate.crossed
      PROVE  /\ Sound(c, file, left.size, fate.bare)
             /\ ~LoadInFlight(ed) => ~LoadInFlight(c) /\ c.incomplete = ed.incomplete
  BY <1>0, <1>5, CancelLoadSound, CancelLoadIdle
<1> HIDE DEF c
<1>6. /\ s \in Writes /\ s.step = "capturing" /\ s.path = ed.save.path
      /\ w \in Writes /\ w.step = "writing" /\ w.path = ed.save.path
      /\ w.text = ed.text /\ w.was = ed.modified
  BY <1>0, <1>2, <1>4 DEF Editors, Writes
<1>7. own = [c EXCEPT !.save = s]
  BY <1>2 DEF Editors, Writes
<1>8. [own EXCEPT !.save.step = "writing", !.save.text = ed.text, !.save.was = ed.modified]
        = [c EXCEPT !.save = w]
  BY <1>2 DEF Editors, Writes
<1>9. ed' \in {Saving(ed, NoWrite), Saving(c, NoWrite)}
        \/ /\ fresh /\ ~NoWholeDocument(c)
           /\ ed' = [c EXCEPT !.save = s] \/ ed' = [c EXCEPT !.save = w]
  <2> HIDE DEF own, s, w, fresh
  <2> QED BY <1>1, <1>7, <1>8
<1> HIDE DEF own, s, w
<1>a. NoWrite \in Writes /\ NoWrite.step = "none"
  BY NoneOK DEF NoWrite
<1>b. ASSUME ~fate.crossed
      PROVE  Loose # {} =>
               /\ ed.modified /\ ~ed.evicted /\ ~ed.incomplete /\ ~LoadInFlight(ed) /\ ~Replacing(ed)
               /\ ed.hist.asked /\ ed.hist.current => Loose \subseteq ed.hist.typed
             /\ Loose \subseteq ToSet(ed.text)
  BY <1>0, <1>b DEF LooseShown
<1>10. ASSUME NEW e \in {ed, c}, ed' = Saving(e, NoWrite)
       PROVE  BufferInv'
  <2>1. /\ EditorOK(e) /\ e \in Editors /\ e.held = ed.held /\ e.text = ed.text
        /\ e.modified = ed.modified /\ e.evicted = ed.evicted /\ e.hist = ed.hist
        /\ e.rep.kind = ed.rep.kind /\ e.save.step = "queued"
        /\ ~fate.crossed =>
             /\ Sound(e, file, left.size, fate.bare)
             /\ ~LoadInFlight(ed) => ~LoadInFlight(e) /\ e.incomplete = ed.incomplete
    BY <1>0, <1>1, <1>2, <1>3, <1>4, <1>5
  <2>2. /\ EditorOK(ed') /\ ed'.held.text = ed.held.text /\ ed'.save.step = "none"
        /\ ed'.text = ed.text /\ ed'.modified = ed.modified /\ ed'.evicted = ed.evicted
        /\ ed'.incomplete = e.incomplete /\ ed'.state = e.state /\ ed'.load = e.load
        /\ ed'.hist = ed.hist /\ ed'.rep.kind = ed.rep.kind
    BY <1>10, <1>a, <2>1, SavingKeeps DEF SameRep
  <2>3. ASSUME ~fate.crossed
        PROVE  Sound(ed', file, left.size, fate.bare) /\ LooseShown(ed', Loose')
    <3>1. Sound(ed', file, left.size, fate.bare)
      BY <1>10, <1>a, <2>1, <2>3, IdleSaveSound
    <3>2. SameFate
      BY <1>1, <2>2 DEF SameFate
    <3>3. ~LoadInFlight(e) => ~LoadInFlight(ed')
      BY <2>2 DEF LoadInFlight, Installing
    <3>4. ~Replacing(ed) => ~Replacing(ed')
      BY <2>2 DEF Replacing
    <3> QED BY <1>b, <2>1, <2>2, <2>3, <3>1, <3>2, <3>3, <3>4, LooseStays
  <2> QED BY <1>0, <1>1, <2>2, <2>3, StepKeeps
<1>11. ASSUME fresh, ~NoWholeDocument(c), NEW t \in {s, w}, ed' = [c EXCEPT !.save = t]
       PROVE  BufferInv'
  <2>1. /\ t \in Writes /\ t.step \in {"capturing", "writing"} /\ t.path
        /\ t.step = "writing" => t.text = ed.text /\ t.was = ed.modified
    BY <1>6, <1>11
  <2>2. /\ ed' \in Editors /\ ed'.save = t
        /\ ed'.text = ed.text /\ ed'.modified = ed.modified /\ ed'.evicted = ed.evicted
        /\ ed'.incomplete = c.incomplete /\ ed'.state = c.state /\ ed'.load = c.load
        /\ ed'.held = ed.held /\ ed'.rep = c.rep /\ ed'.waiting = c.waiting /\ ed'.hist = ed.hist
    BY <1>2, <1>11, <2>1 DEF Editors
  <2>3. EditorOK(ed')
    BY <1>3, <2>2 DEF EditorOK
  <2>4. /\ ~c.incomplete /\ ~Installing(c) /\ ~c.evicted /\ (c.partial => c.modified)
        /\ c.state # "Loading" /\ ~LoadInFlight(c)
    BY <1>2, <1>11 DEF NoWholeDocument, LoadInFlight
  <2>5. ASSUME ~fate.crossed
        PROVE  Sound(ed', file, left.size, fate.bare) /\ LooseShown(ed', Loose')
    <3>1. Sound(c, file, left.size, fate.bare)
      BY <1>5, <2>5
    <3>2. ~Replacing(c)
      BY <1>4, <3>1 DEF Sound, SaveHolds
    <3>3. WholeOf(left.size, c.text)
      BY <1>4, <2>4, <3>1, <3>2 DEF Sound, TextWhole, Elsewhere, Changing
    <3>4. Sound(ed', file, left.size, fate.bare)
      BY <1>2, <1>4, <1>11, <2>1, <2>4, <3>1, <3>3, CapturedSound
    <3>5. SameFate
      BY <1>1, <2>2 DEF SameFate
    <3>6. ~LoadInFlight(ed') /\ ~Replacing(ed') /\ ~ed'.incomplete
      BY <2>2, <2>4, <3>2 DEF LoadInFlight, Installing, Replacing
    <3> QED BY <1>b, <2>1, <2>2, <2>5, <3>4, <3>5, <3>6, LooseWritten
  <2> QED BY <1>0, <1>1, <2>3, <2>5, StepKeeps
<1> QED BY <1>9, <1>10, <1>11

\* A save that ends with the buffer as it was.
LEMMA EndedSound ==
  ASSUME NEW e \in Editors, NEW modified \in BOOLEAN, NEW f, NEW size, NEW bare, Sound(e, f, size, bare),
         e.save.step = "ran", ~LoadInFlight(e),
         \/ modified
         \/ /\ e.save.ticket /\ e.modified = modified
            /\ e.save.result = "before" \/ e.text \in bare
  PROVE  Sound(EndSaveAs(e, modified), f, size, bare)
<1> DEFINE x == EndSaveAs(e, modified)
<1>1. /\ x.text = e.text /\ x.modified = modified /\ x.evicted = e.evicted
      /\ x.partial = e.partial /\ x.incomplete = e.incomplete /\ x.failed = e.failed
      /\ x.state = e.state /\ x.load = e.load /\ x.save = NoWrite
      /\ x.rep.kind = e.rep.kind /\ x.rep.phase = e.rep.phase /\ x.rep.body = e.rep.body
      /\ x.rep.started = e.rep.started
      /\ x.waiting.kind = e.waiting.kind /\ x.waiting.body = e.waiting.body
  BY EndSaveAsIs DEF SameRep
<1>2. NoWrite.step = "none"
  BY DEF NoWrite
<1>3. ~Replacing(e)
  BY DEF Sound, SaveHolds
<1> HIDE DEF x
<1>4. TextWhole(x, size)
  BY <1>1, <1>2 DEF Sound, TextWhole, Elsewhere, Changing, Installing, Replacing
<1>5. LoadBrings(x, f, size)
  BY <1>1 DEF Sound, LoadBrings, Installing, LoadInFlight
<1>6. RepBrings(x, f, size)
  BY <1>1, <1>2, <1>3 DEF Sound, RepBrings, Installing, Replacing
<1>7. SaveHolds(x, f, size)
  BY <1>1, <1>2 DEF SaveHolds, Writing
<1>8. CleanShows(x, f, bare)
  <2>1. CASE modified
    BY <1>1, <2>1 DEF CleanShows
  <2>2. CASE ~modified /\ e.save.result = "before"
    BY <1>1, <1>2, <2>2 DEF Sound, CleanShows, Elsewhere, Changing, Installing, Replacing
  <2>3. CASE ~modified /\ e.save.result # "before"
    <3>1. e.text = e.save.text /\ f \in {e.save.text, Formatted(e.save.text)} /\ e.text \in bare
      BY <2>3 DEF Sound, SaveHolds, Writing
    <3> QED BY <1>1, <3>1 DEF CleanShows
  <2> QED BY <2>1, <2>2, <2>3
<1> QED BY <1>4, <1>5, <1>6, <1>7, <1>8 DEF Sound, x

LEMMA AcceptedSound ==
  ASSUME NEW e \in Editors, NEW f, NEW size, NEW bare, Sound(e, f, size, bare),
         e.save.step = "ran", ~LoadInFlight(e), e.text = f
  PROVE  Sound(Accepted(e), f, size, bare)
<1> DEFINE x == Accepted(e)
<1>1. /\ x.text = e.text /\ ~x.modified /\ x.evicted = e.evicted
      /\ x.partial = e.partial /\ x.incomplete = e.incomplete /\ ~x.failed
      /\ x.state = "Loaded" /\ x.load = e.load /\ x.save = NoWrite
      /\ x.rep.kind = e.rep.kind /\ x.rep.phase = e.rep.phase /\ x.rep.body = e.rep.body
      /\ x.rep.started = e.rep.started
      /\ x.waiting.kind = e.waiting.kind /\ x.waiting.body = e.waiting.body
  BY AcceptedIs DEF SameRep
<1>2. NoWrite.step = "none"
  BY DEF NoWrite
<1>3. ~Replacing(e) /\ WholeOf(size, f)
  BY DEF Sound, SaveHolds
<1> HIDE DEF x
<1>4. TextWhole(x, size) /\ CleanShows(x, f, bare)
  BY <1>1, <1>3 DEF TextWhole, CleanShows
<1>5. LoadBrings(x, f, size)
  BY <1>1 DEF Sound, LoadBrings, Installing, LoadInFlight
<1>6. RepBrings(x, f, size)
  BY <1>1, <1>2, <1>3 DEF Sound, RepBrings, Installing, Replacing
<1>7. SaveHolds(x, f, size)
  BY <1>1, <1>2 DEF SaveHolds, Writing
<1> QED BY <1>3, <1>4, <1>5, <1>6, <1>7 DEF Sound, x

\* A save that puts the formatted text back.
Mirroring(e) == [e EXCEPT !.save.step = "mirror"]

LEMMA MirroringIs ==
  ASSUME NEW e \in Editors
  PROVE  LET x == Mirroring(e)
         IN  /\ x \in Editors /\ x.save.step = "mirror" /\ x.save.text = e.save.text
             /\ x.save.out = e.save.out /\ x.save.path = e.save.path /\ x.save.ticket = e.save.ticket
             /\ x.text = e.text /\ x.modified = e.modified /\ x.evicted = e.evicted
             /\ x.partial = e.partial /\ x.incomplete = e.incomplete /\ x.failed = e.failed
             /\ x.state = e.state /\ x.load = e.load /\ x.held = e.held
             /\ x.rep = e.rep /\ x.waiting = e.waiting /\ x.hist = e.hist
<1> DEFINE s == [e.save EXCEPT !.step = "mirror"]
<1>1. /\ s \in Writes /\ s.step = "mirror" /\ s.text = e.save.text /\ s.out = e.save.out
      /\ s.path = e.save.path /\ s.ticket = e.save.ticket
  BY DEF Editors, Writes
<1>2. Mirroring(e) = [e EXCEPT !.save = s]
  BY DEF Mirroring, Editors, Writes
<1> HIDE DEF s
<1> QED BY <1>1, <1>2, WithSave

LEMMA MirrorSound ==
  ASSUME NEW e, EditorOK(e), NEW r \in Reps, NEW f, NEW size, NEW bare, Sound(e, f, size, bare),
         e.save.step = "ran", ~LoadInFlight(e), e.save.ticket,
         r.kind = "mirror", ~r.started, r.body = f
  PROVE  Sound(AcceptRep(Mirroring(e), r), f, size, bare)
<1> DEFINE x == Mirroring(e)
           b == Begun(x, r)
<1>0. e \in Editors
  BY DEF EditorOK
<1>1. /\ x \in Editors /\ x.save.step = "mirror" /\ x.save.text = e.save.text /\ x.save.out = e.save.out
      /\ x.save.path = e.save.path /\ x.save.ticket = e.save.ticket
      /\ x.text = e.text /\ x.modified = e.modified /\ x.evicted = e.evicted
      /\ x.partial = e.partial /\ x.incomplete = e.incomplete /\ x.failed = e.failed
      /\ x.state = e.state /\ x.load = e.load /\ x.rep = e.rep /\ x.waiting = e.waiting
  BY <1>0, MirroringIs
<1>2. ~Replacing(e) /\ ~Installing(e) /\ e.save.path /\ WholeOf(size, f)
      /\ e.text = e.save.text /\ WholeOf(size, e.save.text)
      /\ e.save.out \in {e.save.text, Formatted(e.save.text)}
  BY DEF Sound, SaveHolds, Writing, LoadInFlight
<1>3. AcceptRep(x, r) = BeginRep(x, r)
  BY <1>1, <1>2 DEF AcceptRep, Replacing
<1> HIDE DEF x
<1>4. /\ b.text = x.text /\ b.waiting = x.waiting /\ b.rep.kind = r.kind /\ b.rep.phase = "clear"
      /\ b.rep.body = r.body /\ b.rep.started = r.started
  BY <1>1, BegunIs
<1>5. /\ b.modified = x.modified /\ b.evicted = x.evicted /\ b.partial = x.partial
      /\ b.incomplete = x.incomplete /\ b.failed = x.failed /\ b.state = x.state
      /\ b.load = x.load /\ b.save = x.save
  BY <1>1 DEF Begun, Editors
<1>6. e.waiting.kind = "none"
  BY <1>2 DEF EditorOK, Replacing
<1> HIDE DEF b
<1>7. TextWhole(b, size) /\ CleanShows(b, f, bare)
  BY <1>1, <1>2, <1>4, <1>5 DEF TextWhole, CleanShows
<1>8. LoadBrings(b, f, size)
  BY <1>1, <1>4, <1>5 DEF Sound, LoadBrings, Installing, LoadInFlight
<1>9. RepBrings(b, f, size)
  BY <1>1, <1>2, <1>4, <1>5, <1>6 DEF RepBrings, Installing, Replacing
<1>10. SaveHolds(b, f, size)
  <2>1. (Writing(b) <=> Writing(x)) /\ (LoadInFlight(b) <=> LoadInFlight(x))
    BY <1>5 DEF Writing, LoadInFlight, Installing
  <2>2. ~LoadInFlight(b) /\ b.save.path = x.save.path /\ b.save.step = "mirror"
    BY <1>1, <1>2, <1>5, <2>1 DEF LoadInFlight, Installing
  <2>3. WholeOf(size, b.save.text) /\ (b.save.ticket => b.save.path)
    BY <1>1, <1>2, <1>5 DEF SaveHolds, Writing
  <2>4. b.save.out \in {b.save.text, Formatted(b.save.text)}
    BY <1>1, <1>2, <1>5
  <2> QED BY <2>2, <2>3, <2>4 DEF SaveHolds
<1>11. Sound(b, f, size, bare)
  BY <1>2, <1>7, <1>8, <1>9, <1>10 DEF Sound
<1>12. Sound(BeginRep(x, r), f, size, bare)
  BY <1>1, <1>11, BeginRepSound DEF b
<1> QED BY <1>3, <1>12 DEF x

LEMMA SaveAnsweredKeeps ==
  ASSUME BufferInv, SaveAnswered
  PROVE  BufferInv'
<1> DEFINE r == RepRequest("mirror", ed.save.out)
           more == IF LeavesBare(ed.save) THEN fate.bare \cup {ed.text} ELSE fate.bare
<1>0. /\ EditorOK(ed) /\ ed \in Editors /\ file \in Texts /\ left \in BufferBounds /\ fate \in Fates
      /\ ~fate.crossed => Sound(ed, file, left.size, fate.bare) /\ LooseShown(ed, Loose)
  BY InvMeans
<1>1. /\ left' = left /\ file' = file /\ ed.save.step = "ran"
      /\ fate' = [fate EXCEPT !.crossed = fate.crossed \/ LoadInFlight(ed), !.bare = more]
      /\ ed' = IF ~ed.save.ticket THEN EndSaveAs(ed, TRUE)
               ELSE IF ed.save.result # "ok" THEN EndSaveAs(ed, ed.save.was)
               ELSE IF ed.save.out = ed.save.text THEN Accepted(ed)
               ELSE AcceptRep(Mirroring(ed), r)
  BY DEF SaveAnswered, Unaccepted, Mirroring
<1>2. ed.save.out \in Texts /\ ed.save.was \in BOOLEAN /\ ed.text \in Texts
  BY <1>0 DEF Editors, Writes
<1>3. /\ fate' \in Fates /\ fate'.typed = fate.typed /\ fate'.kept = fate.kept
      /\ fate'.stray = fate.stray /\ fate'.bare = more /\ fate.bare \subseteq more
      /\ (fate'.crossed <=> (fate.crossed \/ LoadInFlight(ed)))
  <2>1. (fate.crossed \/ LoadInFlight(ed)) \in BOOLEAN
    BY <1>0 DEF LoadInFlight, Fates
  <2>2. more \in SUBSET Texts /\ fate.bare \subseteq more
    BY <1>0, <1>2 DEF Fates
  <2> HIDE DEF more
  <2> QED BY <1>0, <1>1, <2>1, <2>2 DEF Fates
<1>b. ed.save.ticket /\ ed.save.result = "after" /\ ~ed.save.was => ed.text \in more
  BY DEF LeavesBare
<1> HIDE DEF more
<1>4. /\ r \in Reps /\ r.kind = "mirror" /\ r.phase = "none" /\ ~r.started
      /\ r.body = ed.save.out
  BY <1>2, NoneOK DEF RepRequest, NoRep, Reps
<1> HIDE DEF r
<1>5. EditorOK(ed') /\ ed'.held.text = ed.held.text
  <2>1. \A m \in BOOLEAN : EditorOK(EndSaveAs(ed, m)) /\ EndSaveAs(ed, m).held.text = ed.held.text
    BY <1>0, EndSaveAsPlain, PlainOK DEF Plain
  <2>2. EditorOK(Accepted(ed)) /\ Accepted(ed).held.text = ed.held.text
    BY <1>0, EndsPlain, PlainOK DEF Plain
  <2>3. EditorOK(Mirroring(ed)) /\ Mirroring(ed).held.text = ed.held.text
    BY <1>0, MirroringIs DEF EditorOK
  <2>4. EditorOK(AcceptRep(Mirroring(ed), r)) /\ AcceptRep(Mirroring(ed), r).held.text = ed.held.text
    BY <1>4, <2>3, AcceptRepOK
  <2> QED BY <1>1, <1>2, <2>1, <2>2, <2>4
<1>6. ASSUME ~fate'.crossed
      PROVE  Sound(ed', file, left.size, more) /\ LooseShown(ed', Loose')
  <2>0. ~fate.crossed /\ ~LoadInFlight(ed) /\ Sound(ed, file, left.size, more)
    BY <1>0, <1>3, <1>6, SoundMore
  <2>1. SameFate
    BY <1>3, <1>5 DEF SameFate
  <2>2. ed.save.ticket =>
          /\ ed.text = ed.save.text /\ ed.modified = ed.save.was
          /\ ed.save.result # "before" => file = ed.save.out
    BY <1>1, <2>0 DEF Sound, SaveHolds, Writing
  <2>3. ASSUME NEW m \in BOOLEAN, ed' = EndSaveAs(ed, m),
               \/ m
               \/ /\ ed.save.ticket /\ ed.modified = m
                  /\ ed.save.result = "before" \/ ed.text \in more
        PROVE  Sound(ed', file, left.size, more) /\ LooseShown(ed', Loose')
    <3>1. Sound(ed', file, left.size, more)
      BY <1>0, <1>1, <2>0, <2>3, EndedSound
    <3>2. /\ ed'.text = ed.text /\ ed'.modified = m /\ ed'.evicted = ed.evicted
          /\ ed'.incomplete = ed.incomplete /\ ed'.state = ed.state /\ ed'.load = ed.load
          /\ ed'.save.step = "none" /\ ed'.hist = ed.hist /\ ed'.rep.kind = ed.rep.kind
      BY <1>0, <2>3, EndSaveAsIs DEF SameRep, NoWrite
    <3>3. Loose # {} =>
             /\ ed.modified /\ ~ed.evicted /\ ~ed.incomplete /\ ~LoadInFlight(ed) /\ ~Replacing(ed)
             /\ ed.hist.asked /\ ed.hist.current => Loose \subseteq ed.hist.typed
      BY <1>0, <2>0 DEF LooseShown
    <3> QED BY <2>0, <2>1, <2>3, <3>1, <3>2, <3>3, LooseStays DEF LoadInFlight, Installing, Replacing
  <2>4. CASE ~ed.save.ticket
    BY <1>1, <2>3, <2>4
  <2>5. CASE ed.save.ticket /\ ed.save.result # "ok"
    <3>1. ed' = EndSaveAs(ed, ed.save.was)
      BY <1>1, <2>5
    <3>2. ed.save.result \in {"before", "after"}
      BY <1>0, <1>1, <2>0, <2>5 DEF Sound, SaveHolds, Editors, Writes
    <3>3. ed.save.was \/ ed.save.result = "before" \/ ed.text \in more
      BY <1>b, <2>5, <3>2
    <3> QED BY <1>2, <2>2, <2>3, <2>5, <3>1, <3>3
  <2>6. CASE ed.save.ticket /\ ed.save.result = "ok"
    <3>1. LooseShown(ed', Loose')
      BY <1>1, <2>0, <2>1, <2>6, LooseGone
    <3>2. ed.save.out = ed.save.text => Sound(Accepted(ed), file, left.size, more)
      BY <1>0, <1>1, <2>0, <2>2, <2>6, AcceptedSound
    <3>3. Sound(AcceptRep(Mirroring(ed), r), file, left.size, more)
      BY <1>0, <1>1, <1>4, <2>0, <2>2, <2>6, MirrorSound
    <3> QED BY <1>1, <2>6, <3>1, <3>2, <3>3
  <2> QED BY <2>4, <2>5, <2>6
<1> QED BY <1>0, <1>1, <1>3, <1>5, <1>6, StepKeeps

-----------------------------------------------------------------------------
(* The invariant. *)

LEMMA InitInv ==
  ASSUME BufferInit
  PROVE  BufferInv
<1>1. /\ left \in BufferBounds /\ left.size \in Nat \ {0} /\ left.opening \in BOOLEAN
      /\ file = BodyOf(left.size, "file")
  BY BufferAssumption DEF BufferInit, BufferBounds, Body
<1>2. file \in Texts /\ WholeOf(left.size, file) /\ <<>> \in Texts
  BY <1>1, BodyIsText, BodyIsWhole DEF Texts
<1>3. ed = [text |-> IF left.opening THEN <<>> ELSE file, modified |-> FALSE,
           evicted |-> FALSE, partial |-> FALSE, incomplete |-> FALSE, failed |-> FALSE,
           state |-> IF left.opening THEN "Loading" ELSE "Loaded",
           shown |-> TRUE, requeue |-> FALSE,
           load |-> [NoLoad EXCEPT !.step = IF left.opening THEN "reading" ELSE "none"],
           rep |-> NoRep, waiting |-> NoRep, save |-> NoWrite, held |-> NoHeld, hist |-> NoAsk]
  BY DEF BufferInit
<1>4. fate = [typed |-> 0, kept |-> {}, stray |-> {}, bare |-> {}, crossed |-> FALSE]
  BY DEF BufferInit
<1>5. /\ ed.load \in Loads /\ ed.load.phase = "none" /\ ed.load.error = "Failed"
      /\ ed.load.step = IF left.opening THEN "reading" ELSE "none"
  BY <1>1, <1>2, <1>3 DEF NoLoad, Loads
<1>6. /\ ed.text = (IF left.opening THEN <<>> ELSE file) /\ ~ed.modified /\ ~ed.evicted
      /\ ~ed.partial /\ ~ed.incomplete /\ ~ed.failed
      /\ ed.state = (IF left.opening THEN "Loading" ELSE "Loaded")
      /\ ed.rep = NoRep /\ ed.waiting = NoRep /\ ed.save = NoWrite /\ ed.held = NoHeld
      /\ ed.hist = NoAsk /\ ed \in Editors
  BY <1>1, <1>2, <1>3, <1>5, NoneOK DEF Editors
<1>7. /\ NoRep.kind = "none" /\ NoRep.phase = "none" /\ ~NoRep.started /\ NoWrite.step = "none"
  BY DEF NoRep, NoWrite
<1>8. EditorOK(ed)
  BY <1>6, <1>7 DEF EditorOK
<1>9. BufferTypeOK
  BY <1>1, <1>2, <1>4, <1>8 DEF BufferTypeOK
<1>10. Sound(ed, file, left.size, fate.bare)
  <2>1. TextWhole(ed, left.size) /\ CleanShows(ed, file, fate.bare)
    BY <1>1, <1>2, <1>5, <1>6, <1>7 DEF TextWhole, CleanShows
  <2>2. LoadBrings(ed, file, left.size)
    BY <1>1, <1>5, <1>6 DEF LoadBrings, LoadInFlight, Installing
  <2>3. RepBrings(ed, file, left.size) /\ SaveHolds(ed, file, left.size)
    BY <1>6, <1>7 DEF RepBrings, SaveHolds, Replacing, Writing
  <2> QED BY <1>2, <2>1, <2>2, <2>3 DEF Sound
<1>11. Loose = {}
  BY <1>4 DEF Loose
<1> QED BY <1>9, <1>10, <1>11 DEF BufferInv, LooseShown

LEMMA NextInv ==
  ASSUME BufferInv, [BufferNext]_bufferVars
  PROVE  BufferInv'
<1>1. CASE BufferMachine
  BY <1>1, AdmitSaveKeeps, CaptureDoneKeeps, WriteSaveKeeps, SaveAnsweredKeeps, RestoreReadyKeeps,
     RepTurnKeeps, LoadReadKeeps, LoadDeliverKeeps, InstallTurnKeeps, ReloadEmptiedKeeps,
     SettleKeeps DEF BufferMachine
<1>2. CASE Type \/ Select \/ Deselect \/ Reload \/ ReloadAffected \/ Renamed \/ Evict
             \/ AskRestore \/ RequestSave
  BY <1>2, TypeKeeps, SelectKeeps, DeselectKeeps, ReloadKeeps, ReloadAffectedKeeps, RenamedKeeps,
     EvictKeeps, AskRestoreKeeps, RequestSaveKeeps
<1>3. CASE UNCHANGED bufferVars
  <2>1. ed' = ed /\ file' = file /\ left' = left /\ fate' = fate
    BY <1>3 DEF bufferVars
  <2>2. Loose' = Loose
    BY <2>1 DEF Loose
  <2> QED BY <2>1, <2>2 DEF BufferInv, BufferTypeOK
<1> QED BY <1>1, <1>2, <1>3 DEF BufferNext

\* Every step of the user, the main loop and the workers keeps the buffer as
\* its owner left it: whole, empty or marked, with all that was typed.
THEOREM BufferInvariant == BufferSpec => []BufferInv
<1>1. BufferInit => BufferInv
  BY InitInv
<1>2. BufferInv /\ [BufferNext]_bufferVars => BufferInv'
  BY NextInv
<1> QED BY <1>1, <1>2, PTL DEF BufferSpec

\* The editor stays well formed: a session has a phase while it owns the
\* buffer, only one that empties it again has a request behind it, and a load
\* is in one stage at a time.
THEOREM BufferTypes == BufferSpec => []BufferTypeOK
<1>1. BufferInv => BufferTypeOK
  BY DEF BufferInv
<1> QED BY <1>1, BufferInvariant, PTL

\* Whatever loads, cancellations, evictions, restores and saves followed one
\* another, a tab at rest that says it has no changes shows its file, and its
\* file holds a whole document: load/execution.rs, buffer_replacement/ and
\* save/completion.rs never let a half-installed or emptied buffer count.  The
\* exception is what save/execution.rs does when a formatted save of an unmodified
\* tab fails after its rename: the tab is clean, and its file the formatted text.
THEOREM CleanTabsShowTheFile == BufferSpec => []CleanIsWhole
<1>1. BufferInv => CleanIsWhole
  <2> SUFFICES ASSUME BufferInv, ~fate.crossed
               PROVE  /\ Whole(file)
                      /\ /\ ~Locked(ed) /\ ~LoadInFlight(ed) /\ ~ed.modified
                         /\ ~ed.evicted /\ ~ed.partial /\ ~ed.incomplete /\ ed.state = "Loaded"
                         /\ ~ed.failed
                         => ed.text = file \/ (ed.text \in fate.bare /\ file = Formatted(ed.text))
    BY DEF CleanIsWhole
  <2>1. WholeOf(left.size, file) /\ CleanShows(ed, file, fate.bare)
    BY DEF BufferInv, Sound
  <2>2. ~Locked(ed) /\ ~ed.evicted /\ ~ed.incomplete => ~Elsewhere(ed) /\ ed.save.step \notin {"ran", "mirror"}
    BY DEF Locked, Writing, Elsewhere, Changing
  <2> QED BY <2>1, <2>2 DEF Whole, CleanShows
<1> QED BY <1>1, BufferInvariant, PTL

\* No workflow drops what was typed before a save has written it, however many of
\* them follow one another: it is held (held_input.rs), in the buffer or the file, in
\* the safety snapshot a restore took first or in the tab it was rescued into.
THEOREM NothingTypedIsLost == BufferSpec => []TypedKept
<1>1. BufferInv => TypedKept
  <2> SUFFICES ASSUME BufferInv, ~fate.crossed, NEW n \in 1 .. fate.typed
               PROVE  \/ <<"typed", n>> \in fate.kept \cup fate.stray
                      \/ \E text \in {ed.text, ed.held.text, file, ed.rep.body, ed.load.body} :
                           <<"typed", n>> \in ToSet(text)
    BY DEF TypedKept
  <2> DEFINE p == <<"typed", n>>
  <2>1. p \in Loose \/ p \in fate.kept \cup fate.stray \/ p \in ToSet(ed.held.text)
    BY DEF Loose
  <2>2. p \in Loose => p \in ToSet(ed.text)
    BY DEF BufferInv, LooseShown
  <2> QED BY <2>1, <2>2
<1> QED BY <1>1, BufferInvariant, PTL
=============================================================================
