---------------------------------- MODULE Settle ----------------------------------
(***************************************************************************)
(* The SupersedingTimer of gtk-lush (settle): one delayed one-shot, armed  *)
(* and invalidated by code that may itself run inside the timer's own      *)
(* callback, or inside the drop of what an obsolete callback had captured. *)
(* So calls nest, and `calls` is the stack of them.  A main-loop source    *)
(* exists from its arming to its removal or to the end of its dispatch;    *)
(* removing one that is gone ends the program (glib's SourceId::remove).   *)
(***************************************************************************)
EXTENDS Naturals, Sequences

CONSTANTS
    MaxCalls, \* bound on the arms and invalidations of a behaviour
    MaxDepth  \* bound on the nesting of calls

ASSUME TimerAssumption == MaxCalls \in Nat /\ MaxDepth \in Nat

VARIABLES
    generation, \* GenerationGate
    scheduled,  \* the token of `scheduled`, as a set of at most one
    live,       \* tokens whose source exists
    calls,      \* the calls under way, the innermost last
    newest,     \* what the last arm, invalidation or dispatch was (observation)
    crashed     \* a source was removed that is gone

timerVars == <<generation, scheduled, live, calls, newest, crashed>>

\* Code outside this module runs: at the top, in a callback, or in a drop.
Innermost == calls[Len(calls)]
OutsideCode == calls # <<>> => Innermost.step = "Outside"
Return == calls' = SubSeq(calls, 1, Len(calls) - 1)

TimerInit ==
    /\ generation = 0 /\ scheduled = {} /\ live = {} /\ calls = <<>>
    /\ newest = "None" /\ crashed = FALSE

\* take_scheduled, then the generation, then remove_source, which drops the
\* captures of the source it removes while nothing of the timer is borrowed.
BeginCall(kind) ==
    /\ ~crashed /\ OutsideCode
    /\ generation < MaxCalls /\ Len(calls) < MaxDepth
    /\ generation' = generation + 1
    /\ scheduled' = {}
    /\ live' = live \ scheduled
    /\ crashed' = ~(scheduled \subseteq live)
    /\ calls' = Append(calls, [kind |-> kind, token |-> generation + 1,
                               step |-> IF scheduled = {} THEN "Rest" ELSE "Outside"])
    /\ newest' = kind

\* The captures are dropped.
Dropped ==
    /\ ~crashed /\ calls # <<>> /\ Innermost.step = "Outside" /\ Innermost.kind # "Fire"
    /\ calls' = [calls EXCEPT ![Len(calls)].step = "Rest"]
    /\ UNCHANGED <<generation, scheduled, live, newest, crashed>>

\* The generation is still the arm's: no call was made from a drop.
StillNewest(token) == generation = token

\* arm, after the removal
EndArm ==
    /\ calls # <<>> /\ Innermost.kind = "Arm" /\ Innermost.step = "Rest"
    /\ \/ /\ StillNewest(Innermost.token)
          /\ live' = live \cup {Innermost.token}
          /\ scheduled' = {Innermost.token}
       \/ /\ ~StillNewest(Innermost.token)
          /\ UNCHANGED <<live, scheduled>>
    /\ Return
    /\ UNCHANGED <<generation, newest, crashed>>

EndInvalidate ==
    /\ calls # <<>> /\ Innermost.kind = "Invalidate" /\ Innermost.step = "Rest"
    /\ Return
    /\ UNCHANGED <<generation, scheduled, live, newest, crashed>>

\* Mutation: a dispatched source stays scheduled.
Remembers(token) == scheduled
\* forget_if_current
Forgotten(token) == scheduled \ {token}

\* The source of `token` is dispatched: it is forgotten, and its callback runs
\* if the token is current and the target lives.  Either way its captures are
\* dropped, so code outside runs.
Fire(token) ==
    /\ ~crashed /\ calls = <<>> /\ token \in live
    /\ scheduled' = Forgotten(token)
    /\ calls' = <<[kind |-> "Fire", token |-> token, step |-> "Outside"]>>
    /\ newest' = IF token = generation THEN "Fire" ELSE newest
    /\ UNCHANGED <<generation, live, crashed>>

\* A one-shot source is gone when its dispatch ends.
EndFire ==
    /\ ~crashed /\ Len(calls) = 1 /\ Innermost.kind = "Fire"
    /\ live' = live \ {Innermost.token}
    /\ Return
    /\ UNCHANGED <<generation, scheduled, newest, crashed>>

TimerNext ==
    \/ BeginCall("Arm") \/ BeginCall("Invalidate")
    \/ Dropped \/ EndArm \/ EndInvalidate
    \/ \E token \in live : Fire(token)
    \/ EndFire

TimerSpec == TimerInit /\ [][TimerNext]_timerVars

-----------------------------------------------------------------------------
(* Properties *)

\* However calls nest, the newest wins: when none is under way, a source waits
\* exactly if the newest was an arm, it is that arm's, and a later call will
\* remove it; and no call ever removes a source that is gone (arm, invalidate).
NewestArmWins ==
    /\ ~crashed
    /\ calls = <<>> =>
          /\ live = scheduled
          /\ scheduled = IF newest = "Arm" THEN {generation} ELSE {}

-----------------------------------------------------------------------------
(* The inductive invariant behind NewestArmWins.                            *)

TimerCall == [kind : {"Arm", "Invalidate", "Fire"}, token : Nat,
              step : {"Outside", "Rest"}]

TimerTypeOK ==
    /\ generation \in Nat /\ scheduled \subseteq Nat /\ live \subseteq Nat
    /\ calls \in Seq(TimerCall) /\ crashed \in BOOLEAN
    /\ newest \in {"None", "Arm", "Invalidate", "Fire"}

\* A dispatch is the outermost of the calls, and each inner call is the newer.
CallsNest ==
    /\ \A i \in 1 .. Len(calls) :
           /\ calls[i].token <= generation
           /\ calls[i].kind = "Fire" => i = 1
    /\ \A i, j \in 1 .. Len(calls) : i < j => calls[i].token < calls[j].token

\* The source that is being dispatched.
Dispatched ==
    {calls[i].token : i \in {k \in 1 .. Len(calls) : calls[k].kind = "Fire"}}

\* The newest call or dispatch is still under way.
NewestUnderWay == calls # <<>> /\ Innermost.token = generation

\* What exists besides a source being dispatched is what is scheduled, and that
\* is what the newest call or dispatch leaves once it has ended.
NewestDecides ==
    /\ live = scheduled \cup Dispatched
    /\ scheduled \cap Dispatched = {}
    /\ IF NewestUnderWay THEN scheduled = {} /\ Innermost.kind = newest
       ELSE scheduled = IF newest = "Arm" THEN {generation} ELSE {}

TimerInv == TimerTypeOK /\ ~crashed /\ CallsNest /\ NewestDecides
==================================================================================
