------------------------------- MODULE TaskPool -------------------------------
(***************************************************************************)
(* The worker tasks of gtk-lush (spawn_blocking_then): a task runs on a    *)
(* thread of its own while it holds one of MaxWorkers slots, and waits in  *)
(* a queue of the main thread otherwise.  Its result goes to the           *)
(* completion lane, whose delivery source runs one callback per dispatch   *)
(* on the main loop.  The slot is held until the callback has returned; a  *)
(* worker that panics frees it on its own thread and asks the main loop to *)
(* drain the queue.                                                        *)
(*                                                                         *)
(* Each access to the slot counter and each section under the lane's lock  *)
(* is one step, on the main thread and on the workers alike.               *)
(***************************************************************************)
EXTENDS Naturals, Sequences, FiniteSets

CONSTANTS
    Task,       \* the tasks a program spawns
    NoTask,     \* not a task
    MaxWorkers, \* DEFAULT_MAX_CONCURRENT_SPAWNS
    RunLimit    \* COMPLETIONS_BEFORE_YIELD

ASSUME TaskAssumption == NoTask \notin Task
ASSUME PoolAssumption == MaxWorkers \in Nat \ {0} /\ RunLimit \in Nat \ {0}

VARIABLES
    thread,     \* where each task is
    slots,      \* ACTIVE_THREADS
    pending,    \* PENDING_TASKS
    lane,       \* the lane's queue: finished results
    armed,      \* the lane's flag
    sources,    \* delivery sources attached to the main loop
    yielding,   \* the two sources of a yield are attached
    drains,     \* idle calls of drain_pending_tasks
    streak,     \* results delivered since the last yield
    main        \* what the main thread is doing

tasks == <<thread, slots, pending>>
delivery == <<lane, armed, sources, yielding, streak>>
poolVars == <<tasks, delivery, drains, main>>

(***************************************************************************)
(* The main thread is in a turn of application code (step "Turn": the loop *)
(* itself, or the callback of the task it serves), or in one of the helper *)
(* functions with a task in hand.                                          *)
(***************************************************************************)
Steps == {"Turn", "Queue", "Drain", "Attempt", "After"}
In(step) == main.step = step
Idle == In("Turn") /\ main.serving = NoTask
GoTo(step, task) == main' = [main EXCEPT !.step = step, !.hand = task]

\* A drain ends where it began: in the loop, or at the end of a callback.
AfterDrain == GoTo(IF main.serving = NoTask THEN "Turn" ELSE "After", NoTask)

\* try_acquire_slot succeeds, and the task's thread starts.
Acquire(t) ==
    /\ slots < MaxWorkers
    /\ slots' = slots + 1
    /\ thread' = [thread EXCEPT ![t] = "Working"]

(***************************************************************************)
(* spawn_blocking_then, from the loop or from a callback.                  *)
(***************************************************************************)
Spawn(t) ==
    /\ In("Turn") /\ thread[t] = "New"
    /\ \/ Acquire(t) /\ UNCHANGED <<pending, main>>
       \/ /\ slots >= MaxWorkers
          /\ thread' = [thread EXCEPT ![t] = "Waiting"]
          /\ GoTo("Queue", t)
          /\ UNCHANGED <<slots, pending>>
    /\ UNCHANGED <<delivery, drains>>

\* The task that found no slot joins the queue; one may be free by now.
Enqueue ==
    /\ In("Queue")
    /\ pending' = Append(pending, main.hand)
    /\ GoTo("Turn", NoTask)
    /\ UNCHANGED <<thread, slots, delivery, drains>>

(***************************************************************************)
(* drain_pending_tasks.                                                    *)
(***************************************************************************)
DrainNext ==
    /\ In("Drain")
    /\ \/ pending = <<>> /\ AfterDrain /\ UNCHANGED pending
       \/ /\ pending # <<>>
          /\ GoTo("Attempt", Head(pending)) /\ pending' = Tail(pending)
    /\ UNCHANGED <<thread, slots, delivery, drains>>

DrainAttempt ==
    /\ In("Attempt")
    /\ \/ Acquire(main.hand) /\ GoTo("Drain", NoTask) /\ UNCHANGED pending
       \/ /\ slots >= MaxWorkers
          /\ pending' = <<main.hand>> \o pending
          /\ AfterDrain
          /\ UNCHANGED <<thread, slots>>
    /\ UNCHANGED <<delivery, drains>>

\* The idle call a panicked worker asked for.
DrainIdle ==
    /\ Idle /\ drains > 0
    /\ drains' = drains - 1
    /\ GoTo("Drain", NoTask)
    /\ UNCHANGED <<tasks, delivery>>

(***************************************************************************)
(* The worker's thread.                                                    *)
(***************************************************************************)
\* deliver: the result joins the lane, and the worker that finds the lane's
\* flag unset sets it in the same section and is the one to attach the source.
Deliver(t) ==
    /\ thread[t] = "Working"
    /\ lane' = Append(lane, t)
    /\ thread' = [thread EXCEPT ![t] = IF armed THEN "Finished" ELSE "Arming"]
    /\ armed' = TRUE
    /\ UNCHANGED <<slots, pending, sources, yielding, streak, drains, main>>

\* deliver, after the lock: the source is attached.
Attach(t) ==
    /\ thread[t] = "Arming"
    /\ thread' = [thread EXCEPT ![t] = "Finished"]
    /\ sources' = sources + 1
    /\ UNCHANGED <<slots, pending, lane, armed, yielding, streak, drains, main>>

\* Mutation: the slot of a worker that panicked is freed and nobody is told.
PanicsQuietly(t) ==
    /\ thread[t] = "Working"
    /\ thread' = [thread EXCEPT ![t] = "Ended"]
    /\ slots' = slots - 1
    /\ UNCHANGED <<pending, delivery, drains, main>>
\* The work panics: the guard is dropped on the worker's thread.
Panic(t) ==
    /\ thread[t] = "Working"
    /\ thread' = [thread EXCEPT ![t] = "Waking"]
    /\ slots' = slots - 1
    /\ UNCHANGED <<pending, delivery, drains, main>>

\* The second half of the drop: the main loop is asked to drain.
WakeQueue(t) ==
    /\ thread[t] = "Waking"
    /\ thread' = [thread EXCEPT ![t] = "Ended"]
    /\ drains' = drains + 1
    /\ UNCHANGED <<slots, pending, delivery, main>>

(***************************************************************************)
(* The delivery source.                                                    *)
(***************************************************************************)
\* The source takes the oldest result and runs its callback.
Dispatch ==
    /\ Idle /\ sources > 0
    /\ \/ /\ lane # <<>>
          /\ lane' = Tail(lane)
          /\ main' = [main EXCEPT !.serving = Head(lane)]
          /\ UNCHANGED <<armed, sources, streak>>
       \/ /\ lane = <<>>
          /\ armed' = FALSE /\ sources' = sources - 1 /\ streak' = 0
          /\ UNCHANGED <<lane, main>>
    /\ UNCHANGED <<tasks, yielding, drains>>

\* The callback returns: its guard is dropped on the main thread, which owns
\* the main context, so the queue is drained there and then.
EndCallback ==
    /\ In("Turn") /\ main.serving # NoTask
    /\ thread' = [thread EXCEPT ![main.serving] = "Ended"]
    /\ slots' = slots - 1
    /\ GoTo("Drain", NoTask)
    /\ UNCHANGED <<pending, delivery, drains>>

\* Mutation: a yield disarms the lane as a plain detach does.
DisarmsToo == armed' = FALSE
\* The lane stays armed while it yields, so no worker attaches a second source.
StaysArmed == armed' = armed

\* After the callback: stay attached, stop, or yield when the streak has aged,
\* which it may have by the clock at any time.
AfterCallback ==
    /\ In("After")
    /\ \/ /\ lane = <<>>
          /\ armed' = FALSE /\ sources' = sources - 1 /\ streak' = 0
          /\ UNCHANGED yielding
       \/ /\ lane # <<>>
          /\ StaysArmed
          /\ sources' = sources - 1 /\ yielding' = TRUE /\ streak' = 0
       \/ /\ lane # <<>> /\ streak + 1 < RunLimit
          /\ streak' = streak + 1
          /\ UNCHANGED <<armed, sources, yielding>>
    /\ main' = [main EXCEPT !.step = "Turn", !.serving = NoTask]
    /\ UNCHANGED <<tasks, lane, drains>>

\* The idle hop or the deadline, whichever runs first, removes the other.
ResumeAfterYield ==
    /\ Idle /\ yielding
    /\ yielding' = FALSE
    /\ sources' = sources + 1
    /\ UNCHANGED <<tasks, lane, armed, streak, drains, main>>

PoolInit ==
    /\ thread = [t \in Task |-> "New"]
    /\ slots = 0 /\ pending = <<>>
    /\ lane = <<>> /\ armed = FALSE /\ sources = 0 /\ yielding = FALSE /\ streak = 0
    /\ drains = 0
    /\ main = [step |-> "Turn", hand |-> NoTask, serving |-> NoTask]

MainStep == \/ \E t \in Task : Spawn(t)
            \/ Enqueue \/ DrainNext \/ DrainAttempt \/ DrainIdle
            \/ Dispatch \/ EndCallback \/ AfterCallback \/ ResumeAfterYield
WorkerStep == \E t \in Task : Deliver(t) \/ Attach(t) \/ Panic(t) \/ WakeQueue(t)
PoolNext == MainStep \/ WorkerStep
PoolSpec == PoolInit /\ [][PoolNext]_poolVars

(***************************************************************************)
(* Properties.                                                             *)
(***************************************************************************)
\* The tasks whose slot is held: by the thread, the queued result or the
\* callback.
Holders == {t \in Task : thread[t] \in {"Working", "Arming", "Finished"}}
\* The main loop is draining the queue, or is sure to.
DrainComes ==
    \/ main.step \in {"Drain", "Attempt"}
    \/ drains > 0
    \/ \E t \in Task : thread[t] = "Waking"

\* A task waits only while MaxWorkers others hold a slot each, or a drain is on its
\* way: a slot freed by a panic between a failed attempt and the push of the
\* task that made it leaves nobody behind (start_or_queue, drain_pending_tasks).
NoneStranded ==
    /\ Cardinality(Holders) <= MaxWorkers
    /\ pending # <<>> => Cardinality(Holders) = MaxWorkers \/ DrainComes

Arming == {t \in Task : thread[t] = "Arming"}
Carriers == sources + (IF yielding THEN 1 ELSE 0) + Cardinality(Arming)

\* A result in the lane is delivered by exactly one source: attached, about to
\* be attached by the worker that armed the lane, or coming back from a yield;
\* and a lane that is not armed has none (deliver, deliver_one_completion).
OneSource ==
    /\ Carriers = (IF armed THEN 1 ELSE 0)
    /\ lane # <<>> => armed

(***************************************************************************)
(* The inductive invariant behind both.                                    *)
(***************************************************************************)
States == {"New", "Waiting", "Working", "Arming", "Finished", "Waking", "Ended"}
MainState == [step : Steps, hand : Task \cup {NoTask}, serving : Task \cup {NoTask}]
PoolTypeOK ==
    /\ thread \in [Task -> States]
    /\ slots \in Nat /\ drains \in Nat /\ sources \in Nat /\ streak \in Nat
    /\ pending \in Seq(Task) /\ lane \in Seq(Task)
    /\ armed \in BOOLEAN /\ yielding \in BOOLEAN
    /\ main \in MainState

\* The counter counts the tasks that hold a slot.
SlotsCounted == IsFiniteSet(Holders) /\ slots = Cardinality(Holders) /\ slots <= MaxWorkers

\* A sequence holds a task once.
OnceEach(s) == \A i, j \in 1 .. Len(s) : s[i] = s[j] => i = j

\* What waits is queued once, or in the main thread's hand.
WaitersKnown ==
    /\ OnceEach(pending)
    /\ \A i \in 1 .. Len(pending) : thread[pending[i]] = "Waiting"
    /\ main.step \in {"Queue", "Attempt"} =>
          /\ main.hand \in Task /\ thread[main.hand] = "Waiting"
          /\ \A i \in 1 .. Len(pending) : pending[i] # main.hand

\* A result is in the lane once, or in its callback.
ResultsKnown ==
    /\ OnceEach(lane)
    /\ \A i \in 1 .. Len(lane) : thread[lane[i]] \in {"Arming", "Finished"}
    /\ main.step \in {"Turn", "Queue"} /\ main.serving # NoTask =>
          /\ thread[main.serving] = "Finished"
          /\ \A i \in 1 .. Len(lane) : lane[i] # main.serving

\* One source, by what carries it; a callback runs inside an attached one.
SourceKnown ==
    /\ \/ ~armed /\ sources = 0 /\ ~yielding /\ Arming = {}
       \/ armed /\ sources = 1 /\ ~yielding /\ Arming = {}
       \/ armed /\ sources = 0 /\ yielding /\ Arming = {}
       \/ armed /\ sources = 0 /\ ~yielding /\ \E t \in Task : Arming = {t}
    /\ lane # <<>> => armed
    /\ main.serving # NoTask => sources = 1
    /\ main.step = "After" => main.serving # NoTask

\* NoneStranded, for the task still in the hand of start_or_queue too.
WaitersServed ==
    pending # <<>> \/ main.step = "Queue" => slots = MaxWorkers \/ DrainComes

PoolInv == /\ PoolTypeOK /\ SlotsCounted /\ WaitersKnown /\ ResultsKnown
           /\ SourceKnown /\ WaitersServed
=============================================================================
