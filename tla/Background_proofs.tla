--------------------------- MODULE Background_proofs ---------------------------
(***************************************************************************)
(* Theorems about the work behind the window.  TaskPool, for any tasks,    *)
(* any number of slots and any run limit: no waiting task is stranded, and *)
(* results have exactly one source while the lane is armed.                *)
(* SettingsWriter, for any keys and values: every value that readers see   *)
(* and the backend lacks is pending, and its flush is on its way, unless   *)
(* the writer has misread the key.  Settle, for any number of calls,       *)
(* nested to any depth: the newest arm, invalidation or dispatch decides   *)
(* which source waits, and no source is removed that is gone.              *)
(***************************************************************************)
EXTENDS TaskPool, SettingsWriter, Settle, FiniteSetTheorems, SequenceTheorems, TLAPS

-----------------------------------------------------------------------------
(* The pool *)

\* The initial states satisfy the inductive invariant.
LEMMA InitPoolInv == PoolInit => PoolInv
<1> SUFFICES ASSUME PoolInit PROVE PoolInv
  OBVIOUS
<1> USE DEF PoolInit
<1>1. PoolTypeOK
  <2>1. thread \in [Task -> States]
    BY DEF States
  <2>2. <<>> \in Seq(Task)
    OBVIOUS
  <2>3. main \in MainState
    BY DEF MainState, Steps
  <2> QED BY <2>1, <2>2, <2>3 DEF PoolTypeOK
<1>2. Holders = {} /\ Arming = {}
  BY DEF Holders, Arming
<1>3. SlotsCounted
  BY <1>2, FS_EmptySet, PoolAssumption DEF SlotsCounted
<1>4. WaitersKnown /\ ResultsKnown
  BY DEF WaitersKnown, ResultsKnown, OnceEach
<1>5. SourceKnown /\ WaitersServed
  BY <1>2 DEF SourceKnown, WaitersServed
<1> QED BY <1>1, <1>3, <1>4, <1>5 DEF PoolInv

\* A task that starts holds one slot more.
LEMMA AcquireCounts ==
    ASSUME PoolTypeOK, SlotsCounted, NEW t \in Task,
           thread[t] \in {"New", "Waiting"}, Acquire(t)
    PROVE  SlotsCounted'
<1>1. Holders' = Holders \cup {t} /\ t \notin Holders
  BY DEF Holders, Acquire, PoolTypeOK
<1>2. IsFiniteSet(Holders') /\ Cardinality(Holders') = Cardinality(Holders) + 1
  BY <1>1, FS_AddElement DEF SlotsCounted
<1> QED BY <1>2, PoolAssumption DEF SlotsCounted, Acquire, PoolTypeOK

\* A task that gives its slot up holds one less, and there was one to give.
LEMMA ReleaseCounts ==
    ASSUME PoolTypeOK, SlotsCounted, NEW t \in Task, NEW next \in {"Waking", "Ended"},
           thread[t] \in {"Working", "Finished"},
           thread' = [thread EXCEPT ![t] = next], slots' = slots - 1
    PROVE  SlotsCounted' /\ slots' \in Nat
<1>1. Holders' = Holders \ {t} /\ t \in Holders
  BY DEF Holders, PoolTypeOK
<1>2. IsFiniteSet(Holders') /\ Cardinality(Holders') = Cardinality(Holders) - 1
  BY <1>1, FS_RemoveElement DEF SlotsCounted
<1>3. Cardinality(Holders') \in Nat
  BY <1>2, FS_CardinalityType
<1> QED BY <1>2, <1>3, PoolAssumption DEF SlotsCounted, PoolTypeOK

\* Nothing else changes who holds a slot.
LEMMA HoldingCounts ==
    ASSUME SlotsCounted, Holders' = Holders, slots' = slots
    PROVE  SlotsCounted'
BY DEF SlotsCounted

\* What a step leaves in a queue when it adds, takes or puts back a task.
LEMMA QueueKept ==
    ASSUME NEW s \in Seq(Task), OnceEach(s)
    PROVE  /\ \A t \in Task : (\A i \in 1 .. Len(s) : s[i] # t) =>
                  /\ OnceEach(Append(s, t)) /\ OnceEach(<<t>> \o s)
                  /\ Append(s, t) \in Seq(Task) /\ <<t>> \o s \in Seq(Task)
           /\ s # <<>> => /\ OnceEach(Tail(s)) /\ Tail(s) \in Seq(Task) /\ Head(s) \in Task
                          /\ Head(s) = s[1] /\ 1 \in 1 .. Len(s)
                          /\ \A i \in 1 .. Len(Tail(s)) :
                                /\ i + 1 \in 1 .. Len(s) /\ Tail(s)[i] = s[i + 1]
                                /\ Tail(s)[i] # Head(s)
<1>1. ASSUME NEW t \in Task, \A i \in 1 .. Len(s) : s[i] # t
      PROVE  /\ OnceEach(Append(s, t)) /\ OnceEach(<<t>> \o s)
             /\ Append(s, t) \in Seq(Task) /\ <<t>> \o s \in Seq(Task)
  <2>1. OnceEach(Append(s, t)) /\ Append(s, t) \in Seq(Task)
    BY <1>1 DEF OnceEach
  <2>2. /\ <<t>> \o s \in Seq(Task) /\ Len(<<t>> \o s) = Len(s) + 1
        /\ \A i \in 1 .. Len(s) + 1 : (<<t>> \o s)[i] = IF i = 1 THEN t ELSE s[i - 1]
    OBVIOUS
  <2>3. OnceEach(<<t>> \o s)
    BY <1>1, <2>2 DEF OnceEach
  <2> QED BY <2>1, <2>2, <2>3
<1>2. ASSUME s # <<>>
      PROVE  /\ Tail(s) \in Seq(Task) /\ Head(s) \in Task
             /\ Head(s) = s[1] /\ 1 \in 1 .. Len(s)
             /\ Len(Tail(s)) = Len(s) - 1
             /\ \A i \in 1 .. Len(Tail(s)) : i + 1 \in 1 .. Len(s) /\ Tail(s)[i] = s[i + 1]
  BY <1>2
<1>3. ASSUME s # <<>>
      PROVE  OnceEach(Tail(s)) /\ \A i \in 1 .. Len(Tail(s)) : Tail(s)[i] # Head(s)
  BY <1>2, <1>3 DEF OnceEach
<1> QED BY <1>1, <1>2, <1>3

(***************************************************************************)
(* Each part of the invariant is kept by every step.                       *)
(***************************************************************************)
\* The main thread's record stays one when it goes to a step with a task.
LEMMA GoToTyped ==
    ASSUME main \in MainState, NEW step \in Steps, NEW task \in Task \cup {NoTask},
           GoTo(step, task)
    PROVE  /\ main' \in MainState
           /\ main'.step = step /\ main'.hand = task /\ main'.serving = main.serving
BY DEF MainState, GoTo

\* A drain returns to where it began.
LEMMA AfterDrainTyped ==
    ASSUME main \in MainState, AfterDrain
    PROVE  /\ main' \in MainState
           /\ main'.step \in {"Turn", "After"} /\ main'.serving = main.serving
           /\ main'.step = "After" => main.serving # NoTask
<1>1. CASE main.serving = NoTask
  <2>1. GoTo("Turn", NoTask)
    BY <1>1 DEF AfterDrain
  <2>2. "Turn" \in Steps
    BY DEF Steps
  <2> QED BY <1>1, <2>1, <2>2, GoToTyped
<1>2. CASE main.serving # NoTask
  <2>1. GoTo("After", NoTask)
    BY <1>2 DEF AfterDrain
  <2>2. "After" \in Steps
    BY DEF Steps
  <2> QED BY <1>2, <2>1, <2>2, GoToTyped
<1> QED BY <1>1, <1>2

\* Every step keeps the types, the main thread's record among them.
LEMMA TypeStep == PoolInv /\ PoolNext => PoolTypeOK'
<1> SUFFICES ASSUME PoolInv, PoolNext PROVE PoolTypeOK'
  OBVIOUS
<1> USE DEF PoolInv, PoolTypeOK, In, tasks, delivery
<1>0. /\ Steps = {"Turn", "Queue", "Drain", "Attempt", "After"}
      /\ NoTask \in Task \cup {NoTask}
  BY DEF Steps
<1>1. ASSUME NEW t \in Task, Spawn(t) PROVE PoolTypeOK'
  <2>1. CASE Acquire(t) /\ UNCHANGED <<pending, main>>
    BY <1>1, <2>1 DEF Spawn, Acquire, States
  <2>2. CASE /\ thread' = [thread EXCEPT ![t] = "Waiting"] /\ GoTo("Queue", t)
             /\ UNCHANGED <<slots, pending>>
    <3>1. main' \in MainState
      BY <1>0, <2>2, GoToTyped
    <3> QED BY <1>1, <2>2, <3>1 DEF Spawn, States
  <2> QED BY <1>1, <2>1, <2>2 DEF Spawn
<1>2. CASE Enqueue
  <2>1. main.hand \in Task
    BY <1>2 DEF Enqueue, WaitersKnown
  <2>2. main' \in MainState
    BY <1>0, <1>2, GoToTyped DEF Enqueue
  <2> QED BY <1>2, <2>1, <2>2 DEF Enqueue
<1>3. CASE DrainNext
  <2>1. CASE pending = <<>>
    <3>1. main' \in MainState
      BY <1>3, <2>1, AfterDrainTyped DEF DrainNext
    <3> QED BY <1>3, <2>1, <3>1 DEF DrainNext
  <2>2. CASE pending # <<>>
    <3>1. Tail(pending) \in Seq(Task) /\ Head(pending) \in Task
      BY <2>2
    <3>2. main' \in MainState
      BY <1>0, <1>3, <2>2, <3>1, GoToTyped DEF DrainNext
    <3> QED BY <1>3, <2>2, <3>1, <3>2 DEF DrainNext
  <2> QED BY <2>1, <2>2
<1>4. CASE DrainAttempt
  <2>1. main.hand \in Task
    BY <1>4 DEF DrainAttempt, WaitersKnown
  <2>2. CASE Acquire(main.hand) /\ GoTo("Drain", NoTask) /\ UNCHANGED pending
    <3>1. main' \in MainState
      BY <1>0, <2>2, GoToTyped
    <3> QED BY <1>4, <2>1, <2>2, <3>1 DEF DrainAttempt, Acquire, States
  <2>3. CASE pending' = <<main.hand>> \o pending /\ AfterDrain /\ UNCHANGED <<thread, slots>>
    <3>1. main' \in MainState
      BY <2>3, AfterDrainTyped
    <3>2. <<main.hand>> \o pending \in Seq(Task)
      BY <2>1
    <3> QED BY <1>4, <2>3, <3>1, <3>2 DEF DrainAttempt
  <2> QED BY <1>4, <2>2, <2>3 DEF DrainAttempt
<1>5. CASE DrainIdle
  <2>1. main' \in MainState
    BY <1>0, <1>5, GoToTyped DEF DrainIdle
  <2> QED BY <1>5, <2>1 DEF DrainIdle
<1>6. CASE Dispatch
  <2>1. CASE lane = <<>>
    <3>1. /\ sources > 0 /\ armed' = FALSE /\ sources' = sources - 1 /\ streak' = 0
          /\ UNCHANGED <<thread, slots, pending, lane, main, yielding, drains>>
      BY <1>6, <2>1 DEF Dispatch
    <3>2. sources' \in Nat
      BY <3>1
    <3> QED BY <3>1, <3>2
  <2>2. CASE lane # <<>>
    <3>1. Tail(lane) \in Seq(Task) /\ Head(lane) \in Task
      BY <2>2
    <3>2. main' = [main EXCEPT !.serving = Head(lane)]
      BY <1>6, <2>2 DEF Dispatch
    <3>3. main' \in MainState
      BY <3>1, <3>2 DEF MainState
    <3>4. lane' = Tail(lane) /\ UNCHANGED <<thread, slots, pending, armed, sources, streak, yielding, drains>>
      BY <1>6, <2>2 DEF Dispatch
    <3> QED BY <3>1, <3>3, <3>4
  <2> QED BY <2>1, <2>2
<1>7. CASE EndCallback
  <2>1. main.serving \in Task /\ thread[main.serving] = "Finished"
    BY <1>7 DEF EndCallback, ResultsKnown, MainState
  <2>2. slots' \in Nat
    BY <1>7, <2>1, ReleaseCounts DEF EndCallback
  <2>3. main' \in MainState
    BY <1>0, <1>7, GoToTyped DEF EndCallback
  <2> QED BY <1>7, <2>2, <2>3 DEF EndCallback, States
<1>8. CASE AfterCallback
  <2>1. sources = 1
    BY <1>8 DEF AfterCallback, SourceKnown
  <2>2. main' \in MainState
    BY <1>0, <1>8 DEF AfterCallback, MainState
  <2>3. sources' \in Nat /\ streak' \in Nat
    <3>1. sources' \in {sources, sources - 1} /\ streak' \in {0, streak + 1}
      BY <1>8 DEF AfterCallback
    <3> QED BY <2>1, <3>1
  <2>5. armed' \in BOOLEAN /\ yielding' \in BOOLEAN
    BY <1>8, Zenon DEF AfterCallback, StaysArmed
  <2>4. UNCHANGED <<thread, slots, pending, lane, drains>>
    BY <1>8 DEF AfterCallback
  <2> QED BY <2>2, <2>3, <2>4, <2>5
<1>9. CASE ResumeAfterYield
  <2>1. sources' \in Nat
    BY <1>9 DEF ResumeAfterYield
  <2>2. yielding' \in BOOLEAN /\ UNCHANGED <<thread, slots, pending, lane, armed, streak, drains, main>>
    BY <1>9, Zenon DEF ResumeAfterYield
  <2> QED BY <2>1, <2>2
<1>10. ASSUME NEW t \in Task, Deliver(t) PROVE PoolTypeOK'
  <2>1. thread' \in [Task -> States]
    BY <1>10 DEF Deliver, States
  <2>2. lane' \in Seq(Task)
    BY <1>10 DEF Deliver
  <2>3. armed' = TRUE /\ UNCHANGED <<slots, pending, sources, yielding, streak, drains, main>>
    BY <1>10 DEF Deliver
  <2> QED BY <2>1, <2>2, <2>3
<1>11. ASSUME NEW t \in Task, Attach(t) PROVE PoolTypeOK'
  BY <1>11 DEF Attach, States
<1>12. ASSUME NEW t \in Task, Panic(t) PROVE PoolTypeOK'
  <2>1. slots' \in Nat
    BY <1>12, ReleaseCounts DEF Panic
  <2>2. thread' \in [Task -> States]
    BY <1>12 DEF Panic, States
  <2> QED BY <1>12, <2>1, <2>2 DEF Panic
<1>13. ASSUME NEW t \in Task, WakeQueue(t) PROVE PoolTypeOK'
  <2>1. thread' \in [Task -> States]
    BY <1>13 DEF WakeQueue, States
  <2> QED BY <1>13, <2>1 DEF WakeQueue
<1> QED BY <1>1, <1>2, <1>3, <1>4, <1>5, <1>6, <1>7, <1>8, <1>9, <1>10, <1>11, <1>12, <1>13
        DEF PoolNext, MainStep, WorkerStep

\* Every step keeps the slot counter equal to the tasks that hold a slot.
LEMMA SlotsStep == PoolInv /\ PoolNext => SlotsCounted'
<1> SUFFICES ASSUME PoolInv, PoolNext PROVE SlotsCounted'
  OBVIOUS
<1> USE DEF PoolInv, GoTo, In, tasks, delivery
<1>1. ASSUME NEW t \in Task, Spawn(t) PROVE SlotsCounted'
  <2>1. CASE Acquire(t)
    BY <1>1, <2>1, AcquireCounts DEF Spawn
  <2>2. CASE thread' = [thread EXCEPT ![t] = "Waiting"] /\ slots' = slots
    <3>1. Holders' = Holders
      BY <1>1, <2>2 DEF Spawn, Holders, PoolTypeOK
    <3> QED BY <2>2, <3>1, HoldingCounts
  <2> QED BY <1>1, <2>1, <2>2 DEF Spawn
<1>2. CASE UNCHANGED <<thread, slots>>
  BY <1>2, HoldingCounts DEF Holders
<1>3. CASE DrainAttempt
  <2>1. main.hand \in Task /\ thread[main.hand] = "Waiting"
    BY <1>3 DEF DrainAttempt, WaitersKnown
  <2>2. CASE Acquire(main.hand)
    BY <2>1, <2>2, AcquireCounts
  <2> QED BY <1>2, <1>3, <2>2 DEF DrainAttempt, AfterDrain
<1>4. CASE EndCallback
  <2>1. main.serving \in Task /\ thread[main.serving] = "Finished"
    BY <1>4 DEF EndCallback, ResultsKnown, PoolTypeOK, MainState
  <2> QED BY <1>4, <2>1, ReleaseCounts DEF EndCallback
<1>5. ASSUME NEW t \in Task, Deliver(t) \/ Attach(t) \/ WakeQueue(t) PROVE SlotsCounted'
  <2>1. Holders' = Holders
    BY <1>5 DEF Deliver, Attach, WakeQueue, Holders, PoolTypeOK
  <2> QED BY <1>5, <2>1, HoldingCounts DEF Deliver, Attach, WakeQueue
<1>6. ASSUME NEW t \in Task, Panic(t) PROVE SlotsCounted'
  BY <1>6, ReleaseCounts DEF Panic
<1>7. Enqueue \/ DrainNext \/ DrainIdle \/ Dispatch \/ AfterCallback \/ ResumeAfterYield
      => UNCHANGED <<thread, slots>>
  BY DEF Enqueue, DrainNext, DrainIdle, Dispatch, AfterCallback, ResumeAfterYield
<1> QED BY <1>1, <1>2, <1>3, <1>4, <1>5, <1>6, <1>7 DEF PoolNext, MainStep, WorkerStep

\* Every step keeps a waiting task once in the queue or in the main thread's hand.
LEMMA WaitersStep == PoolInv /\ PoolNext => WaitersKnown'
<1> SUFFICES ASSUME PoolInv, PoolNext PROVE WaitersKnown'
  OBVIOUS
<1> USE DEF PoolInv, PoolTypeOK, In, tasks, delivery
<1>0. /\ Steps = {"Turn", "Queue", "Drain", "Attempt", "After"}
      /\ NoTask \in Task \cup {NoTask}
  BY DEF Steps
<1>1. ASSUME NEW t \in Task, Spawn(t) PROVE WaitersKnown'
  <2>1. /\ thread[t] = "New" /\ main.step = "Turn" /\ pending' = pending
        /\ \A u \in Task : u # t => thread'[u] = thread[u]
        /\ \A i \in 1 .. Len(pending) : pending[i] \in Task /\ pending[i] # t
    BY <1>1 DEF Spawn, Acquire, WaitersKnown
  <2>2. CASE Acquire(t) /\ UNCHANGED main
    BY <2>1, <2>2 DEF WaitersKnown
  <2>3. CASE thread' = [thread EXCEPT ![t] = "Waiting"] /\ GoTo("Queue", t)
    <3>1. main'.hand = t
      BY <1>0, <2>3, GoToTyped
    <3> QED BY <2>1, <2>3, <3>1 DEF WaitersKnown
  <2> QED BY <1>1, <2>2, <2>3 DEF Spawn
<1>2. CASE Enqueue
  <2>1. /\ main.hand \in Task /\ thread[main.hand] = "Waiting"
        /\ \A i \in 1 .. Len(pending) : pending[i] # main.hand
    BY <1>2 DEF Enqueue, WaitersKnown
  <2>2. main'.step = "Turn"
    BY <1>0, <1>2, GoToTyped DEF Enqueue
  <2>3. OnceEach(Append(pending, main.hand))
    BY <2>1, QueueKept DEF WaitersKnown
  <2>4. \A i \in 1 .. Len(Append(pending, main.hand)) :
           thread[Append(pending, main.hand)[i]] = "Waiting"
    BY <2>1 DEF WaitersKnown
  <2> QED BY <1>2, <2>2, <2>3, <2>4 DEF Enqueue, WaitersKnown
<1>3. CASE DrainNext
  <2>1. CASE pending = <<>>
    BY <1>3, <2>1, AfterDrainTyped DEF DrainNext, WaitersKnown
  <2>2. CASE pending # <<>>
    <3>1. /\ main'.step = "Attempt" /\ main'.hand = Head(pending)
          /\ pending' = Tail(pending) /\ UNCHANGED thread
      <4>1. Head(pending) \in Task
        BY <2>2
      <4> QED BY <1>0, <1>3, <2>2, <4>1, GoToTyped DEF DrainNext
    <3> QED BY <2>2, <3>1, QueueKept DEF WaitersKnown
  <2> QED BY <2>1, <2>2
<1>4. CASE DrainAttempt
  <2>1. /\ main.hand \in Task /\ thread[main.hand] = "Waiting"
        /\ \A i \in 1 .. Len(pending) : pending[i] # main.hand
    BY <1>4 DEF DrainAttempt, WaitersKnown
  <2>2. CASE Acquire(main.hand) /\ GoTo("Drain", NoTask) /\ UNCHANGED pending
    <3>1. main'.step = "Drain"
      BY <1>0, <2>2, GoToTyped
    <3>2. /\ \A u \in Task : u # main.hand => thread'[u] = thread[u]
          /\ \A i \in 1 .. Len(pending) : pending[i] \in Task
      BY <2>2 DEF Acquire
    <3> QED BY <2>1, <2>2, <3>1, <3>2 DEF WaitersKnown
  <2>3. CASE pending' = <<main.hand>> \o pending /\ AfterDrain /\ UNCHANGED <<thread, slots>>
    <3>1. main'.step \notin {"Queue", "Attempt"}
      BY <2>3, AfterDrainTyped
    <3>2. OnceEach(pending')
      BY <2>1, <2>3, QueueKept DEF WaitersKnown
    <3>3. /\ Len(pending') = Len(pending) + 1
          /\ \A i \in 1 .. Len(pending') :
                pending'[i] = IF i = 1 THEN main.hand ELSE pending[i - 1]
      BY <2>1, <2>3
    <3> QED BY <2>1, <2>3, <3>1, <3>2, <3>3 DEF WaitersKnown
  <2> QED BY <1>4, <2>2, <2>3 DEF DrainAttempt
<1>5. CASE DrainIdle \/ EndCallback
  <2>1. main'.step = "Drain"
    BY <1>0, <1>5, GoToTyped DEF DrainIdle, EndCallback
  <2>2. CASE DrainIdle
    BY <2>1, <2>2 DEF DrainIdle, WaitersKnown
  <2>3. CASE EndCallback
    <3>1. main.serving \in Task /\ thread[main.serving] = "Finished"
      BY <2>3 DEF EndCallback, ResultsKnown, MainState
    <3>2. /\ \A u \in Task : u # main.serving => thread'[u] = thread[u]
          /\ \A i \in 1 .. Len(pending) : pending[i] \in Task
      BY <2>3 DEF EndCallback
    <3> QED BY <2>1, <2>3, <3>1, <3>2 DEF EndCallback, WaitersKnown
  <2> QED BY <1>5, <2>2, <2>3
<1>6. CASE Dispatch \/ AfterCallback
  <2>1. main'.step = "Turn" /\ UNCHANGED <<thread, pending>>
    BY <1>6 DEF Dispatch, AfterCallback, Idle, MainState
  <2> QED BY <2>1 DEF WaitersKnown
<1>7. CASE ResumeAfterYield
  BY <1>7 DEF ResumeAfterYield, WaitersKnown
<1>8. ASSUME NEW t \in Task, Deliver(t) \/ Attach(t) \/ Panic(t) \/ WakeQueue(t)
      PROVE  WaitersKnown'
  <2>1. /\ thread[t] # "Waiting" /\ UNCHANGED <<pending, main>>
        /\ \A u \in Task : u # t => thread'[u] = thread[u]
    BY <1>8 DEF Deliver, Attach, Panic, WakeQueue
  <2>2. \A i \in 1 .. Len(pending) : pending[i] \in Task
    OBVIOUS
  <2> QED BY <2>1, <2>2 DEF WaitersKnown
<1> QED BY <1>1, <1>2, <1>3, <1>4, <1>5, <1>6, <1>7, <1>8 DEF PoolNext, MainStep, WorkerStep

\* Every step keeps a finished result once in the lane or in its callback.
LEMMA ResultsStep == PoolInv /\ PoolNext => ResultsKnown'
<1> SUFFICES ASSUME PoolInv, PoolNext PROVE ResultsKnown'
  OBVIOUS
<1> USE DEF PoolInv, PoolTypeOK, In, tasks, delivery
<1>0. /\ Steps = {"Turn", "Queue", "Drain", "Attempt", "After"}
      /\ NoTask \in Task \cup {NoTask}
      /\ \A i \in 1 .. Len(lane) : lane[i] \in Task
  BY DEF Steps
<1>1. ASSUME NEW t \in Task, thread[t] \in {"New", "Waiting", "Working", "Waking"},
             \A u \in Task : u # t => thread'[u] = thread[u],
             lane' = lane, main'.serving = main.serving,
             main'.step \in {"Turn", "Queue"} => main.step \in {"Turn", "Queue"}
                                               \/ main.serving = NoTask
      PROVE  ResultsKnown'
  <2>1. main.serving \in Task \cup {NoTask}
    BY DEF MainState
  <2> QED BY <1>0, <1>1, <2>1 DEF ResultsKnown
<1>2. ASSUME UNCHANGED <<thread, lane>>, main'.serving = main.serving,
             main'.step \in {"Turn", "Queue"} => main.step \in {"Turn", "Queue"}
                                               \/ main.serving = NoTask
      PROVE  ResultsKnown'
  BY <1>2 DEF ResultsKnown
<1>3. ASSUME NEW t \in Task, Spawn(t) PROVE ResultsKnown'
  <2>1. /\ thread[t] = "New" /\ main.step = "Turn" /\ lane' = lane
        /\ \A u \in Task : u # t => thread'[u] = thread[u]
    BY <1>3 DEF Spawn, Acquire
  <2>2. main'.serving = main.serving
    BY <1>0, <1>3, GoToTyped DEF Spawn
  <2> QED BY <1>1, <2>1, <2>2
<1>4. CASE Enqueue \/ DrainIdle
  <2>1. main'.serving = main.serving
    BY <1>0, <1>4, GoToTyped DEF Enqueue, DrainIdle
  <2> QED BY <1>2, <1>4, <2>1 DEF Enqueue, DrainIdle, Idle
<1>5. CASE DrainNext
  <2>1. CASE pending = <<>>
    <3>1. AfterDrain /\ UNCHANGED <<thread, lane>>
      BY <1>5, <2>1 DEF DrainNext
    <3>2. main'.serving = main.serving /\ (main'.step = "Turn" => main.serving = NoTask)
      BY <1>0, <3>1, GoToTyped DEF AfterDrain
    <3> QED BY <1>2, <3>1, <3>2, AfterDrainTyped
  <2>2. CASE pending # <<>>
    <3>1. Head(pending) \in Task
      BY <2>2
    <3>2. main'.serving = main.serving /\ main'.step = "Attempt" /\ UNCHANGED <<thread, lane>>
      BY <1>0, <1>5, <2>2, <3>1, GoToTyped DEF DrainNext
    <3> QED BY <1>2, <3>2
  <2> QED BY <2>1, <2>2
<1>6. CASE DrainAttempt
  <2>1. main.hand \in Task /\ thread[main.hand] = "Waiting" /\ lane' = lane
    BY <1>6 DEF DrainAttempt, WaitersKnown
  <2>2. CASE Acquire(main.hand) /\ GoTo("Drain", NoTask)
    <3>1. main'.serving = main.serving /\ main'.step = "Drain"
      BY <1>0, <2>2, GoToTyped
    <3>2. \A u \in Task : u # main.hand => thread'[u] = thread[u]
      BY <2>2 DEF Acquire
    <3> QED BY <1>1, <2>1, <3>1, <3>2
  <2>3. CASE AfterDrain /\ UNCHANGED <<thread, slots>>
    <3>1. main'.serving = main.serving /\ (main'.step = "Turn" => main.serving = NoTask)
      BY <1>0, <2>3, GoToTyped DEF AfterDrain
    <3> QED BY <1>2, <2>1, <2>3, <3>1, AfterDrainTyped
  <2> QED BY <1>6, <2>2, <2>3 DEF DrainAttempt
<1>7. CASE Dispatch
  <2>1. CASE lane = <<>>
    BY <1>2, <1>7, <2>1 DEF Dispatch
  <2>2. CASE lane # <<>>
    <3>1. /\ main'.serving = Head(lane) /\ lane' = Tail(lane) /\ thread' = thread
      BY <1>7, <2>2 DEF Dispatch, MainState
    <3>2. sources > 0
      BY <1>7 DEF Dispatch
    <3>3. Arming = {}
      BY <3>2 DEF SourceKnown
    <3>4. thread[Head(lane)] = "Finished"
      BY <1>0, <2>2, <3>3, QueueKept DEF ResultsKnown, Arming
    <3> QED BY <2>2, <3>1, <3>4, QueueKept DEF ResultsKnown
  <2> QED BY <2>1, <2>2
<1>8. CASE EndCallback
  <2>1. /\ main.serving \in Task /\ \A i \in 1 .. Len(lane) : lane[i] # main.serving
        /\ \A u \in Task : u # main.serving => thread'[u] = thread[u]
        /\ lane' = lane
    BY <1>8 DEF EndCallback, ResultsKnown, MainState
  <2>2. main'.step = "Drain"
    BY <1>0, <1>8, GoToTyped DEF EndCallback
  <2> QED BY <1>0, <2>1, <2>2 DEF ResultsKnown
<1>9. CASE AfterCallback
  <2>1. main'.serving = NoTask /\ UNCHANGED <<thread, lane>>
    BY <1>9 DEF AfterCallback, MainState
  <2> QED BY <2>1 DEF ResultsKnown
<1>10. CASE ResumeAfterYield
  BY <1>2, <1>10 DEF ResumeAfterYield
<1>11. ASSUME NEW t \in Task, Deliver(t) PROVE ResultsKnown'
  <2>1. /\ thread[t] = "Working" /\ lane' = Append(lane, t) /\ main' = main
        /\ thread'[t] \in {"Arming", "Finished"}
        /\ \A u \in Task : u # t => thread'[u] = thread[u]
    BY <1>11 DEF Deliver
  <2>2. \A i \in 1 .. Len(lane) : lane[i] # t
    BY <2>1 DEF ResultsKnown
  <2>3. OnceEach(lane')
    BY <2>1, <2>2, QueueKept DEF ResultsKnown
  <2>4. /\ Len(lane') = Len(lane) + 1
        /\ \A i \in 1 .. Len(lane') : lane'[i] = IF i = Len(lane) + 1 THEN t ELSE lane[i]
    BY <2>1
  <2>5. main.serving \in Task \cup {NoTask}
    BY DEF MainState
  <2> QED BY <1>0, <2>1, <2>3, <2>4, <2>5 DEF ResultsKnown
<1>12. ASSUME NEW t \in Task, Attach(t) PROVE ResultsKnown'
  <2>1. /\ thread'[t] = "Finished" /\ lane' = lane /\ main' = main
        /\ \A u \in Task : u # t => thread'[u] = thread[u]
    BY <1>12 DEF Attach
  <2>2. main.serving \in Task \cup {NoTask}
    BY DEF MainState
  <2> QED BY <1>0, <2>1, <2>2 DEF ResultsKnown
<1>13. ASSUME NEW t \in Task, Panic(t) \/ WakeQueue(t) PROVE ResultsKnown'
  BY <1>1, <1>13 DEF Panic, WakeQueue
<1> QED BY <1>3, <1>4, <1>5, <1>6, <1>7, <1>8, <1>9, <1>10, <1>11, <1>12, <1>13
        DEF PoolNext, MainStep, WorkerStep

\* Every step keeps one carrier of an armed lane's source and none of another's.
LEMMA SourceStep == PoolInv /\ PoolNext => SourceKnown'
<1> SUFFICES ASSUME PoolInv, PoolNext PROVE SourceKnown'
  OBVIOUS
<1> USE DEF PoolInv, PoolTypeOK, In, tasks, delivery
<1>0. /\ Steps = {"Turn", "Queue", "Drain", "Attempt", "After"}
      /\ NoTask \in Task \cup {NoTask}
  BY DEF Steps
<1>1. ASSUME UNCHANGED delivery, Arming' = Arming, main'.serving = main.serving,
             main'.step = "After" => main.serving # NoTask
      PROVE  SourceKnown'
  BY <1>1 DEF SourceKnown
<1>2. ASSUME NEW t \in Task, thread[t] # "Arming", thread'[t] # "Arming",
             \A u \in Task : u # t => thread'[u] = thread[u]
      PROVE  Arming' = Arming
  BY <1>2 DEF Arming
<1>3. ASSUME NEW t \in Task, Spawn(t) PROVE SourceKnown'
  <2>1. Arming' = Arming
    BY <1>2, <1>3 DEF Spawn, Acquire
  <2>2. main'.serving = main.serving /\ main'.step # "After"
    BY <1>0, <1>3, GoToTyped DEF Spawn
  <2> QED BY <1>1, <1>3, <2>1, <2>2 DEF Spawn
<1>4. CASE Enqueue \/ DrainIdle
  <2>1. main'.serving = main.serving /\ main'.step # "After"
    BY <1>0, <1>4, GoToTyped DEF Enqueue, DrainIdle
  <2> QED BY <1>1, <1>4, <2>1 DEF Enqueue, DrainIdle, Arming
<1>5. CASE DrainNext
  <2>1. UNCHANGED delivery /\ Arming' = Arming
    BY <1>5 DEF DrainNext, Arming
  <2>2. CASE AfterDrain
    BY <1>1, <2>1, <2>2, AfterDrainTyped
  <2>3. CASE pending # <<>> /\ GoTo("Attempt", Head(pending))
    <3>1. Head(pending) \in Task
      BY <2>3
    <3> QED BY <1>0, <1>1, <2>1, <2>3, <3>1, GoToTyped
  <2> QED BY <1>5, <2>2, <2>3 DEF DrainNext
<1>6. CASE DrainAttempt
  <2>1. main.hand \in Task /\ thread[main.hand] = "Waiting" /\ UNCHANGED delivery
    BY <1>6 DEF DrainAttempt, WaitersKnown
  <2>2. CASE Acquire(main.hand) /\ GoTo("Drain", NoTask)
    <3>1. main'.serving = main.serving /\ main'.step = "Drain"
      BY <1>0, <2>2, GoToTyped
    <3>2. Arming' = Arming
      BY <1>2, <2>1, <2>2 DEF Acquire
    <3> QED BY <1>1, <2>1, <3>1, <3>2
  <2>3. CASE AfterDrain /\ UNCHANGED <<thread, slots>>
    BY <1>1, <2>1, <2>3, AfterDrainTyped DEF Arming
  <2> QED BY <1>6, <2>2, <2>3 DEF DrainAttempt
<1>7. CASE Dispatch
  <2>1. sources = 1 /\ armed /\ ~yielding /\ Arming = {} /\ Arming' = Arming
    BY <1>7 DEF Dispatch, SourceKnown, Arming
  <2>2. CASE lane = <<>>
    <3>1. /\ armed' = FALSE /\ sources' = 0 /\ UNCHANGED <<lane, main, yielding>>
          /\ main.serving = NoTask /\ main.step = "Turn"
      BY <1>7, <2>1, <2>2 DEF Dispatch, Idle
    <3> QED BY <2>1, <2>2, <3>1 DEF SourceKnown
  <2>3. CASE lane # <<>>
    <3>1. /\ UNCHANGED <<armed, sources, yielding>> /\ main'.step = "Turn"
      BY <1>7, <2>3 DEF Dispatch, Idle, MainState
    <3> QED BY <2>1, <3>1 DEF SourceKnown
  <2> QED BY <2>2, <2>3
<1>8. CASE EndCallback
  <2>1. main.serving \in Task /\ thread[main.serving] = "Finished"
    BY <1>8 DEF EndCallback, ResultsKnown, MainState
  <2>2. main'.serving = main.serving /\ main'.step = "Drain"
    BY <1>0, <1>8, GoToTyped DEF EndCallback
  <2>3. Arming' = Arming
    BY <1>2, <1>8, <2>1 DEF EndCallback
  <2> QED BY <1>1, <1>8, <2>2, <2>3 DEF EndCallback
<1>9. CASE AfterCallback
  <2>1. sources = 1 /\ armed /\ ~yielding /\ Arming = {} /\ Arming' = Arming
    BY <1>9 DEF AfterCallback, SourceKnown, Arming
  <2>2. main'.step = "Turn" /\ main'.serving = NoTask /\ lane' = lane
    BY <1>9 DEF AfterCallback, MainState
  <2>3. CASE lane = <<>>
    <3>1. armed' = FALSE /\ sources' = 0 /\ yielding' = yielding
      BY <1>9, <2>1, <2>3 DEF AfterCallback
    <3> QED BY <2>1, <2>2, <2>3, <3>1 DEF SourceKnown
  <2>4. CASE armed' = armed /\ sources' = sources - 1 /\ yielding' = TRUE
    BY <2>1, <2>2, <2>4 DEF SourceKnown
  <2>5. CASE UNCHANGED <<armed, sources, yielding>>
    BY <2>1, <2>2, <2>5 DEF SourceKnown
  <2> QED BY <1>9, <2>3, <2>4, <2>5 DEF AfterCallback, StaysArmed
<1>10. CASE ResumeAfterYield
  <2>1. yielding /\ main.serving = NoTask /\ main.step = "Turn"
    BY <1>10 DEF ResumeAfterYield, Idle
  <2>2. sources = 0 /\ armed /\ Arming = {}
    BY <2>1 DEF SourceKnown
  <2>3. /\ yielding' = FALSE /\ sources' = 1 /\ UNCHANGED <<lane, armed, main>>
        /\ Arming' = Arming
    BY <1>10, <2>2 DEF ResumeAfterYield, Arming
  <2> QED BY <2>1, <2>2, <2>3 DEF SourceKnown
<1>11. ASSUME NEW t \in Task, Deliver(t) PROVE SourceKnown'
  <2>1. /\ thread[t] = "Working" /\ armed' = TRUE
        /\ UNCHANGED <<sources, yielding, main>>
        /\ thread' = [thread EXCEPT ![t] = IF armed THEN "Finished" ELSE "Arming"]
    BY <1>11 DEF Deliver
  <2>2. CASE armed
    <3>1. Arming' = Arming
      BY <1>2, <2>1, <2>2
    <3> QED BY <2>1, <2>2, <3>1 DEF SourceKnown
  <2>3. CASE ~armed
    <3>1. sources = 0 /\ ~yielding /\ Arming = {}
      BY <2>3 DEF SourceKnown
    <3>2. Arming' = {t}
      BY <2>1, <2>3, <3>1 DEF Arming
    <3>3. main.serving = NoTask /\ main.step # "After"
      BY <3>1 DEF SourceKnown
    <3> QED BY <2>1, <3>1, <3>2, <3>3 DEF SourceKnown
  <2> QED BY <2>2, <2>3
<1>12. ASSUME NEW t \in Task, Attach(t) PROVE SourceKnown'
  <2>1. t \in Arming
    BY <1>12 DEF Attach, Arming
  <2>2. armed /\ sources = 0 /\ ~yielding /\ Arming = {t} /\ main.serving = NoTask
    BY <2>1 DEF SourceKnown
  <2>3. /\ thread' = [thread EXCEPT ![t] = "Finished"] /\ sources' = 1
        /\ UNCHANGED <<lane, armed, yielding, main>>
    BY <1>12, <2>2 DEF Attach
  <2>4. Arming' = {}
    BY <2>2, <2>3 DEF Arming
  <2> QED BY <2>2, <2>3, <2>4 DEF SourceKnown
<1>13. ASSUME NEW t \in Task, Panic(t) \/ WakeQueue(t) PROVE SourceKnown'
  <2>1. Arming' = Arming
    BY <1>2, <1>13 DEF Panic, WakeQueue
  <2>2. main.step = "After" => main.serving # NoTask
    BY DEF SourceKnown
  <2> QED BY <1>1, <1>13, <2>1, <2>2 DEF Panic, WakeQueue
<1> QED BY <1>3, <1>4, <1>5, <1>6, <1>7, <1>8, <1>9, <1>10, <1>11, <1>12, <1>13
        DEF PoolNext, MainStep, WorkerStep

\* Every step leaves a queued task MaxWorkers busy slots or a drain to come.
LEMMA ServedStep == PoolInv /\ PoolNext => WaitersServed'
<1> SUFFICES ASSUME PoolInv, PoolNext PROVE WaitersServed'
  OBVIOUS
<1> USE DEF PoolInv, PoolTypeOK, In, tasks, delivery
<1>0. /\ Steps = {"Turn", "Queue", "Drain", "Attempt", "After"}
      /\ NoTask \in Task \cup {NoTask} /\ slots <= MaxWorkers
  BY DEF Steps, SlotsCounted
<1>1. ASSUME NEW t \in Task, Spawn(t) PROVE WaitersServed'
  <2>1. /\ thread[t] = "New" /\ main.step = "Turn" /\ UNCHANGED <<pending, drains>>
        /\ \A u \in Task : u # t => thread'[u] = thread[u]
    BY <1>1 DEF Spawn, Acquire
  <2>2. DrainComes => DrainComes'
    BY <2>1 DEF DrainComes
  <2>3. CASE Acquire(t) /\ UNCHANGED main
    BY <2>1, <2>2, <2>3, PoolAssumption DEF WaitersServed, Acquire
  <2>4. CASE slots >= MaxWorkers /\ UNCHANGED slots
    BY <1>0, <2>4, PoolAssumption DEF WaitersServed
  <2> QED BY <1>1, <2>3, <2>4 DEF Spawn
<1>2. CASE Enqueue
  <2>1. main'.step = "Turn" /\ main.step = "Queue"
    BY <1>0, <1>2, GoToTyped DEF Enqueue
  <2>2. slots = MaxWorkers \/ DrainComes
    BY <2>1 DEF WaitersServed
  <2>3. DrainComes => DrainComes'
    BY <1>2, <2>1 DEF Enqueue, DrainComes
  <2> QED BY <1>2, <2>2, <2>3 DEF Enqueue, WaitersServed
<1>3. CASE DrainNext
  <2>1. CASE pending = <<>>
    BY <1>3, <2>1, AfterDrainTyped DEF DrainNext, WaitersServed
  <2>2. CASE pending # <<>>
    <3>1. Head(pending) \in Task
      BY <2>2
    <3>2. main'.step = "Attempt"
      BY <1>0, <1>3, <2>2, <3>1, GoToTyped DEF DrainNext
    <3> QED BY <3>2 DEF WaitersServed, DrainComes
  <2> QED BY <2>1, <2>2
<1>4. CASE DrainAttempt
  <2>1. CASE Acquire(main.hand) /\ GoTo("Drain", NoTask)
    <3>1. main'.step = "Drain"
      BY <1>0, <2>1, GoToTyped
    <3> QED BY <3>1 DEF WaitersServed, DrainComes
  <2>2. CASE slots >= MaxWorkers /\ UNCHANGED slots
    BY <1>0, <2>2, PoolAssumption DEF WaitersServed
  <2> QED BY <1>4, <2>1, <2>2 DEF DrainAttempt
<1>5. CASE DrainIdle \/ EndCallback
  <2>1. main'.step = "Drain"
    BY <1>0, <1>5, GoToTyped DEF DrainIdle, EndCallback
  <2> QED BY <2>1 DEF WaitersServed, DrainComes
<1>6. CASE Dispatch \/ AfterCallback
  <2>1. /\ main'.step = "Turn" /\ main.step \in {"Turn", "After"}
        /\ UNCHANGED <<thread, slots, pending, drains>>
    BY <1>6 DEF Dispatch, AfterCallback, Idle, MainState
  <2>2. DrainComes => DrainComes'
    BY <2>1 DEF DrainComes
  <2> QED BY <2>1, <2>2 DEF WaitersServed
<1>7. CASE ResumeAfterYield
  BY <1>7 DEF ResumeAfterYield, WaitersServed, DrainComes
<1>8. ASSUME NEW t \in Task, Deliver(t) \/ Attach(t) PROVE WaitersServed'
  <2>1. /\ thread[t] # "Waking" /\ UNCHANGED <<slots, pending, drains, main>>
        /\ \A u \in Task : u # t => thread'[u] = thread[u]
    BY <1>8 DEF Deliver, Attach
  <2>2. DrainComes => DrainComes'
    BY <2>1 DEF DrainComes
  <2> QED BY <2>1, <2>2 DEF WaitersServed
<1>9. ASSUME NEW t \in Task, Panic(t) PROVE WaitersServed'
  <2>1. thread'[t] = "Waking"
    BY <1>9 DEF Panic
  <2> QED BY <2>1 DEF WaitersServed, DrainComes
<1>10. ASSUME NEW t \in Task, WakeQueue(t) PROVE WaitersServed'
  <2>1. drains' > 0
    BY <1>10 DEF WakeQueue
  <2> QED BY <2>1 DEF WaitersServed, DrainComes
<1> QED BY <1>1, <1>2, <1>3, <1>4, <1>5, <1>6, <1>7, <1>8, <1>9, <1>10
        DEF PoolNext, MainStep, WorkerStep

\* Every step, and every step of something else, keeps the invariant.
LEMMA StepPoolInv == PoolInv /\ [PoolNext]_poolVars => PoolInv'
<1>1. ASSUME PoolInv, PoolNext PROVE PoolInv'
  BY <1>1, TypeStep, SlotsStep, WaitersStep, ResultsStep, SourceStep, ServedStep DEF PoolInv
<1>2. ASSUME PoolInv, UNCHANGED poolVars PROVE PoolInv'
  BY <1>2 DEF poolVars, tasks, delivery, PoolInv, PoolTypeOK, SlotsCounted, WaitersKnown,
      ResultsKnown, SourceKnown, WaitersServed, OnceEach, Holders, Arming, DrainComes
<1> QED BY <1>1, <1>2

\* The inductive invariant holds in every state of the pool.
LEMMA PoolInvariant == PoolSpec => []PoolInv
<1> QED BY InitPoolInv, StepPoolInv, PTL DEF PoolSpec

(***************************************************************************)
(* The results.                                                            *)
(***************************************************************************)
\* No waiting task is stranded: while a task is queued, MaxWorkers tasks hold a slot
\* each, or the main thread is draining the queue or sure to drain it.
THEOREM NoTaskStranded == PoolSpec => []NoneStranded
<1>1. PoolInv => NoneStranded
  BY DEF PoolInv, SlotsCounted, WaitersServed, NoneStranded
<1> QED BY <1>1, PoolInvariant, PTL

\* Results have one source while the lane is armed and none while it is not,
\* so that a callback never waits unattended and never runs beside another.
THEOREM LaneHasOneSource == PoolSpec => []OneSource
<1>1. PoolInv => OneSource
  <2> SUFFICES ASSUME PoolInv PROVE OneSource
    OBVIOUS
  <2>1. Cardinality({}) = 0 /\ \A t : Cardinality({t}) = 1
    BY FS_EmptySet, FS_Singleton
  <2>2. CASE ~armed /\ sources = 0 /\ ~yielding /\ Arming = {}
    BY <2>1, <2>2 DEF PoolInv, SourceKnown, OneSource, Carriers
  <2>3. CASE armed /\ sources = 1 /\ ~yielding /\ Arming = {}
    BY <2>1, <2>3 DEF OneSource, Carriers
  <2>4. CASE armed /\ sources = 0 /\ yielding = TRUE /\ Arming = {}
    BY <2>1, <2>4 DEF OneSource, Carriers
  <2>5. CASE armed /\ sources = 0 /\ ~yielding /\ \E t \in Task : Arming = {t}
    <3>1. Cardinality(Arming) = 1
      BY <2>1, <2>5
    <3> QED BY <2>5, <3>1 DEF OneSource, Carriers
  <2> QED BY <2>2, <2>3, <2>4, <2>5 DEF PoolInv, PoolTypeOK, SourceKnown
<1> QED BY <1>1, PoolInvariant, PTL

-----------------------------------------------------------------------------
(* The settings writer *)

\* Nothing is unapplied or pending at launch.
LEMMA InitSettingsInv == SettingsInit => SettingsInv
<1> SUFFICES ASSUME SettingsInit PROVE SettingsInv
  OBVIOUS
<1>1. SettingsTypeOK
  BY SettingsAssumption DEF SettingsInit, SettingsTypeOK, KeyState, Unknown
<1>2. \A k \in Keys : ReadRight(k)
  BY SettingsAssumption DEF SettingsInit, ReadRight, Seen, Stored, UserValue, Unknown
<1>3. FlushComes
  BY DEF SettingsInit, FlushComes
<1> QED BY <1>1, <1>2, <1>3 DEF SettingsInv

\* What the writer makes of a signal for a key it read right.
LEMMA ObservedRight ==
    ASSUME NEW state \in KeyState, NEW value \in Values, NEW stored \in Values,
           NEW before \in Values,
           state.persisted \in {None, stored},
           state.pending = IF before = stored THEN None ELSE before
    PROVE  /\ Observed(state, value, stored) \in KeyState
           /\ Observed(state, value, stored).persisted \in {None, stored}
           /\ \/ value = stored /\ before # stored
              \/ Observed(state, value, stored).pending = IF value = stored THEN None ELSE value
BY SettingsAssumption DEF Observed, ObservePersisted, Record, KeyState

\* What the writer makes of any signal is a state of a key.
LEMMA ObservedTyped ==
    ASSUME NEW state \in KeyState, NEW value \in Values, NEW stored \in Values
    PROVE  Observed(state, value, stored) \in KeyState
BY SettingsAssumption DEF Observed, ObservePersisted, Record, KeyState

\* Nothing the writer decides from has a value outside its type.
LEMMA ValuesTyped ==
    ASSUME SettingsTypeOK, NEW k \in Keys
    PROVE  Seen(k) \in Values /\ Stored(k) \in Values /\ UserValue(k) \in {Unset} \cup Values
BY SettingsAssumption DEF SettingsTypeOK, Seen, Stored, UserValue, Shown

\* A signal that follows a change keeps a flush coming.
LEMMA ScheduleComes ==
    ASSUME FlushComes, Schedule(firstFrame, batch'), UNCHANGED <<firstFrame, flushIdle>>
    PROVE  FlushComes' /\ (timer \in BOOLEAN /\ firstFrame \in BOOLEAN => timer' \in BOOLEAN)
BY DEF Schedule, FlushComes, AnyPending

\* A write or a reset is read right, unless it is written back to the stored
\* value over a pending one.
LEMMA ChangeStep ==
    ASSUME SettingsInv, NEW k \in Keys, NEW v \in {Unset} \cup Values, Change(k, v)
    PROVE  SettingsInv'
<1>1. /\ Shown(v) \in Values /\ Stored(k) \in Values /\ Seen(k) \in Values
      /\ batch[k] \in KeyState
  BY SettingsAssumption, ValuesTyped DEF SettingsInv, SettingsTypeOK, Shown
<1>2. SettingsTypeOK'
  <2>1. batch' \in [Keys -> KeyState]
    BY <1>1, ObservedTyped DEF SettingsInv, SettingsTypeOK, Change, Observe
  <2>2. timer' \in BOOLEAN
    BY ScheduleComes DEF SettingsInv, SettingsTypeOK, Change, Observe
  <2> QED BY <2>1, <2>2 DEF SettingsInv, SettingsTypeOK, Change
<1>3. FlushComes'
  BY ScheduleComes DEF SettingsInv, Change, Observe
<1>4. ASSUME NEW j \in Keys \ misread' PROVE ReadRight(j)'
  <2>1. j \notin misread /\ ReadRight(j)
    BY <1>4 DEF SettingsInv, Change
  <2>2. CASE j # k
    <3>1. unapplied'[j] = unapplied[j] /\ backend'[j] = backend[j] /\ batch'[j] = batch[j]
      BY <2>2 DEF SettingsInv, SettingsTypeOK, Change, Observe
    <3> QED BY <2>1, <3>1 DEF ReadRight, Seen, Stored, UserValue
  <2>3. CASE j = k
    <3>1. unapplied'[k] = v /\ backend' = backend
          /\ batch'[k] = Observed(batch[k], Shown(v), Stored(k))
      BY DEF SettingsInv, SettingsTypeOK, Change, Observe
    <3>2. Seen(k)' = Shown(v) /\ Stored(k)' = Stored(k)
      BY <3>1, SettingsAssumption DEF Seen, Stored, UserValue
    <3>3. Shown(v) = Stored(k) => Seen(k) = Stored(k)
      BY <1>1, <1>4, <2>1, <2>3, SettingsAssumption DEF Change, WrittenBack, ReadRight
    <3> QED BY <1>1, <2>1, <2>3, <3>1, <3>2, <3>3, ObservedRight DEF ReadRight
  <2> QED BY <2>2, <2>3
<1> QED BY <1>2, <1>3, <1>4 DEF SettingsInv

\* A change by another process is read right unless something is unapplied.
LEMMA OutsideStep ==
    ASSUME SettingsInv, NEW k \in Keys, NEW v \in Values, ChangedOutside(k, v)
    PROVE  SettingsInv'
<1> DEFINE shown == IF unapplied[k] = None THEN Shown(v) ELSE Seen(k)
<1>1. Shown(v) = v /\ shown \in Values /\ batch[k] \in KeyState
  BY SettingsAssumption, ValuesTyped DEF SettingsInv, SettingsTypeOK, Shown
<1>2. SettingsTypeOK'
  <2>1. batch' \in [Keys -> KeyState]
    BY <1>1, ObservedTyped DEF SettingsInv, SettingsTypeOK, ChangedOutside, Observe
  <2>2. timer' \in BOOLEAN
    BY ScheduleComes DEF SettingsInv, SettingsTypeOK, ChangedOutside, Observe
  <2> QED BY <2>1, <2>2 DEF SettingsInv, SettingsTypeOK, ChangedOutside
<1>3. FlushComes'
  BY ScheduleComes DEF SettingsInv, ChangedOutside, Observe
<1>4. ASSUME NEW j \in Keys \ misread' PROVE ReadRight(j)'
  <2>1. j \notin misread /\ ReadRight(j)
    BY <1>4 DEF SettingsInv, ChangedOutside
  <2>2. CASE j # k
    <3>1. unapplied'[j] = unapplied[j] /\ backend'[j] = backend[j] /\ batch'[j] = batch[j]
      BY <2>2 DEF SettingsInv, SettingsTypeOK, ChangedOutside, Observe
    <3> QED BY <2>1, <3>1 DEF ReadRight, Seen, Stored, UserValue
  <2>3. CASE j = k
    <3>1. unapplied[k] = None
      BY <1>4, <2>3 DEF ChangedOutside
    <3>2. unapplied'[k] = None /\ backend'[k] = v
          /\ batch'[k] = Observed(batch[k], v, v)
      BY <1>1, <3>1 DEF SettingsInv, SettingsTypeOK, ChangedOutside, Observe
    <3>3. Seen(k)' = v /\ Stored(k)' = v /\ Seen(k) = Stored(k)
      BY <1>1, <3>1, <3>2 DEF Seen, Stored, UserValue
    <3>4. batch'[k] = [persisted |-> v, pending |-> None]
      BY <2>1, <2>3, <3>2, <3>3, SettingsAssumption DEF Observed, ObservePersisted, ReadRight
    <3> QED BY <2>3, <3>3, <3>4 DEF ReadRight
  <2> QED BY <2>2, <2>3
<1> QED BY <1>2, <1>3, <1>4 DEF SettingsInv

\* A flush stores what readers see of the keys that were read right: of what is
\* unapplied when nothing is pending, readers see only what is stored already.
LEMMA FlushStep ==
    ASSUME SettingsInv, Flush, timer' \in BOOLEAN, flushIdle' \in BOOLEAN
    PROVE  SettingsInv'
<1>1. /\ firstFrame' = firstFrame /\ misread' = misread
      /\ \A k \in Keys : unapplied'[k] = None
      /\ unapplied' \in [Keys -> {None, Unset} \cup Values]
  BY DEF Flush
<1>2. CASE AnyPending(batch) /\ Apply
  <2>1. ASSUME NEW k \in Keys
        PROVE  batch'[k] \in KeyState /\ batch'[k].pending = None
    BY <1>2 DEF Apply, Acknowledge, SettingsInv, SettingsTypeOK, KeyState
  <2>2. SettingsTypeOK'
    BY <1>1, <1>2, <2>1, ValuesTyped DEF Apply, SettingsInv, SettingsTypeOK
  <2>3. FlushComes'
    BY <2>1 DEF FlushComes, AnyPending
  <2>4. ASSUME NEW k \in Keys \ misread' PROVE ReadRight(k)'
    <3>1. ReadRight(k)
      BY <1>1, <2>4 DEF SettingsInv
    <3>2. Stored(k)' = Seen(k) /\ Seen(k)' = Seen(k)
      BY <1>1, <1>2 DEF Apply, Seen, Stored, UserValue
    <3>3. batch'[k].persisted \in {None, Seen(k)}
      BY <1>2, <3>1, ValuesTyped, SettingsAssumption
         DEF Apply, Acknowledge, ReadRight, SettingsInv, SettingsTypeOK, KeyState
    <3> QED BY <2>1, <3>2, <3>3 DEF ReadRight
  <2> QED BY <2>2, <2>3, <2>4 DEF SettingsInv
<1>3. CASE ~AnyPending(batch) /\ Revert
  <2>1. ASSUME NEW k \in Keys
        PROVE  batch'[k] \in KeyState /\ batch'[k].pending = None
    BY <1>3, ValuesTyped DEF Revert, AnyPending, ObservePersisted, SettingsInv, SettingsTypeOK, KeyState
  <2>2. SettingsTypeOK'
    BY <1>1, <1>3, <2>1 DEF Revert, SettingsInv, SettingsTypeOK
  <2>3. FlushComes'
    BY <2>1 DEF FlushComes, AnyPending
  <2>4. ASSUME NEW k \in Keys \ misread' PROVE ReadRight(k)'
    <3>1. ReadRight(k)
      BY <1>1, <2>4 DEF SettingsInv
    <3>2. Stored(k)' = Stored(k) /\ Seen(k)' = Stored(k)
      BY <1>1, <1>3 DEF Revert, Seen, Stored, UserValue
    <3>3. batch'[k].persisted \in {None, Stored(k)}
      BY <1>3, <3>1 DEF Revert, ObservePersisted, ReadRight
    <3> QED BY <2>1, <3>2, <3>3 DEF ReadRight
  <2> QED BY <2>2, <2>3, <2>4 DEF SettingsInv
<1> QED BY <1>2, <1>3 DEF Flush

\* Every step keeps the invariant.
LEMMA NextSettingsInv == SettingsInv /\ [SettingsNext]_settingsVars => SettingsInv'
<1> SUFFICES ASSUME SettingsInv, [SettingsNext]_settingsVars PROVE SettingsInv'
  OBVIOUS
<1> USE DEF SettingsInv, SettingsTypeOK
<1>1. ASSUME NEW k \in Keys, NEW v \in Values, Write(k, v) PROVE SettingsInv'
  BY <1>1, ChangeStep DEF Write
<1>2. ASSUME NEW k \in Keys, Reset(k) PROVE SettingsInv'
  BY <1>2, ChangeStep DEF Reset
<1>3. ASSUME NEW k \in Keys, NEW v \in Values, ChangedOutside(k, v) PROVE SettingsInv'
  BY <1>3, OutsideStep
<1>4. CASE TimerFires
  BY <1>4 DEF TimerFires, ReadRight, Seen, Stored, UserValue, FlushComes, AnyPending
<1>5. CASE FlushInIdle
  BY <1>5, FlushStep DEF FlushInIdle
<1>6. CASE FlushNow
  BY <1>6, FlushStep DEF FlushNow
<1>7. CASE FirstFrame
  <2>1. FlushComes' /\ timer' \in BOOLEAN
    BY <1>7 DEF FirstFrame, Schedule, FlushComes, AnyPending
  <2> QED BY <1>7, <2>1 DEF FirstFrame, ReadRight, Seen, Stored, UserValue
<1>8. CASE StartAgain
  <2>1. SettingsTypeOK'
    BY <1>8, SettingsAssumption DEF StartAgain, KeyState, Unknown
  <2>2. \A k \in Keys : ReadRight(k)'
    BY <1>8, SettingsAssumption DEF StartAgain, ReadRight, Seen, Stored, UserValue, Unknown
  <2>3. FlushComes'
    BY <1>8 DEF StartAgain, FlushComes
  <2> QED BY <2>1, <2>2, <2>3
<1>9. CASE UNCHANGED settingsVars
  BY <1>9 DEF settingsVars, ReadRight, Seen, Stored, UserValue, FlushComes, AnyPending
<1> QED BY <1>1, <1>2, <1>3, <1>4, <1>5, <1>6, <1>7, <1>8, <1>9 DEF SettingsNext

\* In every state, a value that readers see and the backend lacks is pending,
\* and after the first frame its flush is on its way, for every key the writer
\* has not misread.
THEOREM SettingsReachTheBackend == SettingsSpec => []FlushOnItsWay
<1>1. SettingsInv => FlushOnItsWay
  <2> SUFFICES ASSUME SettingsInv, NEW k \in Keys \ misread, Seen(k) # Stored(k)
               PROVE  batch[k].pending = Seen(k) /\ (firstFrame => timer \/ flushIdle)
    BY DEF FlushOnItsWay
  <2>1. batch[k].pending = Seen(k) /\ Seen(k) # None
    BY ValuesTyped, SettingsAssumption DEF SettingsInv, ReadRight
  <2>2. AnyPending(batch)
    BY <2>1 DEF AnyPending
  <2> QED BY <2>1, <2>2 DEF SettingsInv, FlushComes
<1> QED BY <1>1, InitSettingsInv, NextSettingsInv, PTL DEF SettingsSpec

-----------------------------------------------------------------------------
(* The timers *)

\* Return drops the innermost call and keeps the others.
LEMMA ReturnFacts ==
    ASSUME TimerTypeOK, calls # <<>>, Return
    PROVE  /\ Len(calls) \in Nat \ {0}
           /\ calls' \in Seq(TimerCall) /\ Len(calls') = Len(calls) - 1
           /\ \A i \in 1 .. Len(calls) - 1 : calls'[i] = calls[i]
           /\ calls' = <<>> <=> Len(calls) = 1
<1>1. Len(calls) \in Nat \ {0} /\ calls \in Seq(TimerCall)
  BY DEF TimerTypeOK
<1>2. /\ calls' \in Seq(TimerCall) /\ Len(calls') = Len(calls) - 1
      /\ \A i \in 1 .. Len(calls) - 1 : calls'[i] = calls[i]
  <2>1. \A i \in 1 .. Len(calls) - 1 : calls[i] \in TimerCall
    BY <1>1
  <2> HIDE DEF TimerCall
  <2>2. /\ SubSeq(calls, 1, Len(calls) - 1) \in Seq(TimerCall)
        /\ Len(SubSeq(calls, 1, Len(calls) - 1)) = Len(calls) - 1
        /\ \A i \in 1 .. Len(calls) - 1 :
               SubSeq(calls, 1, Len(calls) - 1)[i] = calls[i]
    <3>1. /\ 1 \in Int /\ Len(calls) - 1 \in Int
          /\ Len(calls) - 1 - 1 + 1 = Len(calls) - 1
          /\ 1 > Len(calls) - 1 => Len(calls) - 1 = 0
          /\ \A i \in 1 .. Len(calls) - 1 : 1 + i - 1 = i
      <4> DEFINE depth == Len(calls)
      <4>1. depth \in Nat \ {0}
        BY <1>1
      <4> HIDE DEF depth
      <4>2. /\ 1 \in Int /\ depth - 1 \in Int
            /\ depth - 1 - 1 + 1 = depth - 1
            /\ 1 > depth - 1 => depth - 1 = 0
            /\ \A i \in 1 .. depth - 1 : 1 + i - 1 = i
        BY ONLY <4>1
      <4> QED BY <4>2 DEF depth
    <3>2. /\ SubSeq(calls, 1, Len(calls) - 1) \in Seq(TimerCall)
          /\ Len(SubSeq(calls, 1, Len(calls) - 1)) =
                 IF 1 <= Len(calls) - 1 THEN Len(calls) - 1 - 1 + 1 ELSE 0
          /\ \A i \in 1 .. Len(calls) - 1 - 1 + 1 :
                 SubSeq(calls, 1, Len(calls) - 1)[i] = calls[1 + i - 1]
      BY <2>1, <3>1, SubSeqProperties
    <3> QED BY <1>1, <3>1, <3>2
  <2> QED BY <2>2 DEF Return
<1>3. calls' = <<>> <=> Len(calls') = 0
  BY <1>2, EmptySeq
<1> QED BY <1>1, <1>2, <1>3

\* Once the innermost call has returned, none under way is the newest.
LEMMA AfterReturn ==
    ASSUME TimerInv, calls # <<>>, Return, generation' = generation
    PROVE  CallsNest' /\ ~NewestUnderWay'
<1> USE DEF TimerInv, CallsNest, NewestUnderWay, Innermost
<1>1. /\ Len(calls) \in Nat \ {0} /\ Len(calls') = Len(calls) - 1
      /\ \A i \in 1 .. Len(calls) - 1 : calls'[i] = calls[i]
      /\ calls' = <<>> <=> Len(calls) = 1
  BY ReturnFacts
<1>2. CallsNest'
  BY <1>1
<1>3. ASSUME calls' # <<>> PROVE calls'[Len(calls')].token # generation
  <2>1. Len(calls') \in 1 .. Len(calls) - 1
    BY <1>1, <1>3
  <2>2. calls[Len(calls')].token < calls[Len(calls)].token
    BY <1>1, <2>1
  <2>3. calls[Len(calls)].token <= generation
    BY <1>1
  <2>4. \A i \in 1 .. Len(calls) : calls[i].token \in Nat
    <3>1. \A i \in 1 .. Len(calls) : calls[i] \in TimerCall
      BY DEF TimerTypeOK
    <3> QED BY <3>1 DEF TimerCall
  <2> QED BY <1>1, <2>1, <2>2, <2>3, <2>4 DEF TimerTypeOK
<1> QED BY <1>2, <1>3

LEMMA InitTimerInv == TimerInit => TimerInv
<1> SUFFICES ASSUME TimerInit PROVE TimerInv
  OBVIOUS
<1> USE DEF TimerInit
<1>1. TimerTypeOK /\ ~crashed
  BY EmptySeq DEF TimerTypeOK
<1>2. CallsNest
  BY EmptySeq DEF CallsNest
<1>3. Dispatched = {} /\ ~NewestUnderWay
  BY DEF Dispatched, NewestUnderWay
<1>4. NewestDecides
  BY <1>3 DEF NewestDecides
<1> QED BY <1>1, <1>2, <1>4 DEF TimerInv

\* A call takes the newest token, and removes a source that exists.
LEMMA BeginCallInv ==
    ASSUME TimerInv, NEW kind \in {"Arm", "Invalidate"}, BeginCall(kind)
    PROVE  TimerInv'
<1> USE DEF TimerInv, TimerTypeOK
<1> DEFINE entry == [kind |-> kind, token |-> generation + 1,
                     step |-> IF scheduled = {} THEN "Rest" ELSE "Outside"]
<1>1. /\ generation' = generation + 1 /\ scheduled' = {} /\ live' = live \ scheduled
      /\ crashed' = ~(scheduled \subseteq live) /\ calls' = Append(calls, entry)
      /\ newest' = kind
  BY DEF BeginCall
<1>2. entry \in TimerCall /\ entry.kind = kind /\ entry.token = generation + 1
  BY DEF TimerCall
<1> HIDE DEF entry
<1>3. /\ Len(calls) \in Nat /\ Len(calls') = Len(calls) + 1
      /\ calls'[Len(calls) + 1] = entry
      /\ \A i \in 1 .. Len(calls) : calls'[i] = calls[i] /\ calls[i] \in TimerCall
      /\ calls' \in Seq(TimerCall)
  BY <1>1, <1>2
<1>4. TimerTypeOK' /\ ~crashed'
  BY <1>1, <1>3 DEF NewestDecides
<1>5. CallsNest'
  BY <1>1, <1>2, <1>3 DEF CallsNest, TimerCall
<1>6. Dispatched' = Dispatched
  BY <1>2, <1>3 DEF Dispatched
<1>7. NewestUnderWay' /\ Innermost'.kind = newest'
  BY <1>1, <1>2, <1>3 DEF NewestUnderWay, Innermost
<1>8. NewestDecides'
  BY <1>1, <1>6, <1>7 DEF NewestDecides
<1> QED BY <1>4, <1>5, <1>8

\* The step of the innermost call changes, nothing else.
LEMMA DroppedInv ==
    ASSUME TimerInv, Dropped
    PROVE  TimerInv'
<1> USE DEF TimerInv, TimerTypeOK
<1>1. /\ calls # <<>> /\ Len(calls) \in Nat \ {0}
      /\ calls' = [calls EXCEPT ![Len(calls)].step = "Rest"]
      /\ UNCHANGED <<generation, scheduled, live, newest, crashed>>
  BY DEF Dropped
<1>2. /\ Len(calls') = Len(calls) /\ calls' # <<>> /\ calls' \in Seq(TimerCall)
      /\ \A i \in 1 .. Len(calls) :
             calls'[i].kind = calls[i].kind /\ calls'[i].token = calls[i].token
  <2> DEFINE last == calls[Len(calls)]
             rested == [last EXCEPT !.step = "Rest"]
  <2>1. last \in TimerCall /\ calls \in Seq(TimerCall) /\ Len(calls) \in 1 .. Len(calls)
    BY <1>1
  <2>2. rested \in TimerCall /\ rested.kind = last.kind /\ rested.token = last.token
    BY <2>1 DEF TimerCall
  <2>3. calls' = [calls EXCEPT ![Len(calls)] = rested]
    BY <1>1
  <2> HIDE DEF rested
  <2>4. /\ Len(calls') = Len(calls) /\ calls' \in Seq(TimerCall)
        /\ \A i \in 1 .. Len(calls) :
               calls'[i] = IF i = Len(calls) THEN rested ELSE calls[i]
    BY <2>1, <2>2, <2>3, ExceptSeq
  <2> QED BY <1>1, <2>2, <2>4, EmptySeq
<1>3. CallsNest'
  BY <1>1, <1>2 DEF CallsNest
<1>4. Dispatched' = Dispatched
  BY <1>2 DEF Dispatched
<1>5. /\ NewestUnderWay' <=> NewestUnderWay
      /\ Innermost'.kind = Innermost.kind
  BY <1>1, <1>2 DEF NewestUnderWay, Innermost
<1>6. NewestDecides'
  BY <1>1, <1>4, <1>5 DEF NewestDecides
<1> QED BY <1>1, <1>2, <1>3, <1>6

\* The end of an inner call takes no dispatched source off the stack.
LEMMA StillDispatched ==
    ASSUME TimerInv, calls # <<>>, Return, Innermost.kind # "Fire"
    PROVE  Dispatched' = Dispatched
<1>1. /\ Len(calls) \in Nat \ {0} /\ Len(calls') = Len(calls) - 1
      /\ \A i \in 1 .. Len(calls) - 1 : calls'[i] = calls[i]
  BY ReturnFacts DEF TimerInv
<1> QED BY <1>1 DEF Dispatched, Innermost

\* An arm that is still the newest adds the one source that waits; one that is
\* not leaves what the newer call decided.
LEMMA EndArmInv ==
    ASSUME TimerInv, EndArm
    PROVE  TimerInv'
<1> USE DEF TimerInv
<1>1. /\ calls # <<>> /\ Innermost.kind = "Arm" /\ Return
      /\ UNCHANGED <<generation, newest, crashed>>
  BY DEF EndArm
<1>2. CallsNest' /\ ~NewestUnderWay' /\ Dispatched' = Dispatched
  BY <1>1, AfterReturn, StillDispatched
<1>3. calls' \in Seq(TimerCall)
  BY <1>1, ReturnFacts
<1>4. CASE /\ StillNewest(Innermost.token)
           /\ live' = live \cup {Innermost.token}
           /\ scheduled' = {Innermost.token}
  <2>1. NewestUnderWay /\ Innermost.token = generation
    BY <1>1, <1>4 DEF StillNewest, NewestUnderWay
  <2>2. scheduled = {} /\ newest = "Arm" /\ live = Dispatched
    BY <1>1, <2>1 DEF NewestDecides
  <2>3. generation \notin Dispatched
    <3> SUFFICES ASSUME NEW k \in 1 .. Len(calls), calls[k].kind = "Fire",
                        calls[k].token = generation
                 PROVE  FALSE
      BY DEF Dispatched
    <3>1. k = 1 /\ Len(calls) \in Nat \ {0} /\ k # Len(calls)
      BY <1>1 DEF CallsNest, Innermost, TimerTypeOK
    <3>2. /\ 1 \in 1 .. Len(calls) /\ Len(calls) \in 1 .. Len(calls)
          /\ k < Len(calls)
      <4> DEFINE depth == Len(calls)
      <4>1. k = 1 /\ depth \in Nat \ {0} /\ k # depth
        BY <3>1
      <4> HIDE DEF depth
      <4>2. 1 \in 1 .. depth /\ depth \in 1 .. depth /\ k < depth
        BY ONLY <4>1
      <4> QED BY <4>2 DEF depth
    <3>3. calls[k].token < calls[Len(calls)].token
      BY <3>2 DEF CallsNest
    <3> QED BY <2>1, <3>1, <3>3 DEF Innermost, TimerTypeOK
  <2>4. NewestDecides'
    BY <1>1, <1>2, <1>4, <2>1, <2>2, <2>3 DEF NewestDecides
  <2> QED BY <1>1, <1>2, <1>3, <1>4, <2>1, <2>4 DEF TimerTypeOK
<1>5. CASE ~StillNewest(Innermost.token) /\ UNCHANGED <<live, scheduled>>
  <2>1. ~NewestUnderWay
    BY <1>5 DEF StillNewest, NewestUnderWay
  <2>2. NewestDecides'
    BY <1>1, <1>2, <1>5, <2>1 DEF NewestDecides
  <2> QED BY <1>1, <1>2, <1>3, <1>5, <2>2 DEF TimerTypeOK
<1> QED BY <1>4, <1>5 DEF EndArm

\* An invalidation has nothing left to do: the newest one leaves no source.
LEMMA EndInvalidateInv ==
    ASSUME TimerInv, EndInvalidate
    PROVE  TimerInv'
<1> USE DEF TimerInv
<1>1. /\ calls # <<>> /\ Innermost.kind = "Invalidate" /\ Return
      /\ UNCHANGED <<generation, scheduled, live, newest, crashed>>
  BY DEF EndInvalidate
<1>2. CallsNest' /\ ~NewestUnderWay' /\ Dispatched' = Dispatched
  BY <1>1, AfterReturn, StillDispatched
<1>3. NewestDecides'
  BY <1>1, <1>2 DEF NewestDecides
<1> QED BY <1>1, <1>2, <1>3, ReturnFacts DEF TimerTypeOK

\* The one source that waits is dispatched: it is the newest's.
LEMMA FireInv ==
    ASSUME TimerInv, NEW token \in live, Fire(token)
    PROVE  TimerInv'
<1> USE DEF TimerInv
<1> DEFINE entry == [kind |-> "Fire", token |-> token, step |-> "Outside"]
<1>1. /\ calls = <<>> /\ calls' = <<entry>> /\ scheduled' = scheduled \ {token}
      /\ newest' = IF token = generation THEN "Fire" ELSE newest
      /\ UNCHANGED <<generation, live, crashed>>
  BY DEF Fire, Forgotten
<1>2. Dispatched = {} /\ ~NewestUnderWay
  BY <1>1 DEF Dispatched, NewestUnderWay
<1>3. token = generation /\ scheduled = {token} /\ live = {token}
  BY <1>2 DEF NewestDecides
<1>4. entry \in TimerCall /\ entry.kind = "Fire" /\ entry.token = token
  BY <1>3 DEF TimerCall, TimerTypeOK
<1> HIDE DEF entry
<1>5. Len(calls') = 1 /\ calls'[1] = entry /\ calls' # <<>> /\ calls' \in Seq(TimerCall)
  BY <1>1, <1>4
<1>6. CallsNest'
  BY <1>1, <1>3, <1>4, <1>5 DEF CallsNest, TimerTypeOK
<1>7. Dispatched' = {token}
  BY <1>4, <1>5 DEF Dispatched
<1>8. NewestDecides'
  BY <1>1, <1>3, <1>4, <1>5, <1>7 DEF NewestDecides, NewestUnderWay, Innermost
<1> QED BY <1>1, <1>3, <1>5, <1>6, <1>8 DEF TimerTypeOK

\* The dispatched source goes; what its callback armed meanwhile stays.
LEMMA EndFireInv ==
    ASSUME TimerInv, EndFire
    PROVE  TimerInv'
<1> USE DEF TimerInv
<1>1. /\ calls # <<>> /\ Len(calls) = 1 /\ Innermost = calls[1]
      /\ Innermost.kind = "Fire" /\ Return
      /\ live' = live \ {Innermost.token}
      /\ UNCHANGED <<generation, scheduled, newest, crashed>>
  BY DEF EndFire, Innermost, TimerTypeOK
<1>2. calls' = <<>> /\ CallsNest' /\ ~NewestUnderWay'
  BY <1>1, AfterReturn, ReturnFacts
<1>3. Dispatched = {Innermost.token} /\ Dispatched' = {}
  BY <1>1, <1>2 DEF Dispatched
<1>4. NewestUnderWay => newest = "Fire"
  BY <1>1 DEF NewestDecides
<1>5. NewestDecides'
  BY <1>1, <1>2, <1>3, <1>4 DEF NewestDecides
<1>6. TimerTypeOK'
  BY <1>1, <1>2, EmptySeq DEF TimerTypeOK
<1> QED BY <1>1, <1>2, <1>5, <1>6

LEMMA NextTimerInv == TimerInv /\ [TimerNext]_timerVars => TimerInv'
<1> SUFFICES ASSUME TimerInv, [TimerNext]_timerVars PROVE TimerInv'
  OBVIOUS
<1>1. CASE BeginCall("Arm") \/ BeginCall("Invalidate")
  BY <1>1, BeginCallInv
<1>2. CASE Dropped
  BY <1>2, DroppedInv
<1>3. CASE EndArm
  BY <1>3, EndArmInv
<1>4. CASE EndInvalidate
  BY <1>4, EndInvalidateInv
<1>5. CASE \E token \in live : Fire(token)
  BY <1>5, FireInv
<1>6. CASE EndFire
  BY <1>6, EndFireInv
<1>7. CASE UNCHANGED timerVars
  BY <1>7 DEF timerVars, TimerInv, TimerTypeOK, CallsNest, NewestDecides,
              Dispatched, NewestUnderWay, Innermost
<1> QED BY <1>1, <1>2, <1>3, <1>4, <1>5, <1>6, <1>7 DEF TimerNext

\* However deep arms, invalidations, callbacks and drops nest: when none is
\* under way a source waits exactly if the newest of them was an arm, it is that
\* arm's, and no call ever removed a source that was gone.
THEOREM NewestWins == TimerSpec => []NewestArmWins
<1>1. TimerInv => NewestArmWins
  BY DEF TimerInv, NewestArmWins, NewestDecides, NewestUnderWay, Dispatched
<1> QED BY InitTimerInv, NextTimerInv, <1>1, PTL DEF TimerSpec
=============================================================================
