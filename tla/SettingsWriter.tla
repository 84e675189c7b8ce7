----------------------------- MODULE SettingsWriter -----------------------------
(***************************************************************************)
(* The coalescing settings writer of ui/settings_writes.rs and the pending *)
(* set of model/settings_write_batch.rs.  Readers see a delayed instance   *)
(* of the settings at once; one flush per persistence window brings what   *)
(* it holds to the backend, after the first frame, from an idle; the last  *)
(* close and the shutdown flush at once.  The writer learns of each change *)
(* by a signal and decides, per key, whether a value is still to be        *)
(* persisted.  Everything runs on the main thread, each function in one    *)
(* step: a flush is never observed half done, so the in-flight value of    *)
(* the batch is not part of a state.                                       *)
(***************************************************************************)
EXTENDS Naturals

CONSTANTS
    Keys, Values,
    Default,    \* what readers see of a key without a user value
    Unset,      \* no user value
    None,       \* nothing known, nothing pending, nothing unapplied
    MaxChanges, \* bound on the writes and resets of a behaviour
    MaxOutside, \* bound on the changes by other processes
    MaxStarts   \* bound on the launches

ASSUME SettingsAssumption ==
    /\ Default \in Values
    /\ None \notin Values \cup {Unset} /\ Unset \notin Values

VARIABLES
    backend,    \* Keys -> the user value that is stored
    unapplied,  \* Keys -> what the delayed instance holds on top of it
    batch,      \* Keys -> KeyWriteState
    firstFrame, \* first_frame_presented
    timer,      \* flush_timer is armed
    flushIdle,  \* flush_idle holds a source
    changes, outside, starts,
    misread     \* keys whose persisted value the writer has wrong (observation)

settingsVars == <<backend, unapplied, batch, firstFrame, timer, flushIdle, changes,
                  outside, starts, misread>>

\* gio::Settings: the delayed instance reads its own values first.
Shown(v) == IF v = Unset THEN Default ELSE v
UserValue(k) == IF unapplied[k] = None THEN backend[k] ELSE unapplied[k]
Seen(k) == Shown(UserValue(k))
Stored(k) == Shown(backend[k])

-----------------------------------------------------------------------------
(* KeyWriteState *)

Unknown == [persisted |-> None, pending |-> None]

Record(state, value, stored) ==
    LET known == IF state.persisted = None THEN stored ELSE state.persisted
    IN  [persisted |-> known, pending |-> IF value = known THEN None ELSE value]

ObservePersisted(state, value) ==
    [persisted |-> value,
     pending |-> IF state.pending = value THEN None ELSE state.pending]

\* Mutation: what was flushed is no longer pending, but not known as persisted.
ForgetsPersisted(state) == [state EXCEPT !.pending = None]
Acknowledge(state) ==
    IF state.pending = None THEN state
    ELSE [persisted |-> state.pending, pending |-> None]

\* SettingsWriter::observe, of one key
Observed(state, value, stored) ==
    IF value = stored THEN ObservePersisted(state, value)
    ELSE Record(state, value, stored)

AnyPending(states) == \E k \in Keys : states[k].pending # None

\* schedule_flush: nothing is armed before the first frame.
Schedule(shown, states) == timer' = (timer \/ (shown /\ AnyPending(states)))

\* A `changed` of key k, whose value is now `value` for readers and `stored` in
\* the backend.
Observe(k, value, stored) ==
    /\ batch' = [batch EXCEPT ![k] = Observed(@, value, stored)]
    /\ Schedule(firstFrame, batch')

-----------------------------------------------------------------------------
SettingsInit ==
    /\ backend \in [Keys -> {Unset} \cup Values]
    /\ unapplied = [k \in Keys |-> None]
    /\ batch = [k \in Keys |-> Unknown]
    /\ firstFrame = FALSE /\ timer = FALSE /\ flushIdle = FALSE
    /\ changes = 0 /\ outside = 0 /\ starts = 1 /\ misread = {}

\* What the writer gets wrong of a key: a value written back to the stored one
\* while another is pending leaves that other one pending, and a stored value
\* that changes under an unapplied one goes unnoticed.
WrittenBack(k, v) ==
    /\ Shown(v) = Stored(k)
    /\ batch[k].pending \notin {None, Shown(v)}

\* A change that reaches the delayed instance and is announced inside the call.
Change(k, v) ==
    /\ changes < MaxChanges /\ changes' = changes + 1
    /\ unapplied' = [unapplied EXCEPT ![k] = v]
    /\ Observe(k, Shown(v), Stored(k))
    /\ misread' = IF WrittenBack(k, v) THEN misread \cup {k} ELSE misread
    /\ UNCHANGED <<backend, firstFrame, flushIdle, outside, starts>>

\* SettingsWriter::write drops a value that readers already see.
Write(k, v) == Seen(k) # v /\ Change(k, v)

\* reset: only a user value is reset.
Reset(k) == UserValue(k) # Unset /\ Change(k, Unset)

\* Another process stores a value.
ChangedOutside(k, v) ==
    /\ outside < MaxOutside /\ outside' = outside + 1
    /\ backend[k] # v
    /\ backend' = [backend EXCEPT ![k] = v]
    /\ Observe(k, IF unapplied[k] = None THEN Shown(v) ELSE Seen(k), Shown(v))
    /\ misread' = IF unapplied[k] = None THEN misread ELSE misread \cup {k}
    /\ UNCHANGED <<unapplied, firstFrame, flushIdle, changes, starts>>

\* apply(), and the acknowledgement of what was pending
Apply ==
    /\ backend' = [k \in Keys |-> UserValue(k)]
    /\ batch' = [k \in Keys |-> Acknowledge(batch[k])]

\* revert(), which announces every key it drops
Revert ==
    /\ batch' = [k \in Keys |-> IF unapplied[k] = None THEN batch[k]
                                ELSE ObservePersisted(batch[k], Stored(k))]
    /\ UNCHANGED backend

\* flush
Flush ==
    /\ IF AnyPending(batch) THEN Apply ELSE Revert
    /\ unapplied' = [k \in Keys |-> None]
    /\ UNCHANGED <<firstFrame, changes, outside, starts, misread>>

\* The persistence window ends: unless a source waits already, one is added
\* that waits for quiet input.
TimerFires ==
    /\ timer /\ timer' = FALSE
    /\ flushIdle' = TRUE
    /\ UNCHANGED <<backend, unapplied, batch, firstFrame, changes, outside, starts,
                   misread>>

\* flush_when_input_quiet: the idle runs.
FlushInIdle ==
    /\ flushIdle /\ flushIdle' = FALSE
    /\ Flush
    /\ UNCHANGED timer

\* flush_now: the last window's close, or the shutdown
FlushNow ==
    /\ timer' = FALSE /\ flushIdle' = FALSE
    /\ Flush

\* first_frame_presented
FirstFrame ==
    /\ ~firstFrame /\ firstFrame' = TRUE
    /\ Schedule(TRUE, batch)
    /\ UNCHANGED <<backend, unapplied, batch, flushIdle, changes, outside, starts,
                   misread>>

\* The process ends, in whatever way, and another starts.
StartAgain ==
    /\ starts < MaxStarts /\ starts' = starts + 1
    /\ unapplied' = [k \in Keys |-> None]
    /\ batch' = [k \in Keys |-> Unknown]
    /\ firstFrame' = FALSE /\ timer' = FALSE /\ flushIdle' = FALSE
    /\ misread' = {}
    /\ UNCHANGED <<backend, changes, outside>>

SettingsNext ==
    \/ \E k \in Keys : \/ \E v \in Values : Write(k, v) \/ ChangedOutside(k, v)
                       \/ Reset(k)
    \/ TimerFires \/ FlushInIdle \/ FlushNow \/ FirstFrame \/ StartAgain

SettingsSpec == SettingsInit /\ [][SettingsNext]_settingsVars

-----------------------------------------------------------------------------
(* Properties *)

\* A value that readers see and the backend lacks is pending, and once the
\* first frame was shown a flush of it is on its way: no toggle, reset or
\* outside change that the writer reads right leaves a setting that only the
\* memory holds (observe, schedule_flush, first_frame_presented).
FlushOnItsWay ==
    \A k \in Keys \ misread : Seen(k) # Stored(k) =>
        /\ batch[k].pending = Seen(k)
        /\ firstFrame => timer \/ flushIdle

\* After the flush of a close or shutdown the backend holds what readers saw.
ExactAtExit == [][FlushNow => \A k \in Keys : Shown(backend'[k]) = Seen(k)]_settingsVars

-----------------------------------------------------------------------------
(* The inductive invariant behind FlushOnItsWay.                            *)

KeyState == [persisted : Values \cup {None}, pending : Values \cup {None}]
SettingsTypeOK ==
    /\ backend \in [Keys -> {Unset} \cup Values]
    /\ unapplied \in [Keys -> {None, Unset} \cup Values]
    /\ batch \in [Keys -> KeyState]
    /\ firstFrame \in BOOLEAN /\ timer \in BOOLEAN /\ flushIdle \in BOOLEAN

\* Of a key it reads right, the writer knows what is stored, if anything, and
\* holds as pending just what readers see beyond it.
ReadRight(k) ==
    /\ batch[k].persisted \in {None, Stored(k)}
    /\ batch[k].pending = IF Seen(k) = Stored(k) THEN None ELSE Seen(k)

\* Whatever is pending after the first frame will be flushed.
FlushComes == firstFrame /\ AnyPending(batch) => timer \/ flushIdle

SettingsInv ==
    /\ SettingsTypeOK
    /\ \A k \in Keys \ misread : ReadRight(k)
    /\ FlushComes
=============================================================================
