---------------------------- MODULE DurableWrite ----------------------------
(***************************************************************************)
(* The atomic durable write of services/durable_write.rs, driven by the    *)
(* protocol of services/filesystem/write_protocol.rs: several writers, in  *)
(* one or several LushText processes, replace one destination through temp *)
(* files beside it, under the process-local TargetWriteGuard, while the    *)
(* leftover sweep of services/filesystem/leftovers.rs removes old temp     *)
(* files, processes are killed and the machine loses power.                *)
(*                                                                         *)
(* The disk is a directory (names -> files, and the destination) with what *)
(* a power loss may leave of it: a file's bytes survive when they were     *)
(* synced, a rename survives for certain once the directory was synced.    *)
(***************************************************************************)
EXTENDS Naturals, FiniteSets

CONSTANTS
    Process,             \* LushText processes sharing the disk
    Writer,              \* threads that write the destination
    Home,                \* Writer -> Process
    Launch,              \* (pid, launch nonce) identities a launch may draw
    Bit,                 \* permission bits
    SpecialBit,          \* the bits outside 0o777, only fchmod sets
    DefaultMode,         \* 0o666: creation mode when nothing was probed
    Umask,               \* bits the process umask removes at creation
    Sources,             \* metadata sources the writers are called with
    Destination,         \* MetadataSource::ExistingDestination
    MaxTempNameAttempts, \* MAX_TEMP_NAME_ATTEMPTS
    MaxVersion,          \* bound on the writes of a behaviour
    MaxCounter,          \* bound on the temp names one launch draws
    MaxCrashes,          \* bound on kills and power losses
    UniqueLaunches,      \* no two live launches share an identity
    Ages,                \* temp files may turn STALE_LEFTOVER_AGE old
    NoFile, NoWriter, NoName, NoPlan

Version == 0..MaxVersion
Name == Launch \X (0..MaxCounter)
File == [ver : Version, whole : BOOLEAN, synced : BOOLEAN, mode : SUBSET Bit]
Slot == {NoFile} \cup File
Mode == SUBSET Bit

ASSUME ConstantsAssumption ==
    /\ Home \in [Writer -> Process]
    /\ SpecialBit \subseteq Bit
    /\ DefaultMode \subseteq Bit \ SpecialBit
    /\ Umask \subseteq Bit
    /\ Sources \subseteq {Destination} \cup Mode
    /\ MaxTempNameAttempts \in Nat \ {0}
    /\ MaxVersion \in Nat
    /\ MaxCounter \in Nat
    /\ MaxCrashes \in Nat

ASSUME SentinelsAssumption ==
    /\ \A f \in File : f # NoFile
    /\ \A w \in Writer : w # NoWriter
    /\ \A n \in Name : n # NoName
    /\ \A m \in Mode : m # NoPlan /\ m # Destination

\* Exclusive creation covers a shared identity and the sweep's age limit covers
\* a live write, but not both at once: a day-old live temp file swept by a
\* third launch would free its name for the launch that shares the identity.
ASSUME LaunchAssumption == UniqueLaunches \in BOOLEAN /\ Ages \in BOOLEAN /\ (UniqueLaunches \/ ~Ages)

VARIABLES
    \* The disk.
    target,     \* the destination as every process sees it
    durable,    \* what a power loss may leave at the destination
    files,      \* Name -> temp file beside the destination
    stale,      \* names whose file is at least STALE_LEFTOVER_AGE old
    \* The processes.
    launch,     \* Process -> identity of its current launch
    counter,    \* Process -> TEMP_FILE_COUNTER
    guard,      \* Process -> writer in the active set for the destination
    doomed,     \* Process -> name its sweep decided to remove
    \* The writers.
    phase,      \* the protocol's pending action, "Waiting" or "Idle"
    attempts,   \* temp names the protocol has tried
    ver,        \* version being written
    source,     \* metadata source of the write
    plan,       \* probed permission bits
    temp,       \* name of the created temp file
    \* Bounds and observation.
    issued,     \* versions handed out: 1..issued
    crashes,    \* kills and power losses so far
    rank,       \* Version -> position of its rename among all renames, or 0
    hardened,   \* versions whose rename a directory sync followed
    report      \* Version -> class returned to the caller, or "None"

disk == <<target, durable, files, stale>>
procs == <<launch, counter, guard, doomed>>
writers == <<phase, attempts, ver, source, plan, temp>>
observed == <<issued, crashes, rank, hardened, report>>
vars == <<disk, procs, writers, observed>>

WriteClass == {"Success", "BeforeRename", "AfterRename"}
WriteAction == {"ProbeMetadata", "CreateTemp", "WriteContent", "ApplyMetadata",
                "SyncTemp", "Rename", "SyncDir", "RemoveTemp"}
Phase == WriteAction \cup WriteClass \cup {"Idle", "Waiting"}

\* Phases in which the writer is inside the guarded write.
InWrite(w) == phase[w] \in WriteAction \cup WriteClass

\* Phases in which the writer owns the temp file it created.
OwnsTemp(w) == phase[w] \in {"WriteContent", "ApplyMetadata", "SyncTemp",
                             "Rename", "RemoveTemp"}

-----------------------------------------------------------------------------
(* The pure protocol: WriteProtocol::step. *)

AfterDone ==
    [ProbeMetadata |-> "CreateTemp",    CreateTemp |-> "WriteContent",
     WriteContent  |-> "ApplyMetadata", ApplyMetadata |-> "SyncTemp",
     SyncTemp      |-> "Rename",        Rename |-> "SyncDir",
     SyncDir       |-> "Success",       RemoveTemp |-> "BeforeRename"]

AfterFailure ==
    [ProbeMetadata |-> "BeforeRename",  CreateTemp |-> "BeforeRename",
     WriteContent  |-> "RemoveTemp",    ApplyMetadata |-> "RemoveTemp",
     SyncTemp      |-> "RemoveTemp",    Rename |-> "RemoveTemp",
     SyncDir       |-> "AfterRename",   RemoveTemp |-> "BeforeRename"]

\* A taken temp name is never reused, and only so many are tried.
RetriesName(pending, tried, outcome) ==
    /\ pending = "CreateTemp"
    /\ outcome = "AlreadyExists"
    /\ tried + 1 < MaxTempNameAttempts

Lookup(done, failure, pending, tried, outcome) ==
    IF outcome = "Done" THEN done[pending]
    ELSE IF RetriesName(pending, tried, outcome) THEN "CreateTemp"
    ELSE failure[pending]

\* Faulty protocols, for the sensitivity of the properties below.
SkipsSync(pending, tried, outcome) ==
    Lookup([AfterDone EXCEPT !.ApplyMetadata = "Rename"], AfterFailure,
           pending, tried, outcome)
IgnoresSyncDir(pending, tried, outcome) ==
    Lookup(AfterDone, [AfterFailure EXCEPT !.SyncDir = "Success"],
           pending, tried, outcome)
HidesRename(pending, tried, outcome) ==
    Lookup(AfterDone, [AfterFailure EXCEPT !.SyncDir = "BeforeRename"],
           pending, tried, outcome)
IgnoresRename(pending, tried, outcome) ==
    Lookup(AfterDone, [AfterFailure EXCEPT !.Rename = "SyncDir"],
           pending, tried, outcome)

NextAction(pending, tried, outcome) ==
    Lookup(AfterDone, AfterFailure, pending, tried, outcome)

\* The shell feeds the outcome of the action the writer is at.
Feed(w, outcome) ==
    phase' = [phase EXCEPT ![w] = NextAction(@, attempts[w], outcome)]

-----------------------------------------------------------------------------
(* The metadata plan. *)

\* MetadataPlan::probe: nothing is required of a missing destination.
ProbedMode(w) ==
    IF source[w] # Destination THEN source[w]
    ELSE IF target = NoFile THEN NoPlan
    ELSE target.mode

CreatesWide(w) == DefaultMode \ Umask

\* MetadataPlan::create_mode through openat's umask.
CreatedMode(w) ==
    (IF plan[w] = NoPlan THEN DefaultMode ELSE plan[w] \ SpecialBit) \ Umask

AppliedMode(w, mode) == IF plan[w] = NoPlan THEN mode ELSE plan[w]

\* The launch nonces of live processes differ.
Distinct(identity) ==
    UniqueLaunches => \A p, q \in Process : identity[p] = identity[q] => p = q

-----------------------------------------------------------------------------
Init ==
    /\ target \in {NoFile} \cup
                  {[ver |-> 0, whole |-> TRUE, synced |-> TRUE, mode |-> m] :
                       m \in Mode}
    /\ durable = {target}
    /\ files = [n \in Name |-> NoFile]
    /\ stale = {}
    /\ launch \in [Process -> Launch]
    /\ Distinct(launch)
    /\ counter = [p \in Process |-> 0]
    /\ guard = [p \in Process |-> NoWriter]
    /\ doomed = [p \in Process |-> NoName]
    /\ phase = [w \in Writer |-> "Idle"]
    /\ attempts = [w \in Writer |-> 0]
    /\ ver = [w \in Writer |-> 0]
    /\ source = [w \in Writer |-> Destination]
    /\ plan = [w \in Writer |-> NoPlan]
    /\ temp = [w \in Writer |-> NoName]
    /\ issued = 0
    /\ crashes = 0
    /\ rank = [v \in Version |-> 0]
    /\ hardened = {}
    /\ report = [v \in Version |-> "None"]

\* A caller asks for a write of new bytes.
Request(w, s) ==
    /\ phase[w] = "Idle"
    /\ issued < MaxVersion
    /\ issued' = issued + 1
    /\ ver' = [ver EXCEPT ![w] = issued + 1]
    /\ source' = [source EXCEPT ![w] = s]
    /\ phase' = [phase EXCEPT ![w] = "Waiting"]
    /\ UNCHANGED <<disk, procs, attempts, plan, temp, crashes, rank, hardened,
                   report>>

IgnoresGuard(w) == TRUE

\* The process's active set does not hold the destination.
MayEnter(w) == guard[Home[w]] = NoWriter

\* TargetWriteGuard::from_identity returns; WriteProtocol::start.
Acquire(w) ==
    /\ phase[w] = "Waiting"
    /\ MayEnter(w)
    /\ guard' = [guard EXCEPT ![Home[w]] = w]
    /\ phase' = [phase EXCEPT ![w] = "ProbeMetadata"]
    /\ attempts' = [attempts EXCEPT ![w] = 0]
    /\ UNCHANGED <<disk, launch, counter, doomed, ver, source, plan, temp,
                   observed>>

ProbeMetadata(w) ==
    /\ phase[w] = "ProbeMetadata"
    /\ \/ Feed(w, "Done") /\ plan' = [plan EXCEPT ![w] = ProbedMode(w)]
       \/ Feed(w, "Failed") /\ UNCHANGED plan
    /\ UNCHANGED <<disk, procs, attempts, ver, source, temp, observed>>

\* unique_temp_path
TempName(w) == <<launch[Home[w]], counter[Home[w]]>>

OpensExisting(n) == TRUE

\* openat(O_CREAT | O_EXCL): an existing name is never opened.
MayCreate(n) == files[n] = NoFile

CreateTemp(w) ==
    LET n == TempName(w)
        made == [ver |-> ver[w], whole |-> FALSE, synced |-> FALSE,
                 mode |-> CreatedMode(w)]
    IN  /\ phase[w] = "CreateTemp"
        /\ counter[Home[w]] < MaxCounter
        /\ counter' = [counter EXCEPT ![Home[w]] = @ + 1]
        /\ attempts' = [attempts EXCEPT ![w] = @ + 1]
        /\ \/ /\ MayCreate(n)
              /\ Feed(w, "Done")
              /\ files' = [files EXCEPT ![n] = made]
              /\ stale' = stale \ {n}
              /\ temp' = [temp EXCEPT ![w] = n]
           \/ /\ ~MayCreate(n)
              /\ Feed(w, "AlreadyExists")
              /\ UNCHANGED <<files, stale, temp>>
           \/ /\ Feed(w, "Failed")
              /\ UNCHANGED <<files, stale, temp>>
        /\ UNCHANGED <<target, durable, launch, guard, doomed, ver, source,
                       plan, observed>>

\* The open descriptor reaches the file only while its name still leads to it.
Reaches(w) == files[temp[w]] # NoFile /\ files[temp[w]].ver = ver[w]

\* One call on the open temp file that turns it into f, or fails.
OnTemp(w, f) ==
    /\ \/ /\ Feed(w, "Done")
          /\ files' = IF Reaches(w) THEN [files EXCEPT ![temp[w]] = f] ELSE files
       \/ /\ Feed(w, "Failed")
          /\ UNCHANGED files
    /\ UNCHANGED <<target, durable, procs, attempts, ver, source, plan, temp,
                   observed>>

WriteContent(w) ==
    /\ phase[w] = "WriteContent"
    /\ OnTemp(w, [files[temp[w]] EXCEPT !.whole = TRUE, !.synced = FALSE])
    /\ stale' = stale \ {temp[w]}

ApplyMetadata(w) ==
    /\ phase[w] = "ApplyMetadata"
    /\ OnTemp(w, [files[temp[w]] EXCEPT !.mode = AppliedMode(w, @),
                                        !.synced = FALSE])
    /\ UNCHANGED stale

SyncTemp(w) ==
    /\ phase[w] = "SyncTemp"
    /\ OnTemp(w, [files[temp[w]] EXCEPT !.synced = TRUE])
    /\ UNCHANGED stale

Renames == Cardinality({v \in Version : rank[v] # 0})

\* rename(2) moves whatever the temp name leads to over the destination.
Rename(w) ==
    /\ phase[w] = "Rename"
    /\ \/ /\ files[temp[w]] # NoFile
          /\ Feed(w, "Done")
          /\ target' = files[temp[w]]
          /\ durable' = durable \cup {target'}
          /\ files' = [files EXCEPT ![temp[w]] = NoFile]
          /\ rank' = [rank EXCEPT ![ver[w]] = Renames + 1]
       \/ /\ Feed(w, "Failed")
          /\ UNCHANGED <<target, durable, files, rank>>
    /\ UNCHANGED <<stale, procs, attempts, ver, source, plan, temp, issued,
                   crashes, hardened, report>>

\* A sync of the parent directory makes the destination's entry durable.
SyncDir(w) ==
    /\ phase[w] = "SyncDir"
    /\ \/ /\ Feed(w, "Done")
          /\ durable' = {target}
          /\ hardened' = hardened \cup {ver[w]}
       \/ /\ Feed(w, "Failed")
          /\ UNCHANGED <<durable, hardened>>
    /\ UNCHANGED <<target, files, stale, procs, attempts, ver, source, plan,
                   temp, issued, crashes, rank, report>>

\* The outcome of the unlink is ignored.
RemoveTemp(w) ==
    /\ phase[w] = "RemoveTemp"
    /\ Feed(w, "Done")
    /\ files' \in {files, [files EXCEPT ![temp[w]] = NoFile]}
    /\ UNCHANGED <<target, durable, stale, procs, attempts, ver, source, plan,
                   temp, observed>>

KeepsGuard(p) == guard

Released(p) == [guard EXCEPT ![p] = NoWriter]

\* The locals of the write of each writer in `done` are gone.
Drop(done) ==
    /\ phase' = [w \in Writer |-> IF w \in done THEN "Idle" ELSE phase[w]]
    /\ attempts' = [w \in Writer |-> IF w \in done THEN 0 ELSE attempts[w]]
    /\ ver' = [w \in Writer |-> IF w \in done THEN 0 ELSE ver[w]]
    /\ source' = [w \in Writer |-> IF w \in done THEN Destination ELSE source[w]]
    /\ plan' = [w \in Writer |-> IF w \in done THEN NoPlan ELSE plan[w]]
    /\ temp' = [w \in Writer |-> IF w \in done THEN NoName ELSE temp[w]]

\* Finish(class): the class goes to the caller and the guard is dropped.
Finish(w) ==
    /\ phase[w] \in WriteClass
    /\ report' = [report EXCEPT ![ver[w]] = phase[w]]
    /\ guard' = Released(Home[w])
    /\ Drop({w})
    /\ UNCHANGED <<disk, launch, counter, doomed, issued, crashes, rank,
                   hardened>>

-----------------------------------------------------------------------------
(* The leftover sweep, as one candidate at a time: which names a pass reads *)
(* before its budget runs out is left open.                                 *)

SweepsOwn(p, n) == files[n] # NoFile /\ n \in stale

\* is_sweepable_leftover: old, and not of this launch.
Sweepable(p, n) ==
    /\ files[n] # NoFile
    /\ n \in stale
    /\ n[1] # launch[p]

\* symlink_metadata and is_sweepable_leftover
SweepCheck(p, n) ==
    /\ doomed[p] = NoName
    /\ Sweepable(p, n)
    /\ doomed' = [doomed EXCEPT ![p] = n]
    /\ UNCHANGED <<disk, launch, counter, guard, writers, observed>>

\* remove_file on the checked name, which may fail
SweepRemove(p) ==
    /\ doomed[p] # NoName
    /\ files' \in {files, [files EXCEPT ![doomed[p]] = NoFile]}
    /\ doomed' = [doomed EXCEPT ![p] = NoName]
    /\ UNCHANGED <<target, durable, stale, launch, counter, guard, writers,
                   observed>>

-----------------------------------------------------------------------------
(* The environment: time, kills and power losses. *)

\* A temp file turns a day old; a suspended writer's can, too.
Age(n) ==
    /\ Ages
    /\ files[n] # NoFile
    /\ n \notin stale
    /\ stale' = stale \cup {n}
    /\ UNCHANGED <<target, durable, files, procs, writers, observed>>

\* The processes `dead` restart as new launches, each with an identity that an
\* earlier launch may have had.
Restart(dead) ==
    /\ crashes < MaxCrashes
    /\ crashes' = crashes + 1
    /\ launch' \in [Process -> Launch]
    /\ \A p \in Process \ dead : launch'[p] = launch[p]
    /\ Distinct(launch')
    /\ counter' = [p \in Process |-> IF p \in dead THEN 0 ELSE counter[p]]
    /\ guard' = [p \in Process |-> IF p \in dead THEN NoWriter ELSE guard[p]]
    /\ doomed' = [p \in Process |-> IF p \in dead THEN NoName ELSE doomed[p]]
    /\ Drop({w \in Writer : Home[w] \in dead})
    /\ UNCHANGED <<issued, rank, hardened, report>>

Kill(p) ==
    /\ Restart({p})
    /\ UNCHANGED disk

\* Bytes that were never synced may be lost with the power.
AfterPowerLoss(f) == IF f.synced THEN f ELSE [f EXCEPT !.whole = FALSE]

Survivor(s) == IF s = NoFile THEN NoFile ELSE AfterPowerLoss(s)

PowerLoss ==
    /\ Restart(Process)
    /\ \E s \in durable : target' = Survivor(s)
    /\ durable' = {target'}
    /\ \E kept \in SUBSET {n \in Name : files[n] # NoFile} :
           files' = [n \in Name |-> IF n \in kept THEN Survivor(files[n])
                                    ELSE NoFile]
    /\ UNCHANGED stale

-----------------------------------------------------------------------------
Write(w) ==
    \/ Acquire(w) \/ ProbeMetadata(w) \/ CreateTemp(w) \/ WriteContent(w)
    \/ ApplyMetadata(w) \/ SyncTemp(w) \/ Rename(w) \/ SyncDir(w)
    \/ RemoveTemp(w) \/ Finish(w)

\* Nothing is being written.
Quiescent ==
    /\ \A w \in Writer : phase[w] = "Idle"
    /\ UNCHANGED vars

Next ==
    \/ \E w \in Writer, s \in Sources : Request(w, s)
    \/ \E w \in Writer : Write(w)
    \/ \E p \in Process, n \in Name : SweepCheck(p, n)
    \/ \E p \in Process : SweepRemove(p)
    \/ \E n \in Name : Age(n)
    \/ \E p \in Process : Kill(p)
    \/ PowerLoss
    \/ Quiescent

Spec == Init /\ [][Next]_vars

\* Every writing thread is scheduled and every system call returns.
FairSpec == Spec /\ \A w \in Writer : WF_vars(Write(w))

-----------------------------------------------------------------------------
(* Properties *)

TypeOK ==
    /\ target \in Slot
    /\ durable \subseteq Slot
    /\ files \in [Name -> Slot]
    /\ stale \subseteq Name
    /\ launch \in [Process -> Launch]
    /\ counter \in [Process -> 0..MaxCounter]
    /\ guard \in [Process -> {NoWriter} \cup Writer]
    /\ doomed \in [Process -> {NoName} \cup Name]
    /\ phase \in [Writer -> Phase]
    /\ attempts \in [Writer -> 0..MaxTempNameAttempts]
    /\ ver \in [Writer -> Version]
    /\ source \in [Writer -> {Destination} \cup Sources]
    /\ plan \in [Writer -> {NoPlan} \cup Mode]
    /\ temp \in [Writer -> {NoName} \cup Name]
    /\ issued \in Version
    /\ crashes \in 0..MaxCrashes
    /\ rank \in [Version -> Nat]
    /\ hardened \subseteq Version
    /\ report \in [Version -> WriteClass \cup {"None"}]

\* A whole file whose bytes and metadata a power loss cannot take.
Intact(s) == s = NoFile \/ (s.whole /\ s.synced)

\* No kill and no power loss, at any step of any number of racing writes and
\* sweeps, leaves a destination that is neither the old nor a whole new file.
CrashAtomic == \A s \in durable \cup {target} : Intact(s)

\* The error class tells the caller the truth about the destination: after
\* BeforeRename the new bytes never were the destination, after AfterRename
\* and Success they became it.  Draft and save code keep or drop the unsaved
\* work on that distinction.
ClassificationSound ==
    \A v \in Version :
        /\ report[v] = "BeforeRename" => rank[v] = 0
        /\ report[v] \in {"Success", "AfterRename"} => rank[v] # 0

\* A rename installs the renaming writer's own bytes, whatever other
\* launches, leftovers under the same name, and sweeps do to temp names.
InstallsOwnBytes ==
    [][\A w \in Writer : phase[w] = "Rename" /\ phase'[w] = "SyncDir" =>
           target'.ver = ver[w] /\ target'.whole]_vars

\* New bytes never sit in a temp file readable by more than the file they
\* replace, not even before its metadata was applied.
NeverWider ==
    \A w \in Writer : OwnsTemp(w) /\ Reaches(w) /\ plan[w] # NoPlan =>
        files[temp[w]].mode \subseteq plan[w]

\* Within one process a save keeps the permissions of the very file it
\* replaces: no other in-process write gets between the probe and the rename.
ModePreserved ==
    [][\A w \in Writer :
           (/\ phase[w] = "Rename" /\ phase'[w] = "SyncDir"
            /\ source[w] = Destination /\ target # NoFile)
           => target'.mode = target.mode]_vars

\* A sweep is never about to remove a temp file that a write of its own
\* launch still needs, however long that write was suspended.
SweepSparesOwnWrites ==
    \A p \in Process, w \in Writer :
        Home[w] = p /\ OwnsTemp(w) => doomed[p] # temp[w]

\* Every requested write is answered (or dies with its process): the guard is
\* always handed on, and the retry of temp names ends.
WriteAnswered ==
    \A w \in Writer : phase[w] = "Waiting" ~> phase[w] = "Idle"

-----------------------------------------------------------------------------
(* The inductive invariant behind TypeOK, CrashAtomic and                   *)
(* ClassificationSound.                                                     *)

\* A temp name is tried only while a further attempt is allowed.
AttemptsLeft ==
    \A w \in Writer : phase[w] \in {"ProbeMetadata", "CreateTemp"} =>
        attempts[w] < MaxTempNameAttempts

\* Versions are handed out once, so a version names one running write.
VersionsDistinct ==
    /\ \A w \in Writer : ver[w] <= issued
    /\ \A w \in Writer : phase[w] # "Idle" => ver[w] # 0
    /\ \A u, w \in Writer : ver[u] # 0 /\ ver[u] = ver[w] => u = w

\* A writer's temp name was drawn by its own launch, before the next draw.
TempsDrawn ==
    /\ Distinct(launch)
    /\ \A w \in Writer : OwnsTemp(w) =>
           /\ temp[w] \in Name
           /\ temp[w][1] = launch[Home[w]]
           /\ temp[w][2] < counter[Home[w]]

\* While no file turns old, nobody sweeps and a temp file waits for its writer.
TempsKept ==
    ~Ages => /\ stale = {}
             /\ \A p \in Process : doomed[p] = NoName
             /\ \A w \in Writer : OwnsTemp(w) => files[temp[w]] # NoFile

\* What a writer finds under its temp name, if anything, is its own file, as
\* far as the protocol has brought it.
TempsOwn ==
    \A w \in Writer : OwnsTemp(w) /\ files[temp[w]] # NoFile =>
        /\ files[temp[w]].ver = ver[w]
        /\ phase[w] \in {"ApplyMetadata", "SyncTemp", "Rename"} =>
               files[temp[w]].whole
        /\ phase[w] = "Rename" => files[temp[w]].synced

\* A running write has no report yet, and its version was renamed over the
\* destination exactly when its phase says so.
PhaseTellsRename ==
    /\ \A v \in Version : v > issued => rank[v] = 0 /\ report[v] = "None"
    /\ \A w \in Writer : phase[w] # "Idle" =>
           /\ report[ver[w]] = "None"
           /\ rank[ver[w]] # 0 <=> phase[w] \in {"SyncDir", "Success", "AfterRename"}

IndInv ==
    /\ TypeOK /\ AttemptsLeft /\ VersionsDistinct /\ TempsDrawn /\ TempsKept
    /\ TempsOwn /\ PhaseTellsRename /\ CrashAtomic /\ ClassificationSound

-----------------------------------------------------------------------------
(* What the permissions, the sweep and the implementation of AtomicReplace  *)
(* need besides.                                                            *)

\* The name a sweep is about to remove is of another launch than its own.
DoomedForeign ==
    \A p \in Process : doomed[p] # NoName => doomed[p][1] # launch[p]

\* A writer's temp file is never wider than its plan, and bears exactly the
\* plan once the metadata is applied.
TempsNarrow ==
    \A w \in Writer :
        OwnsTemp(w) /\ files[temp[w]] # NoFile /\ plan[w] # NoPlan =>
            /\ files[temp[w]].mode \subseteq plan[w]
            /\ phase[w] \in {"SyncTemp", "Rename"} => files[temp[w]].mode = plan[w]

\* The guard of a process is its one writer's who is inside a write.
GuardHeld == \A w \in Writer : InWrite(w) => guard[Home[w]] = w

\* Where one process writes, the permissions probed are still the destination's
\* until the rename.
ProbeHolds ==
    (\A p, q \in Process : p = q) =>
        \A w \in Writer :
            /\ phase[w] \in {"CreateTemp", "WriteContent", "ApplyMetadata",
                             "SyncTemp", "Rename"}
            /\ source[w] = Destination
            => plan[w] = IF target = NoFile THEN NoPlan ELSE target.mode

\* A running write was hardened exactly when it is about to report Success.
PhaseTellsHardened ==
    /\ \A v \in Version : v > issued => v \notin hardened
    /\ \A w \in Writer : phase[w] # "Idle" =>
           (ver[w] \in hardened <=> phase[w] = "Success")

\* A thread that writes nothing has no version.
IdleHasNone == \A w \in Writer : phase[w] = "Idle" => ver[w] = 0

FullInv ==
    /\ IndInv /\ DoomedForeign /\ TempsNarrow /\ GuardHeld /\ ProbeHolds
    /\ PhaseTellsHardened /\ IdleHasNone

\* What a reader of the destination is given.
Seen(s) == IF s = NoFile THEN NoFile ELSE IF s.whole THEN s.ver ELSE s

\* The write implements what it promises.
Promise == INSTANCE AtomicReplace WITH
    NoContent <- NoFile,
    value <- Seen(target),
    possible <- {Seen(s) : s \in durable},
    current <- ver,
    installed <- {v \in Version : rank[v] # 0}

\* Every behaviour of the writers, the sweep and the crashes is one of
\* AtomicReplace.
ImplementsAtomicReplace == Promise!Spec
=============================================================================
