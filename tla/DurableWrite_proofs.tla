------------------------ MODULE DurableWrite_proofs ------------------------
(***************************************************************************)
(* Proofs about the durable write and the durable move.  DurableWrite, for *)
(* any number of processes, writers, launches and crashes: type            *)
(* correctness, that no crash can leave a torn destination, and that the   *)
(* reported error class is true.  DurableMove, for any number of power     *)
(* losses and of attempts: the whole file is always under one of its       *)
(* names, and a move that was reported done is not undone.                 *)
(***************************************************************************)
EXTENDS DurableWrite, DurableMove, FiniteSetTheorems, TLAPS

\* The protocol's table, action by action: WriteProtocol::step.
LEMMA StepTable ==
    ASSUME NEW tried \in Nat
    PROVE  /\ NextAction("ProbeMetadata", tried, "Done") = "CreateTemp"
           /\ NextAction("ProbeMetadata", tried, "Failed") = "BeforeRename"
           /\ NextAction("CreateTemp", tried, "Done") = "WriteContent"
           /\ NextAction("CreateTemp", tried, "Failed") = "BeforeRename"
           /\ NextAction("CreateTemp", tried, "AlreadyExists") =
                  IF tried + 1 < MaxTempNameAttempts THEN "CreateTemp"
                  ELSE "BeforeRename"
           /\ NextAction("WriteContent", tried, "Done") = "ApplyMetadata"
           /\ NextAction("WriteContent", tried, "Failed") = "RemoveTemp"
           /\ NextAction("ApplyMetadata", tried, "Done") = "SyncTemp"
           /\ NextAction("ApplyMetadata", tried, "Failed") = "RemoveTemp"
           /\ NextAction("SyncTemp", tried, "Done") = "Rename"
           /\ NextAction("SyncTemp", tried, "Failed") = "RemoveTemp"
           /\ NextAction("Rename", tried, "Done") = "SyncDir"
           /\ NextAction("Rename", tried, "Failed") = "RemoveTemp"
           /\ NextAction("SyncDir", tried, "Done") = "Success"
           /\ NextAction("SyncDir", tried, "Failed") = "AfterRename"
           /\ NextAction("RemoveTemp", tried, "Done") = "BeforeRename"
BY DEF NextAction, Lookup, RetriesName, AfterDone, AfterFailure

\* The number of renames so far is a number.
LEMMA RenamesIsNat == Renames \in Nat
<1>1. IsFiniteSet(Version)
  BY FS_Interval, ConstantsAssumption DEF Version
<1>2. IsFiniteSet({v \in Version : rank[v] # 0})
  BY <1>1, FS_Subset
<1> QED BY <1>2, FS_CardinalityType DEF Renames

\* The initial states satisfy the inductive invariant.
LEMMA InitIndInv == Init => IndInv
<1> SUFFICES ASSUME Init PROVE IndInv
  OBVIOUS
<1> USE ConstantsAssumption DEF Init
<1>1. TypeOK
  <2>0. target \in Slot
    <3>1. CASE target = NoFile
      BY <3>1 DEF Slot
    <3>2. CASE target # NoFile
      <4>1. PICK m \in Mode : target = [ver |-> 0, whole |-> TRUE,
                                        synced |-> TRUE, mode |-> m]
        BY <3>2
      <4>2. 0 \in Version
        BY DEF Version, ConstantsAssumption
      <4> QED BY <4>1, <4>2 DEF Slot, File, Mode
    <3> QED BY <3>1, <3>2
  <2>1. durable \subseteq Slot /\ files \in [Name -> Slot]
    BY <2>0 DEF Slot
  <2>2. /\ issued \in Version /\ ver \in [Writer -> Version]
        /\ rank \in [Version -> Nat] /\ crashes \in 0..MaxCrashes
        /\ counter \in [Process -> 0..MaxCounter]
        /\ attempts \in [Writer -> 0..MaxTempNameAttempts]
    BY DEF Version, ConstantsAssumption
  <2>3. phase \in [Writer -> Phase]
    BY DEF Phase
  <2> QED BY <2>1, <2>2, <2>3 DEF TypeOK
<1>2. AttemptsLeft /\ VersionsDistinct /\ TempsDrawn /\ TempsKept /\ TempsOwn
  BY DEF AttemptsLeft, VersionsDistinct, TempsDrawn, TempsKept, TempsOwn,
         OwnsTemp
<1>3. PhaseTellsRename /\ CrashAtomic /\ ClassificationSound
  BY DEF PhaseTellsRename, CrashAtomic, ClassificationSound, Intact
<1> QED BY <1>1, <1>2, <1>3 DEF IndInv

\* A call on an open temp file changes that file alone, and brings it as far as
\* the next phase q needs.
LEMMA OnTempIndInv ==
    ASSUME IndInv, NEW w \in Writer, NEW f, NEW q,
           phase[w] \in {"WriteContent", "ApplyMetadata", "SyncTemp"},
           q \in {"ApplyMetadata", "SyncTemp", "Rename"},
           NextAction(phase[w], attempts[w], "Done") = q,
           NextAction(phase[w], attempts[w], "Failed") = "RemoveTemp",
           Reaches(w) => /\ f \in File /\ f.ver = ver[w] /\ f.whole
                         /\ q = "Rename" => f.synced,
           OnTemp(w, f), stale' \subseteq stale
    PROVE  IndInv'
<1> USE DEF IndInv
<1>1. /\ UNCHANGED <<target, durable, procs, attempts, ver, source, plan, temp,
                     observed>>
      /\ \/ /\ phase' = [phase EXCEPT ![w] = q]
            /\ files' = IF Reaches(w) THEN [files EXCEPT ![temp[w]] = f]
                        ELSE files
         \/ /\ phase' = [phase EXCEPT ![w] = "RemoveTemp"]
            /\ files' = files
  BY DEF OnTemp, Feed, TypeOK
<1>2. OwnsTemp(w) /\ phase[w] # "Idle" /\ temp[w] \in Name
  BY DEF OwnsTemp, TempsDrawn
<1>3. \A u \in Writer : /\ OwnsTemp(u)' <=> OwnsTemp(u)
                        /\ u # w => phase'[u] = phase[u]
  BY <1>1, <1>2 DEF OwnsTemp, TypeOK
<1>4. \A n \in Name : files'[n] # NoFile <=> files[n] # NoFile
  BY <1>1, <1>2, SentinelsAssumption DEF TypeOK, Reaches
<1>5. \A u \in Writer : u # w /\ OwnsTemp(u) => files'[temp[u]] = files[temp[u]]
  <2> SUFFICES ASSUME NEW u \in Writer, u # w, OwnsTemp(u),
                      files'[temp[u]] # files[temp[u]]
               PROVE  FALSE
    OBVIOUS
  <2>1. Reaches(w) /\ temp[u] = temp[w]
    BY <1>1, <1>2 DEF TypeOK, TempsDrawn
  <2>2. ver[u] = ver[w] /\ ver[u] # 0
    BY <2>1 DEF Reaches, TempsOwn, VersionsDistinct, OwnsTemp
  <2> QED BY <2>2 DEF VersionsDistinct
<1>6. TypeOK'
  <2>1. files' \in [Name -> Slot]
    BY <1>1, <1>2 DEF TypeOK, Slot
  <2>2. phase' \in [Writer -> Phase]
    BY <1>1 DEF TypeOK, Phase, WriteAction
  <2> QED BY <1>1, <2>1, <2>2 DEF TypeOK, procs, observed
<1>7. AttemptsLeft' /\ VersionsDistinct'
  BY <1>1, <1>2 DEF AttemptsLeft, VersionsDistinct, TypeOK, observed
<1>8. TempsDrawn' /\ TempsKept'
  BY <1>1, <1>3, <1>4 DEF TempsDrawn, TempsKept, procs, TypeOK, Distinct
<1>9. TempsOwn'
  <2> SUFFICES ASSUME NEW u \in Writer, OwnsTemp(u)', files'[temp'[u]] # NoFile
               PROVE  /\ files'[temp'[u]].ver = ver'[u]
                      /\ phase'[u] \in {"ApplyMetadata", "SyncTemp", "Rename"}
                             => files'[temp'[u]].whole
                      /\ phase'[u] = "Rename" => files'[temp'[u]].synced
    BY DEF TempsOwn
  <2>1. CASE u # w
    BY <2>1, <1>1, <1>3, <1>5 DEF TempsOwn
  <2>2. CASE u = w
    <3>1. Reaches(w)
      BY <2>2, <1>1, <1>2, <1>4 DEF TempsOwn, Reaches
    <3>2. CASE phase' = [phase EXCEPT ![w] = "RemoveTemp"] /\ files' = files
      BY <3>1, <3>2, <2>2, <1>1 DEF Reaches, TypeOK
    <3>3. CASE /\ phase' = [phase EXCEPT ![w] = q]
               /\ files' = [files EXCEPT ![temp[w]] = f]
      BY <3>1, <3>3, <2>2, <1>1, <1>2 DEF TypeOK
    <3> QED BY <3>1, <3>2, <3>3, <1>1
  <2> QED BY <2>1, <2>2
<1>10. PhaseTellsRename' /\ CrashAtomic' /\ ClassificationSound'
  BY <1>1 DEF PhaseTellsRename, CrashAtomic, ClassificationSound, observed, TypeOK
<1> QED BY <1>6, <1>7, <1>8, <1>9, <1>10

\* Creating a temp file never takes a name another writer owns: its own launch
\* draws each name once, and another launch either has another identity or is
\* stopped by the exclusive creation.
LEMMA CreateTempIndInv ==
    ASSUME IndInv, NEW w \in Writer, CreateTemp(w)
    PROVE  IndInv'
<1> DEFINE n == TempName(w)
           made == [ver |-> ver[w], whole |-> FALSE, synced |-> FALSE,
                    mode |-> CreatedMode(w)]
<1> USE DEF IndInv
<1>1. /\ phase[w] = "CreateTemp" /\ ~OwnsTemp(w) /\ ver[w] # 0
      /\ UNCHANGED <<target, durable, launch, guard, doomed, ver, source, plan,
                     observed>>
      /\ counter[Home[w]] < MaxCounter
      /\ counter' = [counter EXCEPT ![Home[w]] = @ + 1]
      /\ attempts' = [attempts EXCEPT ![w] = @ + 1]
  BY DEF CreateTemp, OwnsTemp, VersionsDistinct
<1>2. \/ /\ files[n] = NoFile
         /\ phase' = [phase EXCEPT ![w] = "WriteContent"]
         /\ files' = [files EXCEPT ![n] = made]
         /\ stale' = stale \ {n}
         /\ temp' = [temp EXCEPT ![w] = n]
      \/ /\ phase' = [phase EXCEPT ![w] = "CreateTemp"]
         /\ attempts[w] + 1 < MaxTempNameAttempts
         /\ UNCHANGED <<files, stale, temp>>
      \/ /\ phase' = [phase EXCEPT ![w] = "BeforeRename"]
         /\ UNCHANGED <<files, stale, temp>>
  BY <1>1, StepTable DEF CreateTemp, Feed, TypeOK, MayCreate
<1>3. n \in Name /\ n[1] = launch[Home[w]] /\ n[2] = counter[Home[w]]
  BY <1>1, ConstantsAssumption DEF TempName, Name, TypeOK
<1>4. made \in File /\ made.ver = ver[w]
  BY ConstantsAssumption DEF File, TypeOK, CreatedMode, Mode
<1>5. \A u \in Writer : OwnsTemp(u) => u # w /\ (files[n] = NoFile => temp[u] # n)
  <2> SUFFICES ASSUME NEW u \in Writer, OwnsTemp(u), files[n] = NoFile,
                      temp[u] = n
               PROVE  FALSE
    BY <1>1
  <2>1. launch[Home[u]] = launch[Home[w]]
    BY <1>3 DEF TempsDrawn
  <2>2. Ages /\ UniqueLaunches
    BY LaunchAssumption DEF TempsKept
  <2>3. Home[u] = Home[w]
    BY <2>1, <2>2, ConstantsAssumption DEF TempsDrawn, Distinct
  <2>4. n[2] < counter[Home[w]]
    BY <2>3 DEF TempsDrawn
  <2> QED BY <2>4, <1>3, ConstantsAssumption DEF TypeOK
<1>home. /\ Home[w] \in Process /\ counter[Home[w]] \in Nat
      /\ counter[Home[w]] + 1 \in 0..MaxCounter
      /\ counter'[Home[w]] = counter[Home[w]] + 1
  <2>1. Home[w] \in Process
    BY ConstantsAssumption
  <2>2. counter[Home[w]] \in 0..MaxCounter
    BY <2>1 DEF TypeOK
  <2>3. counter'[Home[w]] = counter[Home[w]] + 1
    BY <1>1, <2>1 DEF TypeOK
  <2> QED BY <2>1, <2>2, <2>3, <1>1, ConstantsAssumption
<1>6. TypeOK'
  <2>1. files' \in [Name -> Slot]
    <3>1. made \in Slot
      BY <1>4 DEF Slot
    <3> HIDE DEF made, n
    <3> QED BY <1>2, <1>3, <3>1 DEF TypeOK
  <2>5. stale' \subseteq Name
    BY <1>2 DEF TypeOK
  <2>2. phase' \in [Writer -> Phase] /\ temp' \in [Writer -> {NoName} \cup Name]
    BY <1>2, <1>3 DEF TypeOK, Phase, WriteAction, WriteClass
  <2>3. attempts' \in [Writer -> 0..MaxTempNameAttempts]
    BY <1>1, ConstantsAssumption DEF TypeOK, AttemptsLeft
  <2>4. counter' \in [Process -> 0..MaxCounter]
    BY <1>1, <1>home DEF TypeOK
  <2> QED BY <1>1, <2>1, <2>2, <2>3, <2>4, <2>5 DEF TypeOK, observed
<1>7. AttemptsLeft'
  BY <1>1, <1>2 DEF AttemptsLeft, TypeOK
<1>8. VersionsDistinct'
  BY <1>1, <1>2 DEF VersionsDistinct, TypeOK, observed
<1>9. \A u \in Writer : u # w =>
          /\ phase'[u] = phase[u] /\ temp'[u] = temp[u]
          /\ OwnsTemp(u)' <=> OwnsTemp(u)
          /\ OwnsTemp(u) => files'[temp[u]] = files[temp[u]]
  BY <1>2, <1>3, <1>5 DEF OwnsTemp, TypeOK, TempsDrawn
<1>10. OwnsTemp(w)' => /\ phase'[w] = "WriteContent" /\ temp'[w] = n
                       /\ files'[n] = made
  BY <1>1, <1>2, <1>3 DEF OwnsTemp, TypeOK
<1>11. TempsDrawn'
  <2> SUFFICES ASSUME NEW u \in Writer, OwnsTemp(u)'
               PROVE  /\ temp'[u] \in Name
                      /\ temp'[u][1] = launch[Home[u]]
                      /\ temp'[u][2] < counter'[Home[u]]
    BY <1>1 DEF TempsDrawn, Distinct
  <2>1. CASE u = w
    BY <2>1, <1>3, <1>10, <1>home
  <2>2. CASE u # w
    <3>1. temp'[u] \in Name /\ temp'[u][1] = launch[Home[u]]
          /\ temp'[u][2] < counter[Home[u]]
      BY <2>2, <1>9 DEF TempsDrawn
    <3>2. temp'[u][2] \in Nat
      BY <3>1, ConstantsAssumption DEF Name
    <3> QED BY <3>1, <3>2, <1>1, ConstantsAssumption DEF TypeOK
  <2> QED BY <2>1, <2>2
<1>12. TempsKept'
  <2>1. \A u \in Writer : OwnsTemp(u)' /\ ~Ages => files'[temp'[u]] # NoFile
    BY <1>4, <1>9, <1>10, SentinelsAssumption DEF TempsKept
  <2> QED BY <2>1, <1>1, <1>2 DEF TempsKept
<1>13. TempsOwn'
  BY <1>1, <1>4, <1>9, <1>10 DEF TempsOwn
<1>14. PhaseTellsRename' /\ CrashAtomic' /\ ClassificationSound'
  BY <1>1, <1>2 DEF PhaseTellsRename, CrashAtomic, ClassificationSound,
                    observed, TypeOK
<1> QED BY <1>6, <1>7, <1>8, <1>11, <1>12, <1>13, <1>14

\* The locals of the dropped writers are reset, the others keep theirs.
LEMMA DropFacts ==
    ASSUME IndInv, NEW done \in SUBSET Writer, Drop(done)
    PROVE  /\ phase' \in [Writer -> Phase]
           /\ attempts' \in [Writer -> 0..MaxTempNameAttempts]
           /\ ver' \in [Writer -> Version]
           /\ source' \in [Writer -> {Destination} \cup Sources]
           /\ plan' \in [Writer -> {NoPlan} \cup Mode]
           /\ temp' \in [Writer -> {NoName} \cup Name]
           /\ \A w \in done : phase'[w] = "Idle" /\ ver'[w] = 0 /\ ~OwnsTemp(w)'
           /\ \A w \in Writer \ done :
                  /\ phase'[w] = phase[w] /\ ver'[w] = ver[w]
                  /\ attempts'[w] = attempts[w] /\ temp'[w] = temp[w]
                  /\ OwnsTemp(w)' <=> OwnsTemp(w)
<1> USE DEF Drop, IndInv, TypeOK
<1>1. 0 \in Version /\ 0 \in 0..MaxTempNameAttempts /\ "Idle" \in Phase
  BY ConstantsAssumption DEF Version, Phase
<1>2. /\ phase' \in [Writer -> Phase]
      /\ attempts' \in [Writer -> 0..MaxTempNameAttempts]
      /\ ver' \in [Writer -> Version]
  BY <1>1
<1>3. /\ source' \in [Writer -> {Destination} \cup Sources]
      /\ plan' \in [Writer -> {NoPlan} \cup Mode]
      /\ temp' \in [Writer -> {NoName} \cup Name]
  OBVIOUS
<1>4. \A w \in done : phase'[w] = "Idle" /\ ver'[w] = 0 /\ ~OwnsTemp(w)'
  BY DEF OwnsTemp
<1>5. \A w \in Writer \ done :
          /\ phase'[w] = phase[w] /\ ver'[w] = ver[w]
          /\ attempts'[w] = attempts[w] /\ temp'[w] = temp[w]
          /\ OwnsTemp(w)' <=> OwnsTemp(w)
  BY DEF OwnsTemp
<1> QED BY <1>2, <1>3, <1>4, <1>5

\* Dropped locals (a returned or a dead write) leave nothing to protect.
LEMMA DropIndInv ==
    ASSUME IndInv, NEW done \in SUBSET Writer, Drop(done),
           issued' = issued, rank' = rank, Distinct(launch'),
           \A w \in Writer \ done :
               /\ launch'[Home[w]] = launch[Home[w]]
               /\ counter'[Home[w]] = counter[Home[w]]
               /\ report'[ver[w]] = report[ver[w]],
           \A v \in Version : v > issued => report'[v] = report[v],
           stale' = stale,
           \A p \in Process : doomed'[p] \in {doomed[p], NoName},
           files' = files \/ done = Writer
    PROVE  /\ AttemptsLeft' /\ VersionsDistinct' /\ TempsDrawn' /\ TempsKept'
           /\ TempsOwn' /\ PhaseTellsRename'
<1> USE DEF IndInv
<1>1. /\ \A w \in done : phase'[w] = "Idle" /\ ver'[w] = 0 /\ ~OwnsTemp(w)'
      /\ \A w \in Writer \ done :
             /\ phase'[w] = phase[w] /\ ver'[w] = ver[w]
             /\ attempts'[w] = attempts[w] /\ temp'[w] = temp[w]
             /\ OwnsTemp(w)' <=> OwnsTemp(w)
  BY DropFacts
<1>2. AttemptsLeft' /\ TempsDrawn'
  BY <1>1 DEF AttemptsLeft, TempsDrawn
<1>3. VersionsDistinct'
  <2>1. \A w \in Writer : ver'[w] <= issued' /\ (phase'[w] # "Idle" => ver'[w] # 0)
    BY <1>1, ConstantsAssumption DEF VersionsDistinct, TypeOK, Version
  <2>2. \A u, w \in Writer : ver'[u] # 0 /\ ver'[u] = ver'[w] => u = w
    BY <1>1 DEF VersionsDistinct
  <2> QED BY <2>1, <2>2 DEF VersionsDistinct
<1>4. TempsKept'
  BY <1>1 DEF TempsKept
<1>5. TempsOwn'
  BY <1>1 DEF TempsOwn
<1>6. PhaseTellsRename'
  BY <1>1 DEF PhaseTellsRename
<1> QED BY <1>2, <1>3, <1>4, <1>5, <1>6

\* The write returns and drops its guard: the report is the phase, whose truth the
\* invariant already tells.
LEMMA FinishIndInv ==
    ASSUME IndInv, NEW w \in Writer, Finish(w)
    PROVE  IndInv'
<1> USE DEF IndInv
<1>1. /\ phase[w] \in WriteClass /\ ver[w] \in Version /\ ver[w] # 0
      /\ ver[w] <= issued
      /\ report' = [report EXCEPT ![ver[w]] = phase[w]]
      /\ guard' = [guard EXCEPT ![Home[w]] = NoWriter]
      /\ Drop({w})
      /\ UNCHANGED <<disk, launch, counter, doomed, issued, crashes, rank,
                     hardened>>
  BY DEF Finish, Released, WriteClass, VersionsDistinct, TypeOK
<1>2. TypeOK'
  <2>1. report' \in [Version -> WriteClass \cup {"None"}]
    BY <1>1 DEF TypeOK
  <2>2. guard' \in [Process -> {NoWriter} \cup Writer]
    BY <1>1 DEF TypeOK
  <2> QED BY <1>1, <2>1, <2>2, DropFacts DEF TypeOK, disk
<1>3. \A u \in Writer \ {w} : report'[ver[u]] = report[ver[u]]
  BY <1>1 DEF VersionsDistinct, TypeOK
<1>4. \A v \in Version : v > issued => report'[v] = report[v]
  BY <1>1, ConstantsAssumption DEF TypeOK, Version
<1>5. /\ AttemptsLeft' /\ VersionsDistinct' /\ TempsDrawn' /\ TempsKept'
      /\ TempsOwn' /\ PhaseTellsRename'
  BY <1>1, <1>3, <1>4, DropIndInv DEF disk, TempsDrawn
<1>6. CrashAtomic'
  BY <1>1 DEF CrashAtomic, disk
<1>7. ClassificationSound'
  BY <1>1 DEF ClassificationSound, PhaseTellsRename, WriteClass, TypeOK
<1> QED BY <1>2, <1>5, <1>6, <1>7

\* A process dies; the disk stays as it is.
LEMMA KillIndInv ==
    ASSUME IndInv, NEW p \in Process, Kill(p)
    PROVE  IndInv'
<1> DEFINE done == {w \in Writer : Home[w] \in {p}}
<1> USE DEF IndInv
<1>1. Restart({p}) /\ UNCHANGED disk
  BY DEF Kill
<1>2. TypeOK'
  <2>1. counter' \in [Process -> 0..MaxCounter] /\ crashes' \in 0..MaxCrashes
    BY <1>1, ConstantsAssumption DEF Restart, TypeOK
  <2>2. guard' \in [Process -> {NoWriter} \cup Writer]
    BY <1>1 DEF Restart, TypeOK
  <2>3. doomed' \in [Process -> {NoName} \cup Name]
    BY <1>1 DEF Restart, TypeOK
  <2>4. Drop(done) /\ done \in SUBSET Writer
    BY <1>1 DEF Restart
  <2> QED BY <1>1, <2>1, <2>2, <2>3, <2>4, DropFacts DEF TypeOK, disk, Restart
<1>3. /\ AttemptsLeft' /\ VersionsDistinct' /\ TempsDrawn' /\ TempsKept'
      /\ TempsOwn' /\ PhaseTellsRename'
  BY <1>1, DropIndInv, ConstantsAssumption DEF Restart, disk
<1>4. CrashAtomic' /\ ClassificationSound'
  BY <1>1 DEF CrashAtomic, ClassificationSound, Restart, disk
<1> QED BY <1>2, <1>3, <1>4

\* A file keeps its type through a power loss, and a synced one its bytes.
LEMMA SurvivorFacts ==
    ASSUME NEW s \in Slot
    PROVE  Survivor(s) \in Slot /\ (Intact(s) => Survivor(s) = s)
<1>1. CASE s = NoFile
  BY <1>1 DEF Survivor
<1>2. CASE s \in File
  BY <1>2, SentinelsAssumption DEF Survivor, AfterPowerLoss, Intact, Slot, File
<1> QED BY <1>1, <1>2 DEF Slot

\* The machine stops: what survives of the destination is old, or whole and synced.
LEMMA PowerLossIndInv ==
    ASSUME IndInv, PowerLoss
    PROVE  IndInv'
<1> USE DEF IndInv
<1>1. /\ Restart(Process) /\ stale' = stale
      /\ durable' = {target'} /\ \E s \in durable : target' = Survivor(s)
  BY DEF PowerLoss
<1>2. {w \in Writer : Home[w] \in Process} = Writer
  BY ConstantsAssumption
<1>3. Drop(Writer)
  BY <1>1, <1>2 DEF Restart
<1>4. target' \in Slot /\ Intact(target')
  BY <1>1, SurvivorFacts DEF CrashAtomic, TypeOK
<1>5. files' \in [Name -> Slot]
  <2>1. PICK kept \in SUBSET {n \in Name : files[n] # NoFile} :
            files' = [n \in Name |-> IF n \in kept THEN Survivor(files[n])
                                     ELSE NoFile]
    BY DEF PowerLoss
  <2>2. \A n \in Name : Survivor(files[n]) \in Slot
    BY SurvivorFacts DEF TypeOK
  <2> QED BY <2>1, <2>2 DEF Slot
<1>6. TypeOK'
  <2>1. counter' \in [Process -> 0..MaxCounter] /\ crashes' \in 0..MaxCrashes
    BY <1>1, ConstantsAssumption DEF Restart, TypeOK
  <2>2. guard' \in [Process -> {NoWriter} \cup Writer]
    BY <1>1 DEF Restart, TypeOK
  <2>3. doomed' \in [Process -> {NoName} \cup Name]
    BY <1>1 DEF Restart, TypeOK
  <2>4. /\ phase' \in [Writer -> Phase]
        /\ attempts' \in [Writer -> 0..MaxTempNameAttempts]
        /\ ver' \in [Writer -> Version]
        /\ source' \in [Writer -> {Destination} \cup Sources]
        /\ plan' \in [Writer -> {NoPlan} \cup Mode]
        /\ temp' \in [Writer -> {NoName} \cup Name]
    BY <1>3, DropFacts
  <2> QED BY <1>1, <1>4, <1>5, <2>1, <2>2, <2>3, <2>4 DEF TypeOK, Restart
<1>7. /\ AttemptsLeft' /\ VersionsDistinct' /\ TempsDrawn' /\ TempsKept'
      /\ TempsOwn' /\ PhaseTellsRename'
  BY <1>1, <1>3, DropIndInv DEF Restart
<1>8. CrashAtomic' /\ ClassificationSound'
  BY <1>1, <1>4 DEF CrashAtomic, ClassificationSound, Restart
<1> QED BY <1>6, <1>7, <1>8

\* A new version is one no writer and no file has.
LEMMA RequestIndInv ==
    ASSUME IndInv, NEW w \in Writer, NEW s \in Sources, Request(w, s)
    PROVE  IndInv'
<1> USE DEF IndInv, Request
<1>1. issued \in Nat /\ issued + 1 \in Version /\ \A u \in Writer : ver[u] \in Nat
  BY ConstantsAssumption DEF TypeOK, Version
<1>2. TypeOK'
  BY <1>1 DEF TypeOK, Phase, disk, procs
<1>3. AttemptsLeft' /\ TempsDrawn' /\ TempsKept'
  BY DEF AttemptsLeft, TempsDrawn, TempsKept, OwnsTemp, TypeOK, disk, procs,
         Distinct
<1>4. VersionsDistinct'
  <2>1. \A u \in Writer : ver'[u] = IF u = w THEN issued + 1 ELSE ver[u]
    BY DEF TypeOK
  <2>2. \A u \in Writer : ver[u] < issued + 1
    BY <1>1 DEF VersionsDistinct
  <2>3. \A u \in Writer : phase'[u] # "Idle" /\ u # w => phase[u] # "Idle"
    BY DEF TypeOK
  <2> QED BY <1>1, <2>1, <2>2, <2>3 DEF VersionsDistinct
<1>5. TempsOwn'
  BY DEF TempsOwn, OwnsTemp, TypeOK, disk
<1>6. PhaseTellsRename'
  <2>1. rank[issued + 1] = 0 /\ report[issued + 1] = "None"
    BY <1>1 DEF PhaseTellsRename
  <2>2. \A v \in Version : v > issued + 1 => v > issued
    BY <1>1, ConstantsAssumption DEF Version
  <2>3. \A u \in Writer : u # w => phase'[u] = phase[u] /\ ver'[u] = ver[u]
    BY DEF TypeOK
  <2>4. phase'[w] = "Waiting" /\ ver'[w] = issued + 1
    BY DEF TypeOK
  <2> QED BY <2>1, <2>2, <2>3, <2>4 DEF PhaseTellsRename
<1>7. CrashAtomic' /\ ClassificationSound'
  BY DEF CrashAtomic, ClassificationSound, disk
<1> QED BY <1>2, <1>3, <1>4, <1>5, <1>6, <1>7

\* Steps that move a writer between phases without a temp file, and change
\* nothing the invariant relates to it.
LEMMA MoveIndInv ==
    ASSUME IndInv, NEW w \in Writer, NEW q \in Phase,
           phase' = [phase EXCEPT ![w] = q],
           phase[w] \in {"Waiting", "ProbeMetadata", "SyncDir"},
           phase[w] \in {"Waiting", "ProbeMetadata"} =>
               q \in {"ProbeMetadata", "CreateTemp", "BeforeRename"},
           phase[w] = "SyncDir" => q \in {"Success", "AfterRename"},
           q \in {"ProbeMetadata", "CreateTemp"} =>
               attempts'[w] < MaxTempNameAttempts,
           \A u \in Writer \ {w} : attempts'[u] = attempts[u],
           UNCHANGED <<files, stale, launch, counter, doomed, ver, temp,
                       issued, rank, report>>
    PROVE  /\ AttemptsLeft' /\ VersionsDistinct' /\ TempsDrawn' /\ TempsKept'
           /\ TempsOwn' /\ PhaseTellsRename'
<1> USE DEF IndInv
<1>1. /\ phase'[w] = q /\ \A u \in Writer \ {w} : phase'[u] = phase[u]
      /\ \A u \in Writer : OwnsTemp(u)' <=> OwnsTemp(u)
  BY DEF TypeOK, OwnsTemp
<1>2. AttemptsLeft' /\ VersionsDistinct'
  BY <1>1 DEF AttemptsLeft, VersionsDistinct
<1>3. TempsDrawn' /\ TempsKept'
  BY <1>1 DEF TempsDrawn, TempsKept, Distinct
<1>4. TempsOwn'
  BY <1>1 DEF TempsOwn, OwnsTemp
<1>5. PhaseTellsRename'
  BY <1>1 DEF PhaseTellsRename
<1> QED BY <1>2, <1>3, <1>4, <1>5

\* Waiting for the guard and taking it touch no file.
LEMMA AcquireIndInv ==
    ASSUME IndInv, NEW w \in Writer, Acquire(w)
    PROVE  IndInv'
<1> USE DEF IndInv
<1>1. /\ phase[w] = "Waiting"
      /\ phase' = [phase EXCEPT ![w] = "ProbeMetadata"]
      /\ attempts' = [attempts EXCEPT ![w] = 0]
      /\ guard' = [guard EXCEPT ![Home[w]] = w]
      /\ UNCHANGED <<disk, launch, counter, doomed, ver, source, plan, temp,
                     observed>>
  BY DEF Acquire
<1>2. /\ "ProbeMetadata" \in Phase /\ 0 \in 0..MaxTempNameAttempts
      /\ attempts'[w] < MaxTempNameAttempts
      /\ \A u \in Writer \ {w} : attempts'[u] = attempts[u]
  BY <1>1, ConstantsAssumption DEF Phase, WriteAction, TypeOK
<1>3. TypeOK'
  <2>1. guard' \in [Process -> {NoWriter} \cup Writer]
    BY <1>1 DEF TypeOK
  <2>2. /\ phase' \in [Writer -> Phase]
        /\ attempts' \in [Writer -> 0..MaxTempNameAttempts]
    BY <1>1, <1>2 DEF TypeOK
  <2> QED BY <1>1, <2>1, <2>2 DEF TypeOK, disk, observed
<1>4. /\ AttemptsLeft' /\ VersionsDistinct' /\ TempsDrawn' /\ TempsKept'
      /\ TempsOwn' /\ PhaseTellsRename'
  BY <1>1, <1>2, MoveIndInv DEF disk, observed
<1>5. CrashAtomic' /\ ClassificationSound'
  BY <1>1 DEF CrashAtomic, ClassificationSound, disk, observed
<1> QED BY <1>3, <1>4, <1>5

\* Probing the metadata only reads the destination.
LEMMA ProbeMetadataIndInv ==
    ASSUME IndInv, NEW w \in Writer, ProbeMetadata(w)
    PROVE  IndInv'
<1> USE DEF IndInv
<1>1. /\ phase[w] = "ProbeMetadata" /\ attempts[w] < MaxTempNameAttempts
      /\ UNCHANGED <<disk, procs, attempts, ver, source, temp, observed>>
      /\ \E q \in {"CreateTemp", "BeforeRename"} : phase' = [phase EXCEPT ![w] = q]
      /\ plan' = plan \/ plan' = [plan EXCEPT ![w] = ProbedMode(w)]
  BY StepTable DEF ProbeMetadata, Feed, TypeOK, AttemptsLeft
<1>2. ProbedMode(w) \in {NoPlan} \cup Mode
  BY ConstantsAssumption DEF ProbedMode, TypeOK, Slot, File, Mode
<1>3. TypeOK'
  <2>1. plan' \in [Writer -> {NoPlan} \cup Mode]
    BY <1>1, <1>2 DEF TypeOK
  <2>2. phase' \in [Writer -> Phase]
    BY <1>1 DEF TypeOK, Phase, WriteAction, WriteClass
  <2> QED BY <1>1, <2>1, <2>2 DEF TypeOK, disk, procs, observed
<1>4. PICK q \in {"CreateTemp", "BeforeRename"} : phase' = [phase EXCEPT ![w] = q]
  BY <1>1
<1>5. q \in Phase
  BY DEF Phase, WriteAction, WriteClass
<1>6. /\ AttemptsLeft' /\ VersionsDistinct' /\ TempsDrawn' /\ TempsKept'
      /\ TempsOwn' /\ PhaseTellsRename'
  BY <1>1, <1>4, <1>5, MoveIndInv DEF disk, procs, observed
<1>7. CrashAtomic' /\ ClassificationSound'
  BY <1>1 DEF CrashAtomic, ClassificationSound, disk, observed
<1> QED BY <1>3, <1>6, <1>7

\* A directory sync makes the latest rename certain, and changes no file.
LEMMA SyncDirIndInv ==
    ASSUME IndInv, NEW w \in Writer, SyncDir(w)
    PROVE  IndInv'
<1> USE DEF IndInv
<1>1. /\ phase[w] = "SyncDir"
      /\ UNCHANGED <<target, files, stale, procs, attempts, ver, source, plan,
                     temp, issued, crashes, rank, report>>
      /\ \E q \in {"Success", "AfterRename"} : phase' = [phase EXCEPT ![w] = q]
      /\ durable' \in {durable, {target}}
      /\ hardened' \in {hardened, hardened \cup {ver[w]}}
  BY StepTable DEF SyncDir, Feed, TypeOK
<1>2. PICK q \in {"Success", "AfterRename"} : phase' = [phase EXCEPT ![w] = q]
  BY <1>1
<1>3. q \in Phase
  BY DEF Phase, WriteClass
<1>4. TypeOK'
  <2>1. durable' \subseteq Slot /\ hardened' \subseteq Version
    BY <1>1 DEF TypeOK
  <2>2. phase' \in [Writer -> Phase]
    BY <1>2, <1>3 DEF TypeOK
  <2> QED BY <1>1, <2>1, <2>2 DEF TypeOK, procs
<1>5. /\ AttemptsLeft' /\ VersionsDistinct' /\ TempsDrawn' /\ TempsKept'
      /\ TempsOwn' /\ PhaseTellsRename'
  BY <1>1, <1>2, <1>3, MoveIndInv DEF procs
<1>6. CrashAtomic' /\ ClassificationSound'
  BY <1>1 DEF CrashAtomic, ClassificationSound
<1> QED BY <1>4, <1>5, <1>6

\* A name freed by a rename or a removal was nobody else's: another owner of
\* it would have found there a file of its own.
LEMMA FreedIndInv ==
    ASSUME IndInv, NEW n \in Name,
           files' \in {files, [files EXCEPT ![n] = NoFile]},
           ~Ages => \A u \in Writer : OwnsTemp(u)' => files'[temp[u]] # NoFile,
           \A u \in Writer : OwnsTemp(u)' => OwnsTemp(u),
           \A u \in Writer :
               OwnsTemp(u)' => phase'[u] \in {phase[u], "RemoveTemp"},
           UNCHANGED <<stale, launch, counter, ver, temp>>,
           \A p \in Process : doomed'[p] = NoName \/ doomed'[p] = doomed[p]
    PROVE  TempsDrawn' /\ TempsKept' /\ TempsOwn'
<1> USE DEF IndInv
<1>1. \A u \in Writer : OwnsTemp(u)' /\ files'[temp[u]] # NoFile =>
          files'[temp[u]] = files[temp[u]]
  BY DEF TempsDrawn, TypeOK
<1>2. TempsDrawn' /\ TempsKept'
  BY DEF TempsDrawn, TempsKept, Distinct
<1>3. TempsOwn'
  BY <1>1 DEF TempsOwn
<1> QED BY <1>2, <1>3

\* Two writers never own the same file.
LEMMA OwnersDiffer ==
    ASSUME IndInv, NEW u \in Writer, NEW w \in Writer, u # w,
           OwnsTemp(u), OwnsTemp(w), files[temp[u]] # NoFile
    PROVE  temp[u] # temp[w]
BY DEF IndInv, TempsOwn, VersionsDistinct, OwnsTemp

\* A rename installs the whole, synced file its writer owns and frees its name.
LEMMA RenameIndInv ==
    ASSUME IndInv, NEW w \in Writer, Rename(w)
    PROVE  IndInv'
<1> USE DEF IndInv
<1>1. /\ phase[w] = "Rename" /\ OwnsTemp(w) /\ temp[w] \in Name
      /\ ver[w] \in Version /\ ver[w] # 0 /\ ver[w] <= issued
      /\ report[ver[w]] = "None"
      /\ UNCHANGED <<stale, procs, attempts, ver, source, plan, temp, issued,
                     crashes, hardened, report>>
  BY DEF Rename, OwnsTemp, TempsDrawn, VersionsDistinct, TypeOK, PhaseTellsRename
<1>2. CASE /\ files[temp[w]] # NoFile
           /\ phase' = [phase EXCEPT ![w] = "SyncDir"]
           /\ target' = files[temp[w]]
           /\ durable' = durable \cup {target'}
           /\ files' = [files EXCEPT ![temp[w]] = NoFile]
           /\ rank' = [rank EXCEPT ![ver[w]] = Renames + 1]
  <2>1. TypeOK'
    <3>1. target' \in Slot /\ durable' \subseteq Slot /\ files' \in [Name -> Slot]
      BY <1>1, <1>2 DEF TypeOK, Slot
    <3>2. phase' \in [Writer -> Phase]
      BY <1>2 DEF TypeOK, Phase, WriteAction
    <3>3. rank' \in [Version -> Nat]
      BY <1>1, <1>2, RenamesIsNat DEF TypeOK
    <3> QED BY <1>1, <3>1, <3>2, <3>3 DEF TypeOK, procs
  <2>2. AttemptsLeft' /\ VersionsDistinct'
    BY <1>1, <1>2 DEF AttemptsLeft, VersionsDistinct, TypeOK
  <2>3. TempsDrawn' /\ TempsKept' /\ TempsOwn'
    <3>1. \A u \in Writer :
              OwnsTemp(u)' => u # w /\ OwnsTemp(u) /\ phase'[u] = phase[u]
      BY <1>2 DEF OwnsTemp, TypeOK
    <3>2. ~Ages => \A u \in Writer : OwnsTemp(u)' => files'[temp[u]] # NoFile
      <4> SUFFICES ASSUME ~Ages, NEW u \in Writer, OwnsTemp(u)'
                   PROVE  files'[temp[u]] # NoFile
        OBVIOUS
      <4>1. files[temp[u]] # NoFile /\ temp[u] # temp[w] /\ temp[u] \in Name
        BY <1>1, <3>1, OwnersDiffer DEF TempsKept, TempsDrawn
      <4> QED BY <4>1, <1>1, <1>2 DEF TypeOK
    <3> QED BY <1>1, <1>2, <3>1, <3>2, FreedIndInv DEF procs
  <2>4. PhaseTellsRename'
    <3>1. Renames + 1 # 0
      BY RenamesIsNat
    <3>2. \A v \in Version : v # ver[w] => rank'[v] = rank[v]
      BY <1>2 DEF TypeOK
    <3>3. rank'[ver[w]] # 0
      BY <1>1, <1>2, <3>1 DEF TypeOK
    <3>4. \A u \in Writer : u # w /\ phase[u] # "Idle" => ver[u] # ver[w]
      BY DEF VersionsDistinct
    <3>5. phase'[w] = "SyncDir" /\ \A u \in Writer : u # w => phase'[u] = phase[u]
      BY <1>2 DEF TypeOK
    <3>6. \A v \in Version : v > issued => v # ver[w]
      BY <1>1, ConstantsAssumption DEF Version, TypeOK
    <3>7. \A v \in Version : v > issued' => rank'[v] = 0 /\ report'[v] = "None"
      BY <1>1, <3>2, <3>6 DEF PhaseTellsRename
    <3>8. ASSUME NEW u \in Writer, phase'[u] # "Idle"
          PROVE  /\ report'[ver'[u]] = "None"
                 /\ rank'[ver'[u]] # 0 <=>
                        phase'[u] \in {"SyncDir", "Success", "AfterRename"}
      <4>1. CASE u = w
        BY <4>1, <1>1, <3>3, <3>5
      <4>2. CASE u # w
        BY <4>2, <3>8, <1>1, <3>2, <3>4, <3>5 DEF PhaseTellsRename, TypeOK
      <4> QED BY <4>1, <4>2
    <3> QED BY <3>7, <3>8 DEF PhaseTellsRename
  <2>5. CrashAtomic'
    BY <1>1, <1>2 DEF CrashAtomic, Intact, TempsOwn
  <2>6. ClassificationSound'
    <3>1. \A v \in Version : report[v] # "None" => rank'[v] = rank[v]
      BY <1>1, <1>2 DEF TypeOK
    <3> QED BY <1>1, <3>1 DEF ClassificationSound
  <2> QED BY <2>1, <2>2, <2>3, <2>4, <2>5, <2>6
<1>3. CASE /\ phase' = [phase EXCEPT ![w] = "RemoveTemp"]
           /\ UNCHANGED <<target, durable, files, rank>>
  <2>1. TypeOK'
    BY <1>1, <1>3 DEF TypeOK, Phase, WriteAction, procs
  <2>2. AttemptsLeft' /\ VersionsDistinct'
    BY <1>1, <1>3 DEF AttemptsLeft, VersionsDistinct, TypeOK
  <2>3. TempsDrawn' /\ TempsKept' /\ TempsOwn'
    BY <1>1, <1>3 DEF TempsDrawn, TempsKept, TempsOwn, OwnsTemp, TypeOK, procs,
                      Distinct
  <2>4. PhaseTellsRename' /\ CrashAtomic' /\ ClassificationSound'
    BY <1>1, <1>3 DEF PhaseTellsRename, CrashAtomic, ClassificationSound, TypeOK
  <2> QED BY <2>1, <2>2, <2>3, <2>4
<1> QED BY <1>1, <1>2, <1>3, StepTable DEF Rename, Feed, TypeOK

\* Removing the temp file of a failed write frees a name only its writer owned.
LEMMA RemoveTempIndInv ==
    ASSUME IndInv, NEW w \in Writer, RemoveTemp(w)
    PROVE  IndInv'
<1> USE DEF IndInv
<1>1. /\ phase[w] = "RemoveTemp" /\ OwnsTemp(w) /\ temp[w] \in Name
      /\ phase' = [phase EXCEPT ![w] = "BeforeRename"]
      /\ files' \in {files, [files EXCEPT ![temp[w]] = NoFile]}
      /\ UNCHANGED <<target, durable, stale, procs, attempts, ver, source, plan,
                     temp, observed>>
  <2>1. /\ phase[w] = "RemoveTemp" /\ Feed(w, "Done")
        /\ files' \in {files, [files EXCEPT ![temp[w]] = NoFile]}
        /\ UNCHANGED <<target, durable, stale, procs, attempts, ver, source,
                       plan, temp, observed>>
    BY DEF RemoveTemp
  <2>2. OwnsTemp(w) /\ temp[w] \in Name
    BY <2>1 DEF OwnsTemp, TempsDrawn
  <2>3. NextAction("RemoveTemp", attempts[w], "Done") = "BeforeRename"
    BY StepTable, ConstantsAssumption DEF TypeOK
  <2>4. phase' = [phase EXCEPT ![w] = "BeforeRename"]
    BY <2>1, <2>3 DEF Feed, TypeOK
  <2> QED BY <2>1, <2>2, <2>4
<1>2. TypeOK'
  <2>1. files' \in [Name -> Slot]
    BY <1>1 DEF TypeOK, Slot
  <2>2. phase' \in [Writer -> Phase]
    BY <1>1 DEF TypeOK, Phase, WriteClass
  <2> QED BY <1>1, <2>1, <2>2 DEF TypeOK, procs, observed
<1>3. AttemptsLeft' /\ VersionsDistinct'
  BY <1>1 DEF AttemptsLeft, VersionsDistinct, TypeOK, observed
<1>4. TempsDrawn' /\ TempsKept' /\ TempsOwn'
  <2>1. \A u \in Writer :
            OwnsTemp(u)' => u # w /\ OwnsTemp(u) /\ phase'[u] = phase[u]
    BY <1>1 DEF OwnsTemp, TypeOK
  <2>2. ~Ages => \A u \in Writer : OwnsTemp(u)' => files'[temp[u]] # NoFile
    <3> SUFFICES ASSUME ~Ages, NEW u \in Writer, OwnsTemp(u)'
                 PROVE  files'[temp[u]] # NoFile
      OBVIOUS
    <3>1. files[temp[u]] # NoFile /\ temp[u] # temp[w] /\ temp[u] \in Name
      BY <1>1, <2>1, OwnersDiffer DEF TempsKept, TempsDrawn
    <3> QED BY <3>1, <1>1 DEF TypeOK
  <2> QED BY <1>1, <2>1, <2>2, FreedIndInv DEF procs
<1>5. PhaseTellsRename' /\ CrashAtomic' /\ ClassificationSound'
  BY <1>1 DEF PhaseTellsRename, CrashAtomic, ClassificationSound, TypeOK, observed
<1> QED BY <1>2, <1>3, <1>4, <1>5

\* The sweep acts only where every launch has an identity of its own, so a name
\* it frees is never drawn by another writer.
LEMMA SweepIndInv ==
    ASSUME IndInv,
           (\E p \in Process, n \in Name : SweepCheck(p, n))
           \/ (\E p \in Process : SweepRemove(p))
           \/ (\E n \in Name : Age(n))
    PROVE  IndInv'
<1> USE DEF IndInv
<1>1. ASSUME NEW p \in Process, NEW n \in Name, SweepCheck(p, n)
      PROVE  IndInv'
  <2>1. /\ n \in stale /\ doomed' = [doomed EXCEPT ![p] = n]
        /\ UNCHANGED <<disk, launch, counter, guard, writers, observed>>
    BY <1>1 DEF SweepCheck, Sweepable
  <2>2. TypeOK'
    BY <2>1 DEF TypeOK, disk, writers, observed
  <2>3. TempsKept' /\ TempsDrawn' /\ TempsOwn'
    BY <2>1 DEF TempsKept, TempsDrawn, TempsOwn, OwnsTemp, disk, writers, Distinct
  <2>4. /\ AttemptsLeft' /\ VersionsDistinct' /\ PhaseTellsRename'
        /\ CrashAtomic' /\ ClassificationSound'
    BY <2>1 DEF AttemptsLeft, VersionsDistinct, PhaseTellsRename, CrashAtomic,
                ClassificationSound, disk, writers, observed
  <2> QED BY <2>2, <2>3, <2>4
<1>2. ASSUME NEW p \in Process, SweepRemove(p)
      PROVE  IndInv'
  <2>1. /\ doomed[p] \in Name /\ Ages
        /\ files' \in {files, [files EXCEPT ![doomed[p]] = NoFile]}
        /\ doomed' = [doomed EXCEPT ![p] = NoName]
        /\ UNCHANGED <<target, durable, stale, launch, counter, guard, writers,
                       observed>>
    BY <1>2 DEF SweepRemove, TypeOK, TempsKept
  <2>2. TypeOK'
    <3>1. files' \in [Name -> Slot]
      BY <2>1 DEF TypeOK, Slot
    <3>2. doomed' \in [Process -> {NoName} \cup Name]
      BY <2>1 DEF TypeOK
    <3> QED BY <2>1, <3>1, <3>2 DEF TypeOK, writers, observed
  <2>3. TempsDrawn' /\ TempsKept' /\ TempsOwn'
    <3>1. \A q \in Process : doomed'[q] = NoName \/ doomed'[q] = doomed[q]
      BY <2>1 DEF TypeOK
    <3>2. \A u \in Writer : (OwnsTemp(u)' <=> OwnsTemp(u)) /\ phase'[u] = phase[u]
      BY <2>1 DEF OwnsTemp, writers
    <3> QED BY <2>1, <3>1, <3>2, FreedIndInv DEF writers
  <2>4. /\ AttemptsLeft' /\ VersionsDistinct' /\ PhaseTellsRename'
        /\ CrashAtomic' /\ ClassificationSound'
    BY <2>1 DEF AttemptsLeft, VersionsDistinct, PhaseTellsRename, CrashAtomic,
                ClassificationSound, writers, observed
  <2> QED BY <2>2, <2>3, <2>4
<1>3. ASSUME NEW n \in Name, Age(n)
      PROVE  IndInv'
  BY <1>3 DEF Age, TypeOK, AttemptsLeft, VersionsDistinct, TempsDrawn, TempsKept,
              TempsOwn, PhaseTellsRename, CrashAtomic, ClassificationSound,
              OwnsTemp, Distinct, procs, writers, observed
<1> QED BY <1>1, <1>2, <1>3

\* The three calls on the open temp file: what each leaves is what the next
\* phase needs.
LEMMA OpenTempIndInv ==
    ASSUME IndInv, NEW w \in Writer,
           WriteContent(w) \/ ApplyMetadata(w) \/ SyncTemp(w)
    PROVE  IndInv'
<1> USE DEF IndInv
<1>1. attempts[w] \in Nat /\ temp[w] \in {NoName} \cup Name
  BY ConstantsAssumption DEF TypeOK
<1>2. ASSUME phase[w] \in {"WriteContent", "ApplyMetadata", "SyncTemp"}, Reaches(w)
      PROVE  /\ temp[w] \in Name
             /\ files[temp[w]] \in File
             /\ files[temp[w]].ver = ver[w]
             /\ phase[w] # "WriteContent" => files[temp[w]].whole
  <2>1. OwnsTemp(w) /\ temp[w] \in Name /\ files[temp[w]] # NoFile
    BY <1>2 DEF OwnsTemp, TempsDrawn, Reaches
  <2> QED BY <1>2, <2>1 DEF TempsOwn, TypeOK, Slot, Reaches
<1>3. CASE WriteContent(w)
  <2> DEFINE f == [files[temp[w]] EXCEPT !.whole = TRUE, !.synced = FALSE]
  <2>1. phase[w] = "WriteContent" /\ OnTemp(w, f) /\ stale' \subseteq stale
    BY <1>3 DEF WriteContent
  <2>2. Reaches(w) => f \in File /\ f.ver = ver[w] /\ f.whole
    BY <2>1, <1>2 DEF File
  <2>3. /\ NextAction("WriteContent", attempts[w], "Done") = "ApplyMetadata"
        /\ NextAction("WriteContent", attempts[w], "Failed") = "RemoveTemp"
    BY <1>1, StepTable
  <2> HIDE DEF f
  <2> QED BY <2>1, <2>2, <2>3, OnTempIndInv
<1>4. CASE ApplyMetadata(w)
  <2> DEFINE f == [files[temp[w]] EXCEPT !.mode = AppliedMode(w, @),
                                         !.synced = FALSE]
  <2>1. phase[w] = "ApplyMetadata" /\ OnTemp(w, f) /\ stale' \subseteq stale
    BY <1>4 DEF ApplyMetadata
  <2>2. Reaches(w) => f \in File /\ f.ver = ver[w] /\ f.whole
    <3> SUFFICES ASSUME Reaches(w) PROVE f \in File /\ f.ver = ver[w] /\ f.whole
      OBVIOUS
    <3>1. /\ files[temp[w]] \in File /\ files[temp[w]].ver = ver[w]
          /\ files[temp[w]].whole
      BY <2>1, <1>2
    <3>2. AppliedMode(w, files[temp[w]].mode) \in Mode
      BY <3>1 DEF AppliedMode, File, Mode, TypeOK
    <3> QED BY <3>1, <3>2 DEF File, Mode
  <2>3. /\ NextAction("ApplyMetadata", attempts[w], "Done") = "SyncTemp"
        /\ NextAction("ApplyMetadata", attempts[w], "Failed") = "RemoveTemp"
    BY <1>1, StepTable
  <2> HIDE DEF f
  <2> QED BY <2>1, <2>2, <2>3, OnTempIndInv
<1>5. CASE SyncTemp(w)
  <2> DEFINE f == [files[temp[w]] EXCEPT !.synced = TRUE]
  <2>1. phase[w] = "SyncTemp" /\ OnTemp(w, f) /\ stale' \subseteq stale
    BY <1>5 DEF SyncTemp
  <2>2. Reaches(w) => f \in File /\ f.ver = ver[w] /\ f.whole /\ f.synced
    BY <2>1, <1>2 DEF File
  <2>3. /\ NextAction("SyncTemp", attempts[w], "Done") = "Rename"
        /\ NextAction("SyncTemp", attempts[w], "Failed") = "RemoveTemp"
    BY <1>1, StepTable
  <2> HIDE DEF f
  <2> QED BY <2>1, <2>2, <2>3, OnTempIndInv
<1> QED BY <1>3, <1>4, <1>5

\* Every step keeps the inductive invariant.
LEMMA NextIndInv == IndInv /\ [Next]_vars => IndInv'
<1> SUFFICES ASSUME IndInv, [Next]_vars PROVE IndInv'
  OBVIOUS
<1>1. ASSUME NEW w \in Writer, NEW s \in Sources, Request(w, s) PROVE IndInv'
  BY <1>1, RequestIndInv
<1>2. ASSUME NEW w \in Writer, Write(w) PROVE IndInv'
  <2>1. CASE Acquire(w)
    BY <2>1, AcquireIndInv
  <2>2. CASE ProbeMetadata(w)
    BY <2>2, ProbeMetadataIndInv
  <2>3. CASE CreateTemp(w)
    BY <2>3, CreateTempIndInv
  <2>4. CASE WriteContent(w) \/ ApplyMetadata(w) \/ SyncTemp(w)
    BY <2>4, OpenTempIndInv
  <2>5. CASE Rename(w)
    BY <2>5, RenameIndInv
  <2>6. CASE SyncDir(w)
    BY <2>6, SyncDirIndInv
  <2>7. CASE RemoveTemp(w)
    BY <2>7, RemoveTempIndInv
  <2>8. CASE Finish(w)
    BY <2>8, FinishIndInv
  <2> QED BY <1>2, <2>1, <2>2, <2>3, <2>4, <2>5, <2>6, <2>7, <2>8 DEF Write
<1>3. CASE \/ \E p \in Process, n \in Name : SweepCheck(p, n)
           \/ \E p \in Process : SweepRemove(p)
           \/ \E n \in Name : Age(n)
  BY <1>3, SweepIndInv
<1>4. ASSUME NEW p \in Process, Kill(p) PROVE IndInv'
  BY <1>4, KillIndInv
<1>5. CASE PowerLoss
  BY <1>5, PowerLossIndInv
<1>6. CASE UNCHANGED vars
  BY <1>6 DEF vars, disk, procs, writers, observed, IndInv, TypeOK, AttemptsLeft,
              VersionsDistinct, TempsDrawn, TempsKept, TempsOwn,
              PhaseTellsRename, CrashAtomic, ClassificationSound, OwnsTemp,
              Distinct
<1> QED BY <1>1, <1>2, <1>3, <1>4, <1>5, <1>6 DEF Next, Quiescent

\* The inductive invariant holds of every behaviour.
THEOREM Inductive == Spec => []IndInv
BY InitIndInv, NextIndInv, PTL DEF Spec

\* Every variable keeps its type, through every interleaving and crash.
THEOREM TypeCorrect == Spec => []TypeOK
<1>1. IndInv => TypeOK
  BY DEF IndInv
<1> QED BY Inductive, <1>1, PTL

\* Whatever races and wherever a kill or a power loss strikes, the destination
\* is the old or a whole new file, and stays so through the next power loss.
THEOREM NeverTorn == Spec => []CrashAtomic
<1>1. IndInv => CrashAtomic
  BY DEF IndInv
<1> QED BY Inductive, <1>1, PTL

\* BeforeRename means the new bytes never were the destination, AfterRename and
\* Success that they became it.
THEOREM ClassesTrue == Spec => []ClassificationSound
<1>1. IndInv => ClassificationSound
  BY DEF IndInv
<1> QED BY Inductive, <1>1, PTL

-----------------------------------------------------------------------------
(* Permissions, sweep and durability: the invariants beside IndInv.         *)

\* A step of a write touches the locals of no other writer, no other process's
\* guard, and no file but a version of its own.
LEMMA WriteFrame ==
    ASSUME IndInv, NEW w \in Writer, Write(w)
    PROVE  /\ UNCHANGED <<launch, doomed, issued>>
           /\ \A u \in Writer \ {w} :
                  /\ phase'[u] = phase[u] /\ ver'[u] = ver[u] /\ plan'[u] = plan[u]
                  /\ source'[u] = source[u] /\ temp'[u] = temp[u]
           /\ \A n \in Name : files'[n] # files[n] =>
                  files'[n] = NoFile \/ files'[n].ver = ver[w]
           /\ phase[w] # "Rename" => target' = target
<1> USE DEF IndInv, TypeOK, disk, procs, observed
<1>0. temp[w] \in {NoName} \cup Name
  OBVIOUS
<1>1. CASE Acquire(w)
  BY <1>1 DEF Acquire
<1>2. CASE ProbeMetadata(w)
  BY <1>2 DEF ProbeMetadata, Feed
<1>3. CASE CreateTemp(w)
  BY <1>3 DEF CreateTemp, Feed
<1>4. CASE WriteContent(w) \/ ApplyMetadata(w) \/ SyncTemp(w)
  <2>1. Reaches(w) => /\ temp[w] \in Name /\ files[temp[w]] \in File
                      /\ files[temp[w]].ver = ver[w]
    BY <1>4 DEF WriteContent, ApplyMetadata, SyncTemp, TempsDrawn, OwnsTemp,
                Reaches, Slot
  <2>2. \E f : OnTemp(w, f) /\ (Reaches(w) => f.ver = ver[w])
    <3>1. CASE WriteContent(w)
      <4> DEFINE f == [files[temp[w]] EXCEPT !.whole = TRUE, !.synced = FALSE]
      <4>1. OnTemp(w, f) /\ (Reaches(w) => f.ver = ver[w])
        BY <2>1, <3>1 DEF WriteContent, File
      <4> QED BY <4>1
    <3>2. CASE ApplyMetadata(w)
      <4> DEFINE f == [files[temp[w]] EXCEPT !.mode = AppliedMode(w, @),
                                             !.synced = FALSE]
      <4>1. OnTemp(w, f) /\ (Reaches(w) => f.ver = ver[w])
        BY <2>1, <3>2 DEF ApplyMetadata, File
      <4> QED BY <4>1
    <3>3. CASE SyncTemp(w)
      <4> DEFINE f == [files[temp[w]] EXCEPT !.synced = TRUE]
      <4>1. OnTemp(w, f) /\ (Reaches(w) => f.ver = ver[w])
        BY <2>1, <3>3 DEF SyncTemp, File
      <4> QED BY <4>1
    <3> QED BY <1>4, <3>1, <3>2, <3>3
  <2>3. PICK f : OnTemp(w, f) /\ (Reaches(w) => f.ver = ver[w])
    BY <2>2
  <2> QED BY <2>1, <2>3 DEF OnTemp, Feed
<1>5. CASE Rename(w)
  BY <1>5 DEF Rename, Feed
<1>6. CASE SyncDir(w)
  BY <1>6 DEF SyncDir, Feed
<1>7. CASE RemoveTemp(w)
  BY <1>7 DEF RemoveTemp, Feed
<1>8. CASE Finish(w)
  BY <1>8 DEF Finish, Drop, WriteClass
<1> QED BY <1>1, <1>2, <1>3, <1>4, <1>5, <1>6, <1>7, <1>8 DEF Write

\* A restart ends the writes of the dead processes and touches no other write.
LEMMA RestartFrame ==
    ASSUME IndInv, NEW dead \in SUBSET Process, Restart(dead)
    PROVE  /\ UNCHANGED <<issued, hardened>>
           /\ \A u \in Writer : Home[u] \in dead => phase'[u] = "Idle"
           /\ \A u \in Writer : Home[u] \notin dead =>
                  /\ phase'[u] = phase[u] /\ ver'[u] = ver[u] /\ plan'[u] = plan[u]
                  /\ source'[u] = source[u] /\ temp'[u] = temp[u]
           /\ \A q \in Process \ dead :
                  launch'[q] = launch[q] /\ guard'[q] = guard[q] /\ doomed'[q] = doomed[q]
           /\ \A q \in dead : doomed'[q] = NoName
BY DEF Restart, Drop, IndInv, TypeOK

\* What the sweep and time change: files that go, and the sweeps' candidates.
LEMMA SweepFrame ==
    ASSUME \/ \E p \in Process, n \in Name : SweepCheck(p, n)
           \/ \E p \in Process : SweepRemove(p)
           \/ \E n \in Name : Age(n),
           IndInv
    PROVE  /\ UNCHANGED <<target, durable, launch, guard, writers, observed>>
           /\ \A n \in Name : files'[n] # files[n] => files'[n] = NoFile
BY DEF SweepCheck, SweepRemove, Age, disk, procs, IndInv, TypeOK

\* Every step is of one of five sorts.
LEMMA StepSorts ==
    ASSUME [Next]_vars
    PROVE  \/ \E w \in Writer, s \in Sources : Request(w, s)
           \/ \E w \in Writer : Write(w)
           \/ \/ \E p \in Process, n \in Name : SweepCheck(p, n)
              \/ \E p \in Process : SweepRemove(p)
              \/ \E n \in Name : Age(n)
           \/ \E dead \in SUBSET Process :
                  Restart(dead) /\ (UNCHANGED disk \/ (PowerLoss /\ dead = Process))
           \/ UNCHANGED vars
<1> DEFINE Restarts == \E dead \in SUBSET Process :
                           Restart(dead) /\ (UNCHANGED disk \/ (PowerLoss /\ dead = Process))
<1>1. ASSUME NEW p \in Process, Kill(p) PROVE Restarts
  <2>1. {p} \in SUBSET Process /\ Restart({p}) /\ UNCHANGED disk
    BY <1>1 DEF Kill
  <2> WITNESS {p} \in SUBSET Process
  <2> QED BY <2>1
<1>2. ASSUME PowerLoss PROVE Restarts
  <2>1. Process \in SUBSET Process /\ Restart(Process)
    BY <1>2 DEF PowerLoss
  <2> QED BY <1>2, <2>1
<1> HIDE DEF Restarts
<1>3. CASE \E p \in Process : Kill(p)
  BY <1>1, <1>3 DEF Restarts
<1>4. CASE PowerLoss
  BY <1>2, <1>4 DEF Restarts
<1>5. CASE Quiescent
  BY <1>5 DEF Quiescent
<1> QED BY <1>3, <1>4, <1>5 DEF Next

\* A sweep checks the identity of its own launch, and a relaunch forgets it.
LEMMA DoomedForeignStep ==
    ASSUME IndInv, DoomedForeign, [Next]_vars
    PROVE  DoomedForeign'
<1> USE DEF DoomedForeign
<1>1. CASE \E w \in Writer, s \in Sources : Request(w, s)
  BY <1>1 DEF Request, procs
<1>2. CASE \E w \in Writer : Write(w)
  BY <1>2, WriteFrame
<1>3. CASE \E p \in Process, n \in Name : SweepCheck(p, n)
  BY <1>3 DEF SweepCheck, Sweepable, IndInv, TypeOK
<1>4. CASE \E p \in Process : SweepRemove(p)
  BY <1>4 DEF SweepRemove, IndInv, TypeOK
<1>5. CASE \E n \in Name : Age(n)
  BY <1>5 DEF Age, procs
<1>6. CASE \E dead \in SUBSET Process : Restart(dead)
  BY <1>6, RestartFrame
<1>7. CASE UNCHANGED vars
  BY <1>7 DEF vars, procs
<1> QED BY <1>1, <1>2, <1>3, <1>4, <1>5, <1>6, <1>7, StepSorts

\* The guard of a process changes hands only when it is free, and is dropped by
\* its holder or with its process.
LEMMA GuardHeldStep ==
    ASSUME IndInv, GuardHeld, [Next]_vars
    PROVE  GuardHeld'
<1> USE ConstantsAssumption DEF GuardHeld, InWrite
<1>1. CASE \E w \in Writer, s \in Sources : Request(w, s)
  BY <1>1 DEF Request, procs, IndInv, TypeOK, WriteAction, WriteClass
<1>2. ASSUME NEW w \in Writer, Write(w) PROVE GuardHeld'
  <2>1. \A u \in Writer \ {w} : phase'[u] = phase[u]
    BY <1>2, WriteFrame
  <2>2. CASE Acquire(w)
    <3>1. \A u \in Writer : InWrite(u) => Home[u] # Home[w]
      BY <2>2, SentinelsAssumption DEF Acquire, MayEnter
    <3> QED BY <2>1, <2>2, <3>1 DEF Acquire, IndInv, TypeOK
  <2>3. CASE Finish(w)
    <3>1. phase'[w] = "Idle" /\ guard' = [guard EXCEPT ![Home[w]] = NoWriter]
      BY <2>3 DEF Finish, Drop, Released
    <3>2. \A u \in Writer \ {w} : InWrite(u) => Home[u] # Home[w]
      BY <2>3 DEF Finish
    <3> QED BY <2>1, <3>1, <3>2 DEF IndInv, TypeOK, WriteAction, WriteClass
  <2>4. CASE ~Acquire(w) /\ ~Finish(w)
    <3>1. InWrite(w) /\ guard' = guard
      BY <1>2, <2>4 DEF Write, ProbeMetadata, CreateTemp, WriteContent,
           ApplyMetadata, SyncTemp, OnTemp, Rename, SyncDir, RemoveTemp, procs,
           WriteAction
    <3> QED BY <2>1, <3>1
  <2> QED BY <2>2, <2>3, <2>4
<1>3. CASE \/ \E p \in Process, n \in Name : SweepCheck(p, n)
           \/ \E p \in Process : SweepRemove(p)
           \/ \E n \in Name : Age(n)
  BY <1>3, SweepFrame DEF writers
<1>4. CASE \E dead \in SUBSET Process : Restart(dead)
  BY <1>4, RestartFrame DEF WriteAction, WriteClass
<1>5. CASE UNCHANGED vars
  BY <1>5 DEF vars, procs, writers
<1> QED BY <1>1, <1>2, <1>3, <1>4, <1>5, StepSorts

\* A write is hardened by the directory sync that lets it report Success.
LEMMA PhaseTellsHardenedStep ==
    ASSUME IndInv, PhaseTellsHardened, [Next]_vars
    PROVE  PhaseTellsHardened'
<1> USE DEF PhaseTellsHardened
<1>1. ASSUME NEW w \in Writer, NEW s \in Sources, Request(w, s)
      PROVE  PhaseTellsHardened'
  <2>1. issued \in Nat /\ issued + 1 \in Version /\ issued' = issued + 1
    BY <1>1, ConstantsAssumption DEF Request, IndInv, TypeOK, Version
  <2>2. \A v \in Version : v > issued + 1 => v > issued
    BY <2>1, ConstantsAssumption DEF Version
  <2>3. issued + 1 \notin hardened /\ hardened' = hardened
    BY <1>1, <2>1 DEF Request
  <2>4. \A u \in Writer : IF u = w THEN phase'[u] = "Waiting" /\ ver'[u] = issued + 1
                          ELSE phase'[u] = phase[u] /\ ver'[u] = ver[u]
    BY <1>1 DEF Request, IndInv, TypeOK
  <2> QED BY <2>1, <2>2, <2>3, <2>4
<1>2. ASSUME NEW w \in Writer, Write(w) PROVE PhaseTellsHardened'
  <2>1. /\ issued' = issued
        /\ \A u \in Writer \ {w} : phase'[u] = phase[u] /\ ver'[u] = ver[u]
    BY <1>2, WriteFrame
  <2>2. CASE Finish(w)
    <3>1. hardened' = hardened /\ phase'[w] = "Idle"
      BY <2>2 DEF Finish, Drop
    <3> QED BY <2>1, <3>1
  <2>3. CASE SyncDir(w)
    <3>1. /\ phase[w] = "SyncDir" /\ ver' = ver
          /\ \/ hardened' = hardened \cup {ver[w]} /\ phase'[w] = "Success"
             \/ hardened' = hardened /\ phase'[w] = "AfterRename"
      BY <2>3, StepTable DEF SyncDir, Feed, IndInv, TypeOK
    <3>2. \A u \in Writer \ {w} : phase[u] # "Idle" => ver[u] # ver[w]
      BY DEF IndInv, VersionsDistinct
    <3>3. ver[w] \in 0..issued /\ issued \in Nat
      BY ConstantsAssumption DEF IndInv, VersionsDistinct, TypeOK, Version
    <3> QED BY <2>1, <3>1, <3>2, <3>3, ConstantsAssumption DEF Version
  <2>4. CASE ~Finish(w) /\ ~SyncDir(w)
    <3>1. hardened' = hardened /\ ver' = ver
      BY <1>2, <2>4 DEF Write, Acquire, ProbeMetadata, CreateTemp, WriteContent,
           ApplyMetadata, SyncTemp, OnTemp, Rename, RemoveTemp, observed
    <3>2. phase[w] \notin {"Idle", "Success"} /\ phase'[w] # "Success"
      <4> USE StepTable DEF IndInv, TypeOK
      <4>1. attempts[w] \in Nat
        BY ConstantsAssumption
      <4>2. CASE Acquire(w) \/ ProbeMetadata(w) \/ CreateTemp(w)
        BY <4>1, <4>2 DEF Acquire, ProbeMetadata, CreateTemp, Feed
      <4>3. CASE WriteContent(w) \/ ApplyMetadata(w) \/ SyncTemp(w)
        BY <4>1, <4>3 DEF WriteContent, ApplyMetadata, SyncTemp, OnTemp, Feed
      <4>4. CASE Rename(w) \/ RemoveTemp(w)
        BY <4>1, <4>4 DEF Rename, RemoveTemp, Feed
      <4> QED BY <1>2, <2>4, <4>2, <4>3, <4>4 DEF Write
    <3> QED BY <2>1, <3>1, <3>2
  <2> QED BY <2>2, <2>3, <2>4
<1>3. CASE \/ \E p \in Process, n \in Name : SweepCheck(p, n)
           \/ \E p \in Process : SweepRemove(p)
           \/ \E n \in Name : Age(n)
  BY <1>3, SweepFrame DEF writers, observed
<1>4. CASE \E dead \in SUBSET Process : Restart(dead)
  BY <1>4, RestartFrame
<1>5. CASE UNCHANGED vars
  BY <1>5 DEF vars, writers, observed
<1> QED BY <1>1, <1>2, <1>3, <1>4, <1>5, StepSorts

\* What a running write finds in its own temp file after one of its steps.
LEMMA OwnTempNarrow ==
    ASSUME IndInv, TempsNarrow, NEW w \in Writer, Write(w), OwnsTemp(w)',
           files'[temp'[w]] # NoFile, plan'[w] # NoPlan
    PROVE  /\ files'[temp'[w]].mode \subseteq plan'[w]
           /\ phase'[w] \in {"SyncTemp", "Rename"} => files'[temp'[w]].mode = plan'[w]
<1> USE StepTable DEF IndInv, TypeOK
<1>1. attempts[w] \in Nat /\ plan[w] \in {NoPlan} \cup Mode
  BY ConstantsAssumption
<1>2. CASE CreateTemp(w)
  <2>1. /\ phase'[w] = "WriteContent" /\ plan' = plan
        /\ temp'[w] = TempName(w) /\ files'[TempName(w)].mode = CreatedMode(w)
    <3>1. TempName(w) \in Name
      BY <1>2, ConstantsAssumption DEF TempName, Name, CreateTemp
    <3>2. phase'[w] # "WriteContent" => ~OwnsTemp(w)'
      BY <1>1, <1>2 DEF CreateTemp, Feed, OwnsTemp
    <3> QED BY <1>1, <1>2, <3>1, <3>2 DEF CreateTemp, Feed
  <2> QED BY <2>1 DEF CreatedMode
<1>3. CASE WriteContent(w) \/ ApplyMetadata(w) \/ SyncTemp(w)
  <2>1. OwnsTemp(w) /\ temp[w] \in Name /\ temp' = temp /\ plan' = plan
    BY <1>3 DEF WriteContent, ApplyMetadata, SyncTemp, OnTemp, OwnsTemp, TempsDrawn
  <2>2. files[temp[w]] # NoFile
    BY <1>3, <2>1 DEF WriteContent, ApplyMetadata, SyncTemp, OnTemp, Reaches
  <2>3. Reaches(w) /\ files[temp[w]] \in File
    BY <2>1, <2>2 DEF Reaches, TempsOwn, Slot
  <2>4. CASE WriteContent(w)
    <3>1. files'[temp[w]].mode = files[temp[w]].mode
      <4> DEFINE f == [files[temp[w]] EXCEPT !.whole = TRUE, !.synced = FALSE]
      <4>1. OnTemp(w, f) /\ f.mode = files[temp[w]].mode
        BY <2>3, <2>4 DEF WriteContent, File
      <4> HIDE DEF f
      <4> QED BY <2>1, <4>1 DEF OnTemp
    <3>2. phase'[w] \notin {"SyncTemp", "Rename"}
      BY <1>1, <2>4 DEF WriteContent, OnTemp, Feed
    <3> QED BY <2>1, <2>2, <3>1, <3>2 DEF TempsNarrow
  <2>5. CASE ApplyMetadata(w)
    <3>1. \/ files'[temp[w]].mode = plan[w]
          \/ files' = files /\ phase'[w] \notin {"SyncTemp", "Rename"}
      <4> DEFINE f == [files[temp[w]] EXCEPT !.mode = AppliedMode(w, @),
                                             !.synced = FALSE]
      <4>1. /\ OnTemp(w, f) /\ f.mode = AppliedMode(w, files[temp[w]].mode)
            /\ phase[w] = "ApplyMetadata"
        BY <2>3, <2>5 DEF ApplyMetadata, File
      <4>2. plan[w] # NoPlan
        BY <2>1
      <4>3. AppliedMode(w, files[temp[w]].mode) = plan[w]
        BY <4>2 DEF AppliedMode
      <4> HIDE DEF f
      <4> QED BY <1>1, <2>1, <2>3, <4>1, <4>3 DEF OnTemp, Feed
    <3> QED BY <2>1, <2>2, <3>1 DEF TempsNarrow
  <2>6. CASE SyncTemp(w)
    <3>1. files'[temp[w]].mode = files[temp[w]].mode /\ phase[w] = "SyncTemp"
      BY <2>1, <2>3, <2>6 DEF SyncTemp, OnTemp, File
    <3> QED BY <2>1, <2>2, <3>1 DEF TempsNarrow
  <2> QED BY <1>3, <2>4, <2>5, <2>6
<1>4. CASE Rename(w)
  <2>1. OwnsTemp(w) /\ files' = files /\ temp' = temp /\ plan' = plan
        /\ phase'[w] = "RemoveTemp"
    BY <1>1, <1>4 DEF Rename, Feed, OwnsTemp
  <2> QED BY <2>1 DEF TempsNarrow
<1>5. CASE Acquire(w) \/ ProbeMetadata(w) \/ SyncDir(w) \/ RemoveTemp(w) \/ Finish(w)
  <2>1. ~OwnsTemp(w)'
    BY <1>1, <1>5 DEF Acquire, ProbeMetadata, SyncDir, RemoveTemp, Finish, Drop,
                      Feed, OwnsTemp
  <2> QED BY <2>1
<1> QED BY <1>2, <1>3, <1>4, <1>5 DEF Write

\* A temp file is created within its plan, and only its own write changes it.
LEMMA TempsNarrowStep ==
    ASSUME IndInv, IndInv', TempsNarrow, [Next]_vars
    PROVE  TempsNarrow'
<1>1. ASSUME NEW w \in Writer, NEW s \in Sources, Request(w, s) PROVE TempsNarrow'
  <2>1. /\ files' = files /\ temp' = temp /\ plan' = plan /\ ~OwnsTemp(w)'
        /\ \A u \in Writer \ {w} : phase'[u] = phase[u]
    BY <1>1 DEF Request, disk, IndInv, TypeOK, OwnsTemp
  <2> QED BY <2>1 DEF TempsNarrow, OwnsTemp
<1>2. ASSUME NEW w \in Writer, Write(w) PROVE TempsNarrow'
  <2> SUFFICES ASSUME NEW u \in Writer, OwnsTemp(u)', files'[temp'[u]] # NoFile,
                      plan'[u] # NoPlan
               PROVE  /\ files'[temp'[u]].mode \subseteq plan'[u]
                      /\ phase'[u] \in {"SyncTemp", "Rename"} =>
                             files'[temp'[u]].mode = plan'[u]
    BY DEF TempsNarrow
  <2>1. CASE u = w
    BY <1>2, <2>1, OwnTempNarrow
  <2>2. CASE u # w
    <3>1. /\ phase'[u] = phase[u] /\ ver'[u] = ver[u] /\ plan'[u] = plan[u]
          /\ temp'[u] = temp[u]
      BY <1>2, <2>2, WriteFrame
    <3>2. OwnsTemp(u) /\ temp[u] \in Name
      BY <3>1 DEF OwnsTemp, IndInv, TempsDrawn
    <3>3. files'[temp[u]].ver = ver[u] /\ ver[u] # ver[w]
      <4>1. files'[temp'[u]].ver = ver'[u]
        BY DEF IndInv, TempsOwn
      <4>2. ver[u] # ver[w]
        BY <2>2, <3>2 DEF IndInv, VersionsDistinct, OwnsTemp
      <4> QED BY <3>1, <4>1, <4>2
    <3>4. files'[temp[u]] = files[temp[u]]
      BY <1>2, <3>1, <3>2, <3>3, WriteFrame
    <3> QED BY <3>1, <3>2, <3>4 DEF TempsNarrow
  <2> QED BY <2>1, <2>2
<1>3. CASE \/ \E p \in Process, n \in Name : SweepCheck(p, n)
           \/ \E p \in Process : SweepRemove(p)
           \/ \E n \in Name : Age(n)
  <2>1. /\ UNCHANGED writers
        /\ \A n \in Name : files'[n] # files[n] => files'[n] = NoFile
    BY <1>3, SweepFrame
  <2>2. \A u \in Writer : OwnsTemp(u)' => OwnsTemp(u) /\ temp[u] \in Name
    BY <2>1 DEF writers, OwnsTemp, IndInv, TempsDrawn
  <2> QED BY <2>1, <2>2 DEF TempsNarrow, writers
<1>4. ASSUME NEW dead \in SUBSET Process,
             Restart(dead) /\ (UNCHANGED disk \/ (PowerLoss /\ dead = Process))
      PROVE  TempsNarrow'
  <2>1. \A u \in Writer : OwnsTemp(u)' => Home[u] \notin dead
    BY <1>4, RestartFrame DEF OwnsTemp
  <2>2. \A u \in Writer : OwnsTemp(u)' => files' = files
    BY <1>4, <2>1, ConstantsAssumption DEF disk
  <2>3. \A u \in Writer : OwnsTemp(u)' => /\ OwnsTemp(u) /\ phase'[u] = phase[u]
                                          /\ temp'[u] = temp[u] /\ plan'[u] = plan[u]
    BY <1>4, <2>1, RestartFrame DEF OwnsTemp
  <2> QED BY <2>2, <2>3 DEF TempsNarrow
<1>5. CASE UNCHANGED vars
  BY <1>5 DEF vars, disk, writers, TempsNarrow, OwnsTemp
<1> QED BY <1>1, <1>2, <1>3, <1>4, <1>5, StepSorts

\* Where one process writes, its guard keeps every other rename away between a
\* probe and the rename that follows it.
LEMMA ProbeHoldsStep ==
    ASSUME IndInv, GuardHeld, ProbeHolds, [Next]_vars
    PROVE  ProbeHolds'
<1> SUFFICES ASSUME \A p, q \in Process : p = q, NEW u \in Writer,
                    phase'[u] \in {"CreateTemp", "WriteContent", "ApplyMetadata",
                                   "SyncTemp", "Rename"},
                    source'[u] = Destination
             PROVE  plan'[u] = IF target' = NoFile THEN NoPlan ELSE target'.mode
  BY DEF ProbeHolds
<1> USE ConstantsAssumption
<1> DEFINE Bound == phase[u] \in {"CreateTemp", "WriteContent", "ApplyMetadata",
                                  "SyncTemp", "Rename"}
           Same == /\ Bound /\ source[u] = Destination
                   /\ plan'[u] = plan[u] /\ target' = target
<1>0. Same => plan'[u] = IF target' = NoFile THEN NoPlan ELSE target'.mode
  BY DEF ProbeHolds
<1> HIDE DEF Same
<1>1. ASSUME NEW w \in Writer, NEW s \in Sources, Request(w, s) PROVE Same
  BY <1>1 DEF Request, disk, IndInv, TypeOK, Same
<1>2. ASSUME NEW w \in Writer, Write(w), u # w PROVE Same
  <2>1. phase'[u] = phase[u] /\ source'[u] = source[u] /\ plan'[u] = plan[u]
    BY <1>2, WriteFrame
  <2>2. phase[w] # "Rename"
    <3>1. InWrite(u) /\ (phase[w] = "Rename" => InWrite(w))
      BY <2>1 DEF InWrite, WriteAction
    <3>2. Home[u] = Home[w]
      OBVIOUS
    <3> QED BY <1>2, <3>1, <3>2 DEF GuardHeld
  <2> QED BY <1>2, <2>1, <2>2, WriteFrame DEF Same
<1>3. ASSUME Write(u), ~ProbeMetadata(u) PROVE Same
  <2> USE StepTable DEF IndInv, TypeOK
  <2>0. attempts[u] \in Nat
    OBVIOUS
  <2>1. CASE CreateTemp(u)
    BY <2>1 DEF CreateTemp, Same
  <2>2. CASE WriteContent(u) \/ ApplyMetadata(u) \/ SyncTemp(u)
    BY <2>2 DEF WriteContent, ApplyMetadata, SyncTemp, OnTemp, Same
  <2>3. CASE Acquire(u) \/ Rename(u) \/ SyncDir(u) \/ RemoveTemp(u) \/ Finish(u)
    <3>1. phase'[u] \notin {"CreateTemp", "WriteContent", "ApplyMetadata",
                            "SyncTemp", "Rename"}
      BY <2>0, <2>3 DEF Acquire, Rename, SyncDir, RemoveTemp, Finish, Drop, Feed
    <3> QED BY <3>1
  <2> QED BY <1>3, <2>1, <2>2, <2>3 DEF Write
<1>4. ASSUME ProbeMetadata(u)
      PROVE  plan'[u] = IF target' = NoFile THEN NoPlan ELSE target'.mode
  <2>1. /\ phase[u] = "ProbeMetadata" /\ source' = source /\ target' = target
        /\ attempts[u] \in Nat
    BY <1>4 DEF ProbeMetadata, disk, IndInv, TypeOK
  <2>2. phase'[u] # "BeforeRename"
    OBVIOUS
  <2>3. plan'[u] = ProbedMode(u)
    BY <1>4, <2>1, <2>2, StepTable DEF ProbeMetadata, Feed, IndInv, TypeOK
  <2> QED BY <2>1, <2>3 DEF ProbedMode
<1>5. CASE \/ \E p \in Process, n \in Name : SweepCheck(p, n)
           \/ \E p \in Process : SweepRemove(p)
           \/ \E n \in Name : Age(n)
  <2>1. Same
    BY <1>5, SweepFrame DEF writers, Same
  <2> QED BY <2>1, <1>0
<1>6. ASSUME NEW dead \in SUBSET Process,
             Restart(dead) /\ (UNCHANGED disk \/ (PowerLoss /\ dead = Process))
      PROVE  Same
  <2>1. Home[u] \notin dead
    BY <1>6, RestartFrame
  <2>2. target' = target
    BY <1>6, <2>1 DEF disk
  <2> QED BY <1>6, <2>1, <2>2, RestartFrame DEF Same
<1>7. CASE UNCHANGED vars
  <2>1. Same
    BY <1>7 DEF vars, disk, writers, Same
  <2> QED BY <2>1, <1>0
<1> HIDE DEF Bound
<1> QED BY <1>0, <1>1, <1>2, <1>3, <1>4, <1>5, <1>6, <1>7, StepSorts

\* A version is given with a request and taken back with the last local.
LEMMA IdleHasNoneStep ==
    ASSUME IndInv, IdleHasNone, [Next]_vars
    PROVE  IdleHasNone'
<1> USE DEF IdleHasNone
<1>1. CASE \E w \in Writer, s \in Sources : Request(w, s)
  BY <1>1 DEF Request, IndInv, TypeOK
<1>2. ASSUME NEW w \in Writer, Write(w) PROVE IdleHasNone'
  <2>1. \A u \in Writer \ {w} : phase'[u] = phase[u] /\ ver'[u] = ver[u]
    BY <1>2, WriteFrame
  <2>2. CASE Finish(w)
    <3>1. ver'[w] = 0
      BY <2>2 DEF Finish, Drop
    <3> QED BY <2>1, <3>1
  <2>3. CASE ~Finish(w)
    <3> USE StepTable DEF IndInv, TypeOK
    <3>1. attempts[w] \in Nat
      BY ConstantsAssumption
    <3>2. CASE Acquire(w) \/ ProbeMetadata(w) \/ CreateTemp(w)
      BY <2>1, <3>1, <3>2 DEF Acquire, ProbeMetadata, CreateTemp, Feed
    <3>3. CASE WriteContent(w) \/ ApplyMetadata(w) \/ SyncTemp(w)
      BY <2>1, <3>1, <3>3 DEF WriteContent, ApplyMetadata, SyncTemp, OnTemp, Feed
    <3>4. CASE Rename(w) \/ SyncDir(w) \/ RemoveTemp(w)
      BY <2>1, <3>1, <3>4 DEF Rename, SyncDir, RemoveTemp, Feed
    <3> QED BY <1>2, <2>3, <3>2, <3>3, <3>4 DEF Write
  <2> QED BY <2>2, <2>3
<1>3. CASE \/ \E p \in Process, n \in Name : SweepCheck(p, n)
           \/ \E p \in Process : SweepRemove(p)
           \/ \E n \in Name : Age(n)
  BY <1>3, SweepFrame DEF writers
<1>4. CASE \E dead \in SUBSET Process : Restart(dead)
  BY <1>4 DEF Restart, Drop
<1>5. CASE UNCHANGED vars
  BY <1>5 DEF vars, writers
<1> QED BY <1>1, <1>2, <1>3, <1>4, <1>5, StepSorts

LEMMA InitFullInv == Init => FullInv
<1> SUFFICES ASSUME Init PROVE FullInv
  OBVIOUS
<1>1. IndInv
  BY InitIndInv
<1>2. \A w \in Writer : phase[w] = "Idle" /\ ver[w] = 0
  BY DEF Init
<1>3. DoomedForeign /\ IdleHasNone
  BY DEF Init, DoomedForeign, IdleHasNone
<1>4. TempsNarrow /\ GuardHeld /\ ProbeHolds
  BY <1>2 DEF TempsNarrow, GuardHeld, ProbeHolds, OwnsTemp, InWrite, WriteAction,
              WriteClass
<1>5. PhaseTellsHardened
  BY <1>2 DEF Init, PhaseTellsHardened
<1> QED BY <1>1, <1>3, <1>4, <1>5 DEF FullInv

LEMMA NextFullInv == FullInv /\ [Next]_vars => FullInv'
<1> SUFFICES ASSUME FullInv, [Next]_vars PROVE FullInv'
  OBVIOUS
<1> USE DEF FullInv
<1>1. IndInv'
  BY NextIndInv
<1>2. DoomedForeign' /\ GuardHeld' /\ PhaseTellsHardened' /\ IdleHasNone'
  BY DoomedForeignStep, GuardHeldStep, PhaseTellsHardenedStep, IdleHasNoneStep
<1>3. TempsNarrow' /\ ProbeHolds'
  BY <1>1, TempsNarrowStep, ProbeHoldsStep
<1> QED BY <1>1, <1>2, <1>3

THEOREM FullyInductive == Spec => []FullInv
BY InitFullInv, NextFullInv, PTL DEF Spec

\* New bytes are never readable by more than the file they replace, at no step
\* of any write, for any permission bits and umask.
THEOREM BytesNeverWider == Spec => []NeverWider
<1>1. FullInv => NeverWider
  BY DEF FullInv, TempsNarrow, NeverWider, Reaches
<1> QED BY FullyInductive, <1>1, PTL

\* No sweep is about to remove a temp file of a write of its own launch,
\* however old the file is.
THEOREM SweepSpares == Spec => []SweepSparesOwnWrites
<1>1. FullInv => SweepSparesOwnWrites
  <2> SUFFICES ASSUME FullInv, NEW w \in Writer, OwnsTemp(w),
                      doomed[Home[w]] = temp[w]
               PROVE  FALSE
    BY DEF SweepSparesOwnWrites
  <2>1. temp[w] \in Name /\ temp[w][1] = launch[Home[w]]
    BY DEF FullInv, IndInv, TempsDrawn
  <2>2. doomed[Home[w]] # NoName /\ Home[w] \in Process
    BY <2>1, SentinelsAssumption, ConstantsAssumption
  <2> QED BY <2>1, <2>2 DEF FullInv, DoomedForeign
<1> QED BY FullyInductive, <1>1, PTL

\* The step that takes a write past its rename is that rename.
LEMMA OnlyRenameInstalls ==
    ASSUME FullInv, [Next]_vars, NEW w \in Writer, phase[w] = "Rename",
           phase'[w] = "SyncDir"
    PROVE  target' = files[temp[w]] /\ files[temp[w]] # NoFile
<1> USE DEF FullInv, IndInv, TypeOK
<1>1. CASE \E u \in Writer, s \in Sources : Request(u, s)
  BY <1>1 DEF Request
<1>2. ASSUME NEW u \in Writer, Write(u)
      PROVE  target' = files[temp[w]] /\ files[temp[w]] # NoFile
  <2>1. u = w
    BY <1>2, WriteFrame
  <2>2. Rename(w)
    BY <1>2, <2>1 DEF Write, Acquire, ProbeMetadata, CreateTemp, WriteContent,
         ApplyMetadata, SyncTemp, SyncDir, RemoveTemp, Finish, WriteClass
  <2>3. attempts[w] \in Nat
    BY ConstantsAssumption
  <2> QED BY <2>2, <2>3, StepTable DEF Rename, Feed
<1>3. CASE \/ \E p \in Process, n \in Name : SweepCheck(p, n)
           \/ \E p \in Process : SweepRemove(p)
           \/ \E n \in Name : Age(n)
  BY <1>3, SweepFrame DEF writers
<1>4. CASE \E dead \in SUBSET Process : Restart(dead)
  BY <1>4, RestartFrame
<1>5. CASE UNCHANGED vars
  BY <1>5 DEF vars, writers
<1> QED BY <1>1, <1>2, <1>3, <1>4, <1>5, StepSorts

\* A rename installs the renaming writer's own, whole bytes, whatever other
\* launches, leftovers of the same name and sweeps did to temp names.
THEOREM RenamesOwnBytes == Spec => InstallsOwnBytes
<1>1. ASSUME FullInv, [Next]_vars, NEW w \in Writer, phase[w] = "Rename",
             phase'[w] = "SyncDir"
      PROVE  target'.ver = ver[w] /\ target'.whole
  BY <1>1, OnlyRenameInstalls DEF FullInv, IndInv, TempsOwn, OwnsTemp
<1>2. FullInv /\ [Next]_vars =>
          [\A w \in Writer : phase[w] = "Rename" /\ phase'[w] = "SyncDir" =>
               target'.ver = ver[w] /\ target'.whole]_vars
  BY <1>1
<1> QED BY FullyInductive, <1>2, PTL DEF Spec, InstallsOwnBytes

\* Where one process writes, a save keeps the permissions of the very file it
\* replaces.
THEOREM PermissionsKept ==
    ASSUME \A p, q \in Process : p = q
    PROVE  Spec => ModePreserved
<1>1. ASSUME FullInv, [Next]_vars, NEW w \in Writer, phase[w] = "Rename",
             phase'[w] = "SyncDir", source[w] = Destination, target # NoFile
      PROVE  target'.mode = target.mode
  <2>1. target' = files[temp[w]] /\ files[temp[w]] # NoFile
    BY <1>1, OnlyRenameInstalls
  <2>2. plan[w] = target.mode
    BY <1>1 DEF FullInv, ProbeHolds
  <2>3. plan[w] # NoPlan
    BY <1>1, <2>2, SentinelsAssumption DEF FullInv, IndInv, TypeOK, Slot, File, Mode
  <2> QED BY <1>1, <2>1, <2>2, <2>3 DEF FullInv, TempsNarrow, OwnsTemp
<1>2. FullInv /\ [Next]_vars =>
          [\A w \in Writer :
               (/\ phase[w] = "Rename" /\ phase'[w] = "SyncDir"
                /\ source[w] = Destination /\ target # NoFile)
               => target'.mode = target.mode]_vars
  BY <1>1
<1> QED BY FullyInductive, <1>2, PTL DEF Spec, ModePreserved

-----------------------------------------------------------------------------
(* The write implements AtomicReplace.                                      *)

\* A step that changes nothing a caller is told is a stutter of the promise.
LEMMA Unseen ==
    ASSUME UNCHANGED <<target, durable, ver, issued, rank, hardened, report>>
    PROVE  UNCHANGED Promise!vars
BY DEF Promise!vars, Seen

\* A step of a running write installs, hardens, ends, or shows nothing.
LEMMA WriteImplements ==
    ASSUME FullInv, NEW w \in Writer, Write(w)
    PROVE  Promise!Next \/ UNCHANGED Promise!vars
<1> USE StepTable DEF FullInv, IndInv, TypeOK
<1>1. attempts[w] \in Nat /\ ver[w] \in Version
  BY ConstantsAssumption
<1>2. CASE Rename(w)
  <2>1. /\ phase[w] = "Rename" /\ ver[w] # 0 /\ rank[ver[w]] = 0
        /\ UNCHANGED <<ver, issued, hardened, report>>
    BY <1>2 DEF Rename, VersionsDistinct, PhaseTellsRename
  <2>2. CASE /\ files[temp[w]] # NoFile /\ target' = files[temp[w]]
             /\ durable' = durable \cup {target'}
             /\ rank' = [rank EXCEPT ![ver[w]] = Renames + 1]
    <3>1. Seen(target') = ver[w]
      BY <2>1, <2>2 DEF TempsOwn, OwnsTemp, Seen
    <3>2. {Seen(s) : s \in durable'} = {Seen(s) : s \in durable} \cup {ver[w]}
      BY <2>2, <3>1
    <3>3. {v \in Version : rank'[v] # 0} = {v \in Version : rank[v] # 0} \cup {ver[w]}
      BY <1>1, <2>2, RenamesIsNat
    <3>4. ver[w] \notin {v \in Version : rank[v] # 0}
      BY <2>1
    <3>5. Promise!Install(w)
      BY <2>1, <3>1, <3>2, <3>3, <3>4 DEF Promise!Install
    <3> QED BY <3>5 DEF Promise!Next
  <2>3. CASE UNCHANGED <<target, durable, files, rank>>
    BY <2>1, <2>3, Unseen
  <2> QED BY <1>2, <2>2, <2>3 DEF Rename
<1>3. CASE SyncDir(w)
  <2>1. /\ phase[w] = "SyncDir" /\ rank[ver[w]] # 0
        /\ UNCHANGED <<target, ver, issued, rank, report>>
    BY <1>3 DEF SyncDir, PhaseTellsRename
  <2>2. CASE durable' = {target} /\ hardened' = hardened \cup {ver[w]}
    <3>1. {Seen(s) : s \in durable'} = {Seen(target)}
      BY <2>2
    <3>2. ver[w] \in {v \in Version : rank[v] # 0}
      BY <1>1, <2>1
    <3>3. Promise!Harden(w)
      BY <2>1, <2>2, <3>1, <3>2 DEF Promise!Harden
    <3> QED BY <3>3 DEF Promise!Next
  <2>3. CASE UNCHANGED <<durable, hardened>>
    BY <2>1, <2>3, Unseen
  <2> QED BY <1>3, <2>2, <2>3 DEF SyncDir
<1>4. CASE Finish(w)
  <2>1. /\ phase[w] \in WriteClass
        /\ UNCHANGED <<target, durable, issued, rank, hardened>>
        /\ report' = [report EXCEPT ![ver[w]] = phase[w]]
        /\ ver' = [ver EXCEPT ![w] = 0]
    BY <1>4 DEF Finish, Drop, disk
  <2>2. /\ ver[w] # 0
        /\ ver[w] \in hardened <=> phase[w] = "Success"
        /\ rank[ver[w]] # 0 <=> phase[w] \in {"SyncDir", "Success", "AfterRename"}
    BY <2>1 DEF WriteClass, VersionsDistinct, PhaseTellsHardened, PhaseTellsRename
  <2>3. Promise!ClassOf(ver[w]) = phase[w]
    BY <1>1, <2>1, <2>2 DEF Promise!ClassOf, WriteClass
  <2>4. Promise!End(w)
    BY <2>1, <2>2, <2>3 DEF Promise!End
  <2> QED BY <2>4 DEF Promise!Next
<1>5. CASE Acquire(w) \/ ProbeMetadata(w) \/ CreateTemp(w) \/ RemoveTemp(w)
  BY <1>5, Unseen DEF Acquire, ProbeMetadata, CreateTemp, RemoveTemp, disk, observed
<1>6. CASE WriteContent(w) \/ ApplyMetadata(w) \/ SyncTemp(w)
  <2>1. UNCHANGED <<target, durable, ver, observed>>
    BY <1>6 DEF WriteContent, ApplyMetadata, SyncTemp, OnTemp
  <2> QED BY <2>1, Unseen DEF observed
<1> QED BY <1>2, <1>3, <1>4, <1>5, <1>6 DEF Write

\* A kill takes its writers' versions away; a power loss also picks what the
\* destination is, which is whole and so what a reader would have been given.
LEMMA RestartImplements ==
    ASSUME FullInv, NEW dead \in SUBSET Process,
           Restart(dead) /\ (UNCHANGED disk \/ (PowerLoss /\ dead = Process))
    PROVE  Promise!Next
<1> USE DEF FullInv, IndInv, TypeOK
<1> DEFINE gone == {w \in Writer : Home[w] \in dead}
<1>1. /\ ver' = [w \in Writer |-> IF w \in gone THEN 0 ELSE ver[w]]
      /\ UNCHANGED <<issued, rank, hardened, report>>
  BY DEF Restart, Drop
<1>2. CASE UNCHANGED disk
  <2>1. Promise!Kill(gone)
    BY <1>1, <1>2 DEF Promise!Kill, disk
  <2>2. gone \in SUBSET Writer
    OBVIOUS
  <2> QED BY <2>1, <2>2 DEF Promise!Next
<1>3. CASE PowerLoss /\ dead = Process
  <2>1. PICK s \in durable : target' = Survivor(s)
    BY <1>3 DEF PowerLoss
  <2>2. target' = s
    BY <2>1, SurvivorFacts DEF CrashAtomic
  <2>3. Seen(target') \in {Seen(t) : t \in durable}
    BY <2>2
  <2>4. {Seen(t) : t \in durable'} = {Seen(target')}
    BY <1>3 DEF PowerLoss
  <2>5. ver' = [w \in Writer |-> 0]
    BY <1>1, <1>3, ConstantsAssumption
  <2>6. Promise!PowerLoss
    BY <1>1, <2>3, <2>4, <2>5 DEF Promise!PowerLoss
  <2> QED BY <2>6 DEF Promise!Next
<1> QED BY <1>2, <1>3

\* Every step of the writers, the sweep and the crashes is a step of the promise
\* or shows nothing of it.
LEMMA StepImplements == FullInv /\ [Next]_vars => [Promise!Next]_(Promise!vars)
<1> SUFFICES ASSUME FullInv, [Next]_vars PROVE Promise!Next \/ UNCHANGED Promise!vars
  OBVIOUS
<1>1. ASSUME NEW w \in Writer, NEW s \in Sources, Request(w, s)
      PROVE  Promise!Next
  <2>1. Promise!Begin(w)
    BY <1>1 DEF Request, Promise!Begin, FullInv, IdleHasNone, disk
  <2> QED BY <2>1 DEF Promise!Next
<1>2. ASSUME NEW w \in Writer, Write(w)
      PROVE  Promise!Next \/ UNCHANGED Promise!vars
  BY <1>2, WriteImplements
<1>3. CASE \/ \E p \in Process, n \in Name : SweepCheck(p, n)
           \/ \E p \in Process : SweepRemove(p)
           \/ \E n \in Name : Age(n)
  <2>1. UNCHANGED <<target, durable, writers, observed>>
    BY <1>3, SweepFrame DEF FullInv
  <2> QED BY <2>1, Unseen DEF writers, observed
<1>4. ASSUME NEW dead \in SUBSET Process,
             Restart(dead) /\ (UNCHANGED disk \/ (PowerLoss /\ dead = Process))
      PROVE  Promise!Next
  BY <1>4, RestartImplements
<1>5. CASE UNCHANGED vars
  BY <1>5, Unseen DEF vars, disk, writers, observed
<1> QED BY <1>1, <1>2, <1>3, <1>4, <1>5, StepSorts

\* The temp files, the guard, the directory syncs, the sweep and the crashes
\* together are the atomic replace a caller is promised, with its error classes.
THEOREM Implements == Spec => ImplementsAtomicReplace
<1>1. Init => Promise!Init
  <2> SUFFICES ASSUME Init PROVE Promise!Init
    OBVIOUS
  <2>1. Seen(target) \in {NoFile, 0}
    BY DEF Init, Seen
  <2>2. {Seen(s) : s \in durable} = {Seen(target)}
    BY DEF Init
  <2>3. {v \in Version : rank[v] # 0} = {}
    BY DEF Init
  <2> QED BY <2>1, <2>2, <2>3 DEF Init, Promise!Init, Promise!Version, Version
<1> QED BY <1>1, FullyInductive, StepImplements, PTL
        DEF Spec, ImplementsAtomicReplace, Promise!Spec

-----------------------------------------------------------------------------
(* The durable move *)

\* The file is at its source, for certain.
LEMMA InitMoveInv == MoveInit => MoveInv
BY MoveAssumption DEF MoveInit, MoveInv, MoveTypeOK, MoveKeepsFile, Reached, Names, Outcomes

\* A step of a protocol that changes no entry and ends in an outcome that
\* promises nothing.
LEMMA MoveFails ==
    ASSUME MoveInv, action' = "Failed", UNCHANGED <<present, survivors, across, apart, losses>>
    PROVE  MoveInv'
BY DEF MoveInv, MoveTypeOK, MoveKeepsFile, Reached, Outcomes

\* What the protocol does next after a success.
LEMMA MoveTable ==
    ASSUME Succeed, action \in RenameAction \cup MoveAction
    PROVE  /\ action = "Rename" => action' = "SyncSourceDir"
           /\ action = "SyncSourceDir" =>
                action' = IF apart THEN "SyncDestinationDir" ELSE "Done"
           /\ action \in {"SyncDestinationDir", "SyncRemoval"} => action' = "Done"
           /\ action = "Copy" => action' = "RemoveSource"
           /\ action = "RemoveSource" => action' = "SyncRemoval"
BY DEF Succeed, AfterMoveDone, RenameAction, MoveAction

\* A start finds the file at its source; the name that a rename takes is the
\* one that a sync of the source then leaves as the only one.
LEMMA RenameStep == MoveInv /\ (StartMove \/ RenameEntry \/ CrossDevice) => MoveInv'
<1> SUFFICES ASSUME MoveInv, StartMove \/ RenameEntry \/ CrossDevice PROVE MoveInv'
  OBVIOUS
<1> USE DEF MoveInv
<1>1. CASE StartMove
  BY <1>1 DEF StartMove, MoveTypeOK, MoveKeepsFile, Reached, RenameAction
<1>2. CASE CrossDevice
  BY <1>2 DEF CrossDevice, MoveTypeOK, MoveKeepsFile, Reached, MoveAction
<1>3. CASE RenameEntry
  <2>1. CASE Succeed /\ Enter({"destination"})
    <3>1. action' = "SyncSourceDir"
      BY <1>3, <2>1, MoveTable DEF RenameEntry, RenameAction
    <3> QED BY <1>3, <2>1, <3>1
          DEF RenameEntry, Enter, MoveTypeOK, MoveKeepsFile, Reached, Names, RenameAction
  <2>2. CASE Fail /\ UNCHANGED <<present, survivors>>
    BY <1>3, <2>2, MoveFails DEF RenameEntry, Fail, AfterMoveFailure
  <2> QED BY <1>3, <2>1, <2>2 DEF RenameEntry
<1> QED BY <1>1, <1>2, <1>3

\* Only a copy that is durable lets the source be removed, and until that
\* removal is certain either entry may survive.
LEMMA CopyStep == MoveInv /\ (Copy \/ RemoveSource) => MoveInv'
<1> SUFFICES ASSUME MoveInv, Copy \/ RemoveSource PROVE MoveInv'
  OBVIOUS
<1> USE DEF MoveInv
<1>1. CASE Copy
  <2>1. CASE Succeed /\ present' = Names
             /\ survivors' = {s \cup {"destination"} : s \in survivors}
    <3>1. action' = "RemoveSource"
      BY <1>1, <2>1, MoveTable DEF Copy, MoveAction
    <3>2. present \cup {"destination"} = Names
      BY <1>1 DEF Copy, Reached, MoveTypeOK, Names
    <3>3. present' \in survivors'
      BY <2>1, <3>2
    <3>4. \A s \in survivors : s \cup {"destination"} \in SUBSET Names
      BY DEF MoveTypeOK, Names
    <3>5. survivors' \in SUBSET SUBSET Names
      BY <2>1, <3>4
    <3> QED BY <1>1, <2>1, <3>1, <3>3, <3>5
          DEF Copy, MoveTypeOK, MoveKeepsFile, Reached, Names, MoveAction
  <2>2. CASE Fail /\ Enter(Names)
    BY <1>1, <2>2 DEF Copy, Fail, AfterMoveFailure, Enter, MoveTypeOK, MoveKeepsFile, Reached,
                      Names, Outcomes
  <2>3. CASE Fail /\ UNCHANGED <<present, survivors>>
    BY <1>1, <2>3, MoveFails DEF Copy, Fail, AfterMoveFailure
  <2> QED BY <1>1, <2>1, <2>2, <2>3 DEF Copy
<1>2. CASE RemoveSource
  <2>1. CASE Succeed /\ present' = present \ {"source"}
             /\ survivors' = survivors \cup {s \ {"source"} : s \in survivors}
    <3>1. action' = "SyncRemoval"
      BY <1>2, <2>1, MoveTable DEF RemoveSource, MoveAction
    <3>2. present = Names /\ \A s \in survivors : "destination" \in s
      BY <1>2 DEF RemoveSource, Reached
    <3>3. present' = {"destination"} /\ present' \in survivors'
      BY <2>1, <3>2 DEF Names
    <3>4. \A s \in survivors' : "destination" \in s /\ s \in SUBSET Names
      BY <2>1, <3>2 DEF MoveTypeOK
    <3> QED BY <1>2, <2>1, <3>1, <3>3, <3>4
          DEF RemoveSource, MoveTypeOK, MoveKeepsFile, Reached, Names, MoveAction
  <2>2. CASE Fail /\ UNCHANGED <<present, survivors>>
    BY <1>2, <2>2, MoveFails DEF RemoveSource, Fail, AfterMoveFailure
  <2> QED BY <1>2, <2>1, <2>2 DEF RemoveSource
<1> QED BY <1>1, <1>2

\* A sync takes the old entry from what may survive; the last one leaves the
\* destination alone.
LEMMA SyncStep ==
    ASSUME MoveInv,
           NEW pending \in {"SyncSourceDir", "SyncDestinationDir", "SyncRemoval"},
           NEW name \in Names,
           name = IF pending = "SyncDestinationDir" THEN "destination" ELSE "source",
           Sync(pending, name)
    PROVE  MoveInv'
<1> USE DEF MoveInv
<1>1. CASE Succeed /\ SyncEntry(name)
  <2>1. present = {"destination"}
    BY DEF Sync, Reached
  <2>2. present \in survivors' /\ survivors' \subseteq survivors
    BY <1>1 DEF SyncEntry
  <2>3. survivors' = {{"destination"}}
    <3>1. CASE pending = "SyncDestinationDir"
      BY <2>1, <2>2, <3>1 DEF Sync, Reached
    <3>2. CASE pending # "SyncDestinationDir"
      <4>1. \A s \in survivors' : "source" \notin s /\ s # {} /\ s \in SUBSET Names
        BY <1>1, <2>1, <3>2 DEF SyncEntry, MoveTypeOK, MoveKeepsFile
      <4>2. \A s \in survivors' : s = {"destination"}
        BY <4>1 DEF Names
      <4> QED BY <2>1, <2>2, <4>2
    <3> QED BY <3>1, <3>2
  <2>4. action' \in {"SyncDestinationDir", "Done"}
    BY <1>1, MoveTable DEF Sync, RenameAction, MoveAction
  <2> QED BY <2>1, <2>3, <2>4
        DEF Sync, MoveTypeOK, MoveKeepsFile, Reached, Names, RenameAction, Outcomes
<1>2. CASE Fail /\ UNCHANGED survivors
  BY <1>2, MoveFails DEF Sync, Fail, AfterMoveFailure
<1> QED BY <1>1, <1>2 DEF Sync

\* A power loss leaves one of the disks that may survive.
LEMMA LossStep == MoveInv /\ LosePower => MoveInv'
BY DEF LosePower, MoveInv, MoveTypeOK, MoveKeepsFile, Reached, Outcomes

\* Every step of the move keeps the inductive invariant.
LEMMA NextMoveInv == MoveInv /\ [MoveNext]_moveVars => MoveInv'
<1> SUFFICES ASSUME MoveInv, [MoveNext]_moveVars PROVE MoveInv'
  OBVIOUS
<1>1. CASE StartMove \/ RenameEntry \/ CrossDevice
  BY <1>1, RenameStep
<1>2. CASE Copy \/ RemoveSource
  BY <1>2, CopyStep
<1>3. CASE Sync("SyncSourceDir", "source")
  BY <1>3, SyncStep DEF Names
<1>4. CASE Sync("SyncDestinationDir", "destination")
  BY <1>4, SyncStep DEF Names
<1>5. CASE Sync("SyncRemoval", "source")
  BY <1>5, SyncStep DEF Names
<1>6. CASE LosePower
  BY <1>6, LossStep
<1>7. CASE UNCHANGED moveVars
  BY <1>7 DEF moveVars, MoveInv, MoveTypeOK, MoveKeepsFile, Reached
<1> QED BY <1>1, <1>2, <1>3, <1>4, <1>5, <1>6, <1>7 DEF MoveNext

\* Wherever a step of a rename or of a move by copy fails and however often
\* the power goes, the whole file is under one of its names, and a move that
\* was reported done stays done (rename_durable, move_durable).
THEOREM MoveLosesNothing == MoveSpec => []MoveKeepsFile
<1>1. MoveInv => MoveKeepsFile
  BY DEF MoveInv
<1> QED BY <1>1, InitMoveInv, NextMoveInv, PTL DEF MoveSpec
=============================================================================
