------------------------------- MODULE DurableMove -------------------------------
(***************************************************************************)
(* Moving one file from one directory to another so that a power loss      *)
(* leaves it at one of the two names: the durable rename, and, across file *)
(* systems, the copy that is removed at its source once it is durable      *)
(* (RenameProtocol and MoveProtocol of write_protocol.rs, their shells in  *)
(* durable_write.rs, and the fallback of local history's body moves, which *)
(* try again after a crash for as long as the source is there).            *)
(*                                                                         *)
(* A disk is the set of the names the whole file is found under.  A sync   *)
(* of a directory makes its entry certain; until then a power loss may     *)
(* take an entry back.  A rename moves both entries in one transaction of  *)
(* the file system.                                                        *)
(***************************************************************************)
EXTENDS Naturals

CONSTANTS
    MaxLosses  \* bound on the power losses

ASSUME MoveAssumption == MaxLosses \in Nat

Names == {"source", "destination"}
RenameAction == {"Rename", "SyncSourceDir", "SyncDestinationDir"}
MoveAction == {"Copy", "RemoveSource", "SyncRemoval"}
Outcomes == {"Done", "Failed"}

VARIABLES
    present,    \* names the file is found under
    survivors,  \* what a power loss may make of `present`
    across,     \* the names are on two file systems
    apart,      \* the names are in two directories
    action,     \* the protocol's pending action, or its outcome
    losses

moveVars == <<present, survivors, across, apart, action, losses>>

-----------------------------------------------------------------------------
(* RenameProtocol::step and MoveProtocol::step *)

AfterMoveDone == [Rename |-> "SyncSourceDir",
                  SyncSourceDir |-> IF apart THEN "SyncDestinationDir" ELSE "Done",
                  SyncDestinationDir |-> "Done",
                  Copy |-> "RemoveSource", RemoveSource |-> "SyncRemoval",
                  SyncRemoval |-> "Done"]

\* Mutation: a copy that did not become durable is good enough to remove its
\* source.
TrustsCopy(pending) == IF pending = "Copy" THEN "RemoveSource" ELSE "Failed"
\* Every failure ends the protocol.
AfterMoveFailure(pending) == "Failed"

Succeed == action' = AfterMoveDone[action]
Fail == action' = AfterMoveFailure(action)

\* A change of entries that no sync has made certain.
Enter(names) == present' = names /\ survivors' = survivors \cup {names}

\* sync_parent_dir: the entry under `name` is certain.
SyncEntry(name) == survivors' = {s \in survivors : name \in s <=> name \in present}

-----------------------------------------------------------------------------
MoveInit ==
    /\ present = {"source"} /\ survivors = {present}
    /\ apart \in BOOLEAN /\ across \in BOOLEAN /\ (across => apart)
    /\ action = "Failed" /\ losses = 0

\* The caller moves the body it finds at the source, first by a rename.
StartMove ==
    /\ action \in Outcomes /\ "source" \in present
    /\ action' = "Rename"
    /\ UNCHANGED <<present, survivors, across, apart, losses>>

\* rename(2), which replaces what is at the destination.
RenameEntry ==
    /\ action = "Rename" /\ ~across
    /\ \/ Succeed /\ Enter({"destination"})
       \/ Fail /\ UNCHANGED <<present, survivors>>
    /\ UNCHANGED <<across, apart, losses>>

\* EXDEV: the caller falls back to move_durable.
CrossDevice ==
    /\ action = "Rename" /\ across
    /\ action' = "Copy"
    /\ UNCHANGED <<present, survivors, across, apart, losses>>

\* copy_durable is a whole durable write.  Only its Success is a success: a
\* write that failed after its rename has left a copy that may not last.
Copy ==
    /\ action = "Copy"
    /\ \/ /\ Succeed
          /\ present' = Names
          /\ survivors' = {s \cup {"destination"} : s \in survivors}
       \/ Fail /\ Enter(Names)
       \/ Fail /\ UNCHANGED <<present, survivors>>
    /\ UNCHANGED <<across, apart, losses>>

RemoveSource ==
    /\ action = "RemoveSource"
    /\ \/ /\ Succeed
          /\ present' = present \ {"source"}
          /\ survivors' = survivors \cup {s \ {"source"} : s \in survivors}
       \/ Fail /\ UNCHANGED <<present, survivors>>
    /\ UNCHANGED <<across, apart, losses>>

Sync(pending, name) ==
    /\ action = pending
    /\ \/ Succeed /\ SyncEntry(name)
       \/ Fail /\ UNCHANGED survivors
    /\ UNCHANGED <<present, across, apart, losses>>

\* The power goes, and the caller's process with it.
LosePower ==
    /\ losses < MaxLosses /\ losses' = losses + 1
    /\ present' \in survivors
    /\ survivors' = {present'}
    /\ action' = "Failed"
    /\ UNCHANGED <<across, apart>>

MoveNext ==
    \/ StartMove \/ RenameEntry \/ CrossDevice \/ Copy \/ RemoveSource
    \/ Sync("SyncSourceDir", "source") \/ Sync("SyncDestinationDir", "destination")
    \/ Sync("SyncRemoval", "source")
    \/ LosePower

MoveSpec == MoveInit /\ [][MoveNext]_moveVars

-----------------------------------------------------------------------------
(* Properties *)

MoveTypeOK ==
    /\ present \in SUBSET Names /\ survivors \in SUBSET SUBSET Names
    /\ across \in BOOLEAN /\ apart \in BOOLEAN
    /\ action \in RenameAction \cup MoveAction \cup Outcomes
    /\ losses \in Nat

\* Wherever a step fails and whenever the power goes, the whole file is under
\* one of the two names, and a move that was reported done is never undone by
\* a power loss (rename_durable, move_durable).
MoveKeepsFile ==
    /\ \A s \in survivors \cup {present} : s # {}
    /\ action = "Done" => survivors = {{"destination"}}

-----------------------------------------------------------------------------
(* The inductive invariant behind MoveKeepsFile. *)

\* What the pending action may rely on: the entries it finds, and those that a
\* power loss can still bring back.
Reached ==
    CASE action \in {"Rename", "Copy"}  -> "source" \in present
      [] action = "SyncSourceDir"      -> present = {"destination"}
      [] action = "SyncDestinationDir" -> survivors = {present} /\ present = {"destination"}
      [] action = "RemoveSource"       -> present = Names
                                          /\ \A s \in survivors : "destination" \in s
      [] action = "SyncRemoval"        -> present = {"destination"}
                                          /\ \A s \in survivors : "destination" \in s
      [] OTHER                         -> TRUE

MoveInv ==
    /\ MoveTypeOK /\ MoveKeepsFile /\ Reached
    /\ present \in survivors
================================================================================
