--------------------------- MODULE AtomicReplace ---------------------------
(***************************************************************************)
(* What an atomic durable write promises its callers, with no temp files,  *)
(* no directory syncs and no guards: the destination always holds the      *)
(* bytes of some whole version, a write is either not applied, applied, or *)
(* applied for good, and the class it reports says which.  DurableWrite    *)
(* implements this specification.                                          *)
(***************************************************************************)
EXTENDS Naturals

CONSTANTS
    Writer,         \* callers of the atomic write
    MaxVersion,     \* bound on the writes of a behaviour
    NoContent       \* the destination does not exist

Version == 0..MaxVersion
Content == Version \cup {NoContent}
WriteClass == {"Success", "BeforeRename", "AfterRename"}

VARIABLES
    value,          \* what a reader of the destination sees
    possible,       \* what the destination may hold after a power loss
    issued,         \* versions handed to writers so far: 1..issued
    current,        \* Writer -> version being written, 0 when none
    installed,      \* versions that became the destination
    hardened,       \* versions whose installation a power loss cannot undo
    report          \* Version -> class reported to the caller, or "None"

vars == <<value, possible, issued, current, installed, hardened, report>>

Init ==
    /\ value \in {NoContent, 0}
    /\ possible = {value}
    /\ issued = 0
    /\ current = [w \in Writer |-> 0]
    /\ installed = {}
    /\ hardened = {}
    /\ report = [v \in Version |-> "None"]

Begin(w) ==
    /\ current[w] = 0
    /\ issued < MaxVersion
    /\ issued' = issued + 1
    /\ current' = [current EXCEPT ![w] = issued + 1]
    /\ UNCHANGED <<value, possible, installed, hardened, report>>

Install(w) ==
    /\ current[w] # 0
    /\ current[w] \notin installed
    /\ value' = current[w]
    /\ possible' = possible \cup {current[w]}
    /\ installed' = installed \cup {current[w]}
    /\ UNCHANGED <<issued, current, hardened, report>>

Harden(w) ==
    /\ current[w] \in installed
    /\ possible' = {value}
    /\ hardened' = hardened \cup {current[w]}
    /\ UNCHANGED <<value, issued, current, installed, report>>

\* The class tells the caller exactly how far the write got.
ClassOf(v) ==
    IF v \in hardened THEN "Success"
    ELSE IF v \in installed THEN "AfterRename"
    ELSE "BeforeRename"

End(w) ==
    /\ current[w] # 0
    /\ report' = [report EXCEPT ![current[w]] = ClassOf(current[w])]
    /\ current' = [current EXCEPT ![w] = 0]
    /\ UNCHANGED <<value, possible, issued, installed, hardened>>

\* The processes of some writers die; the disk keeps what it shows.
Kill(dead) ==
    /\ current' = [w \in Writer |-> IF w \in dead THEN 0 ELSE current[w]]
    /\ UNCHANGED <<value, possible, issued, installed, hardened, report>>

\* Every process dies and the destination is one of its possible versions.
PowerLoss ==
    /\ value' \in possible
    /\ possible' = {value'}
    /\ current' = [w \in Writer |-> 0]
    /\ UNCHANGED <<issued, installed, hardened, report>>

Next ==
    \/ \E w \in Writer : Begin(w) \/ Install(w) \/ Harden(w) \/ End(w)
    \/ \E dead \in SUBSET Writer : Kill(dead)
    \/ PowerLoss

Spec == Init /\ [][Next]_vars
=============================================================================
