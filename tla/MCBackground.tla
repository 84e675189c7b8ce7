----------------------------- MODULE MCBackground -----------------------------
(* The work behind the window, in one of seven worlds chosen at the start.     *)
(*   pool     worker tasks and the delivery of their results                 *)
(*   ledger   renames and the sidecars that follow them                      *)
(*   history  local history under captures, renames and retention            *)
(*   settings the settings writer                                            *)
(*   move     a durable move of one file                                     *)
(*   timer    a superseding timer                                            *)
(*   tree     the tree of a workspace folder and its watcher                 *)
(* A component whose world was not chosen stays as it was.  The ledger's     *)
(* fairness asks nothing of it then: none of its workers has work.           *)
EXTENDS MCMigrationLedger, MCLocalHistory, MCWorkspaceTree,
        TaskPool, SettingsWriter, DurableMove, Settle

VARIABLE world

small == <<settingsVars, moveVars, timerVars, treeVars>>

IdleLedger == LedgerInit /\ ~calm /\ refused = {}
IdleHistory == HistoryInit /\ bounds = [snaps |-> 4, renames |-> 1, breaks |-> 1,
                                        damage |-> 0, launches |-> 1, dated |-> FALSE]
IdleSettings == SettingsInit /\ backend = [k \in Keys |-> Unset]
IdleMove == MoveInit /\ ~apart
IdleTree == TreeInit /\ left.toggles = 2

\* The worlds, and the small ones' state in the others.
Worlds == {"pool", "ledger", "history", "settings", "move", "timer", "tree"}

BackgroundInit ==
    /\ world \in Worlds
    /\ PoolInit /\ TimerInit
    /\ IF world = "ledger" THEN LedgerInit ELSE IdleLedger
    /\ IF world = "history" THEN HistoryInit ELSE IdleHistory
    /\ IF world = "settings" THEN SettingsInit ELSE IdleSettings
    /\ IF world = "move" THEN MoveInit ELSE IdleMove
    /\ IF world = "tree" THEN TreeInit ELSE IdleTree

BackgroundNext ==
    /\ \/ world = "pool" /\ PoolNext /\ UNCHANGED <<ledgerVars, historyVars, small>>
       \/ world = "ledger" /\ LedgerNext /\ UNCHANGED <<poolVars, historyVars, small>>
       \/ world = "history" /\ HistoryNext /\ UNCHANGED <<poolVars, ledgerVars, small>>
       \/ /\ world \in {"settings", "move", "timer", "tree"}
          /\ \/ /\ world = "settings" /\ SettingsNext
                /\ UNCHANGED <<moveVars, timerVars, treeVars>>
             \/ world = "move" /\ MoveNext /\ UNCHANGED <<settingsVars, timerVars, treeVars>>
             \/ world = "timer" /\ TimerNext /\ UNCHANGED <<settingsVars, moveVars, treeVars>>
             \/ world = "tree" /\ TreeNext /\ UNCHANGED <<settingsVars, moveVars, timerVars>>
          /\ UNCHANGED <<poolVars, ledgerVars, historyVars>>
    /\ UNCHANGED world

BackgroundSpec ==
    /\ BackgroundInit
    /\ [][BackgroundNext]_<<world, poolVars, ledgerVars, historyVars, small>>
    /\ LedgerFair

\* Every variable of the seven keeps its type.
BackgroundTypeOK ==
    /\ PoolTypeOK /\ LedgerTypeOK /\ HistoryTypeOK
    /\ SettingsTypeOK /\ MoveTypeOK /\ TreeTypeOK
===============================================================================
