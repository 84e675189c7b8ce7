--------------------------- MODULE MCLocalHistory ---------------------------
EXTENDS LocalHistory

MCScanOrder == <<2, 3, 1>>
MCHistoryHome == "f" :> 1 @@ "g" :> 2

\* Two documents and three paths: two renames with failures and a relaunch,
\* enough snapshots for global retention, a damaged index, or back-dated
\* snapshots.  The latter two come without each other, and back-dated ones
\* without failures: see the README for what the code does with both.
MCBounds ==
  { [snaps |-> 3, renames |-> 2, breaks |-> 2, damage |-> 0, launches |-> 1, dated |-> FALSE],
    [snaps |-> 4, renames |-> 1, breaks |-> 1, damage |-> 0, launches |-> 1, dated |-> FALSE],
    [snaps |-> 3, renames |-> 1, breaks |-> 1, damage |-> 1, launches |-> 1, dated |-> FALSE],
    [snaps |-> 4, renames |-> 2, breaks |-> 0, damage |-> 0, launches |-> 0, dated |-> TRUE] }

\* Three snapshots and a damaged index.
MCDamaged ==
  { [snaps |-> 3, renames |-> 0, breaks |-> 0, damage |-> 1, launches |-> 0, dated |-> FALSE] }
=============================================================================
