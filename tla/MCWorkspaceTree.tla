--------------------------- MODULE MCWorkspaceTree ---------------------------
(* A folder "r" with a directory "s" that is expanded, one that is not, and    *)
(* files.                                                                      *)
EXTENDS WorkspaceTree, TLC

MCPath == {"r", "a", "s", "f", "g"}
MCDir == {"r", "s"}
MCWithin == ("a" :> "r") @@ ("s" :> "r") @@ ("f" :> "r") @@ ("g" :> "s")
MCRank == [p \in MCPath |-> CASE p = "r" -> 0 [] p = "a" -> 1 [] p = "s" -> 2
                              [] p = "f" -> 3 [] p = "g" -> 1]

NoneLeft == [open |-> {"r", "s"}, absent |-> {},
             changes |-> 0, toggles |-> 0, asks |-> 0, deletes |-> 0]
MCTreeBounds == {[NoneLeft EXCEPT !.changes = 2, !.toggles = 1],
                 [NoneLeft EXCEPT !.changes = 1, !.toggles = 1, !.asks = 1],
                 [NoneLeft EXCEPT !.open = {"r"}, !.changes = 1, !.toggles = 2],
                 [NoneLeft EXCEPT !.changes = 1, !.deletes = 1, !.absent = {"f"}]}
\* One change by another program, and nobody touches the tree.
MCOneChange == {[NoneLeft EXCEPT !.changes = 1]}
===============================================================================
