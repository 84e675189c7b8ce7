--------------------------- MODULE MCDurableWrite ---------------------------
(* Values of the constants of DurableWrite. *)
EXTENDS DurableWrite, TLC

CONSTANTS p1, p2, w1, w2, wide, suid, l1, l2, l3

OneHome == [w \in Writer |-> p1]
TwoHomes == (w1 :> p1) @@ (w2 :> p2)
TwoSources == {Destination, {suid}}
DestinationOnly == {Destination}
FirstLaunches == (p1 :> l1) @@ (p2 :> l2)
=============================================================================
