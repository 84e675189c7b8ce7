--------------------------- MODULE MCDurableWorlds ---------------------------
(* Two writers of one file, in one of three worlds chosen at the start:      *)
(*   threads  two threads of one process, with permissions and an explicit   *)
(*            metadata source                                                *)
(*   apart    two processes whose launches have identities of their own and  *)
(*            sweep each other's day-old temp files                          *)
(*   shared   two processes that share one identity, so that their temp      *)
(*            names collide                                                  *)
(* Identities are only compared, and the writers are alike: the first        *)
(* launches are fixed, the first write is w1's, and of the identities nobody *)
(* has and no file bears a relaunch draws the first.                         *)
EXTENDS MCDurableWrite

VARIABLE world

Threads == INSTANCE DurableWrite WITH Home <- OneHome, Ages <- FALSE, MaxTempNameAttempts <- 1
Apart == INSTANCE DurableWrite WITH
    Bit <- {}, SpecialBit <- {}, DefaultMode <- {}, Sources <- DestinationOnly
Shared == INSTANCE DurableWrite WITH
    Bit <- {}, SpecialBit <- {}, DefaultMode <- {}, Sources <- DestinationOnly,
    UniqueLaunches <- FALSE, Ages <- FALSE

FirstIsOurs == issued = 0 => ver'[w2] = 0

Rank == (l1 :> 1) @@ (l2 :> 2) @@ (l3 :> 3)
Blank == {l \in Launch : \A n \in {l} \X (0 .. MaxCounter) :
                           files'[n] = NoFile /\ \A p \in Process : doomed'[p] # n}
Unborne == Blank \ {launch'[p] : p \in Process}
FirstIsDrawn ==
    \A p \in Process : launch'[p] # launch[p] /\ launch'[p] \in Blank =>
        \A l \in Unborne : Rank[launch'[p]] < Rank[l]

OneIdentity(identity) == \A p, q \in Process : identity[p] = identity[q]

WorldsInit ==
    \/ world = "threads" /\ Threads!Init /\ launch = FirstLaunches
    \/ world = "apart" /\ Apart!Init /\ launch = FirstLaunches
    \/ world = "shared" /\ Shared!Init /\ OneIdentity(launch) /\ launch[p1] = l1

WorldsNext ==
    /\ \/ world = "threads" /\ Threads!Next
       \/ world = "apart" /\ Apart!Next
       \/ world = "shared" /\ Shared!Next /\ OneIdentity(launch')
    /\ FirstIsOurs /\ FirstIsDrawn /\ UNCHANGED world

WorldsWrite(w) ==
    /\ \/ world = "threads" /\ Threads!Write(w)
       \/ world = "apart" /\ Apart!Write(w)
       \/ world = "shared" /\ Shared!Write(w)
    /\ UNCHANGED world

WorldsSpec ==
    /\ WorldsInit /\ [][WorldsNext]_<<world, vars>>
    /\ \A w \in Writer : WF_<<world, vars>>(WorldsWrite(w))
=============================================================================
