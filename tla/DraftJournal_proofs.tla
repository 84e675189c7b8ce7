------------------------ MODULE DraftJournal_proofs ------------------------
(***************************************************************************)
(* Proofs about DraftJournal, for any windows, documents, edits, versions, *)
(* moves, crashes and failing calls: the lane has one holder, every body   *)
(* is described, and trusted windows know only what the manifest says.     *)
(***************************************************************************)
EXTENDS DraftJournal, FiniteSetTheorems, WellFoundedInduction, TLAPS

-----------------------------------------------------------------------------
(* The types of windows and of the process.                                 *)

LEMMA IdleTypes ==
    /\ NoManifest \in Manifest /\ NoRestore \in Restore /\ IdleJob \in Job
    /\ ShutWindow \in WindowState /\ NoProcess \in Process
<1>1. NoManifest \in Manifest
  BY DEF NoManifest, Manifest
<1>2. NoRestore \in Restore
  BY DEF NoRestore, Restore
<1>3. IdleJob \in Job
  BY <1>1 DEF IdleJob, Job, Text
<1>4. ShutWindow \in WindowState
  BY <1>1, <1>2, <1>3 DEF ShutWindow, WindowState
<1> QED BY <1>1, <1>2, <1>3, <1>4 DEF NoProcess, Process

LEMMA WindowType ==
    ASSUME NEW u \in Process, NEW w \in Window
    PROVE  /\ u.win[w] \in WindowState /\ u.win[w].job \in Job
           /\ u.win[w].restore \in [Doc -> Restore] /\ u.win[w].known \in Manifest
           /\ u.win[w].deletes \in Seq(Doc)
           /\ u.win[w].stale \in SUBSET Doc /\ u.win[w].doomed \in SUBSET Doc
<1>1. u.win[w] \in WindowState
  BY DEF Process
<1> QED BY <1>1 DEF WindowState

\* The process with another window in w's place.
With(u, w, x) == [u EXCEPT !.win[w] = x]

LEMMA PutWindow ==
    ASSUME NEW u \in Process, NEW w \in Window, NEW x \in WindowState
    PROVE  /\ With(u, w, x) \in Process /\ With(u, w, x).win[w] = x
           /\ \A v \in Window : v # w => With(u, w, x).win[v] = u.win[v]
           /\ With(u, w, x).tab = u.tab /\ With(u, w, x).home = u.home
           /\ With(u, w, x).lane = u.lane /\ With(u, w, x).sweeper = u.sweeper
           /\ With(u, w, x).dirty = u.dirty /\ With(u, w, x).claim = u.claim
           /\ With(u, w, x).wake = u.wake /\ With(u, w, x).armed = u.armed
BY DEF Process, With

\* What remains of a tombstone queue is one.
LEMMA WithoutType ==
    ASSUME NEW queue \in Seq(Doc), NEW d \in Doc
    PROVE  Append(Without(queue, d), d) \in Seq(Doc)
<1>1. CASE d \in Range(queue)
  <2> DEFINE i == CHOOSE i \in DOMAIN queue : queue[i] = d
  <2>1. i \in 1 .. Len(queue)
    BY <1>1 DEF Range
  <2> HIDE DEF i
  <2>2. RemoveAt(queue, i) \in Seq(Doc)
    BY <2>1 DEF RemoveAt
  <2> QED BY <1>1, <2>2 DEF Without, i
<1>2. CASE d \notin Range(queue)
  BY <1>2 DEF Without
<1> QED BY <1>1, <1>2

-----------------------------------------------------------------------------
(* What a turn of one window has to keep.                                   *)

\* The running process u over the disk k, as every turn and every worker's step
\* leaves it.
Sane(u, k) ==
    /\ u \in Process /\ k \in Disk
    /\ OnlyRunning(u) /\ Orderly(u, k) /\ ViewsFollow(u, k)
    /\ \A w \in Window : JobGrounded(u.win[w].job, k)

\* One window x of it.
WindowSane(x, k) ==
    /\ JobPlaced(x.job) /\ Timed(x.job.done, k.backing) /\ JobGrounded(x.job, k)
    /\ \A d \in Doc : x.restore[d].stage = "Installing" => x.restore[d].found \in Text

\* From u to n, only w and its hold of the lane change, and what every window shares.
Apart(u, n, w) ==
    /\ n.sweeper = u.sweeper /\ n.win[w].running = u.win[w].running
    /\ \A v \in Window : v # w => n.win[v] = u.win[v] /\ (n.lane = v <=> u.lane = v)

\* Editors of n are shown by running windows of u.
ShownIn(u, n) ==
    \A d \in Doc : n.tab[d] # Closed => n.home[d] \in Window /\ u.win[n.home[d]].running

\* A window whose view says no more than that of y.
Narrower(x, y) ==
    /\ x.running = y.running /\ (x.trusted => y.trusted)
    /\ \A d \in Doc : x.known[d] \in {NoEntry, y.known[d]}

\* The same work, but for the generations it may accept.
SameWork(j, i) ==
    /\ j.kind = i.kind /\ j.step = i.step /\ j.doc = i.doc /\ j.todo = i.todo
    /\ j.done = i.done /\ j.result = i.result

LEMMA SaneWindow ==
    ASSUME NEW u, NEW k, Sane(u, k), NEW w \in Window
    PROVE  WindowSane(u.win[w], k) /\ ShownIn(u, u)
BY DEF Sane, WindowSane, ShownIn, Orderly, OnlyRunning

\* A running window changes: what is left to show of it.
LEMMA WindowChange ==
    ASSUME NEW u, NEW k, Sane(u, k), NEW n \in Process, NEW w \in Window,
           u.win[w].running, Apart(u, n, w), ShownIn(u, n),
           WindowSane(n.win[w], k), n.win[w].job.kind # "None" <=> n.lane = w,
           ViewsFollow(n, k)
    PROVE  Sane(n, k)
<1>1. \A v \in Window : n.win[v].running = u.win[v].running
  BY DEF Apart
<1>2. OnlyRunning(n)
  <2>1. \A d \in Doc : n.tab[d] # Closed => n.home[d] \in Window /\ n.win[n.home[d]].running
    BY <1>1 DEF ShownIn
  <2>2. \A v \in Window : ~n.win[v].running =>
            n.win[v].job.kind = "None" /\ \A d \in Doc : n.win[v].restore[d].stage = "None"
    BY <1>1 DEF Sane, OnlyRunning, Apart
  <2>3. n.sweeper = u.sweeper /\ u.sweeper \in {Nobody} \cup Window
    BY DEF Apart, Sane, Process
  <2>4. u.sweeper # Nobody /\ n.win[u.sweeper].running
    BY <1>1, <2>3 DEF Sane, OnlyRunning
  <2> QED BY <2>1, <2>2, <2>3, <2>4 DEF OnlyRunning
<1>3. Orderly(n, k)
  BY DEF Sane, Orderly, Apart, WindowSane
<1>4. \A v \in Window : JobGrounded(n.win[v].job, k)
  BY DEF Sane, Apart, WindowSane
<1> QED BY <1>2, <1>3, <1>4 DEF Sane

\* While the lane is free, no window is at work, and trusted views are true.
LEMMA FreeLane ==
    ASSUME NEW u, NEW k, Sane(u, k), u.lane = Nobody
    PROVE  /\ \A w \in Window : u.win[w].job.kind = "None" /\ u.win[w].job.step = "None"
           /\ ViewsTrue(u, k.entry)
<1>1. \A w \in Window : u.win[w].job.kind = "None"
  BY SentinelAssumption DEF Sane, Orderly
<1>2. \A w \in Window : u.win[w].job.step = "None"
  BY <1>1 DEF Sane, Orderly, JobPlaced, StepsOf
<1> QED BY <1>1, <1>2, Zenon DEF Sane, ViewsFollow, Untold, SweepUntold

\* The holder of the lane is the only one at work.
LEMMA HeldLane ==
    ASSUME NEW u, NEW k, Sane(u, k), NEW w \in Window, u.win[w].job.kind # "None"
    PROVE  /\ u.lane = w /\ u.win[w].running
           /\ \A v \in Window : v # w => u.win[v].job.kind = "None" /\ u.win[v].job.step = "None"
<1>1. u.lane = w /\ \A v \in Window : v # w => u.win[v].job.kind = "None"
  BY DEF Sane, Orderly
<1>2. \A v \in Window : v # w => u.win[v].job.step = "None"
  BY <1>1 DEF Sane, Orderly, JobPlaced, StepsOf
<1> QED BY <1>1, <1>2 DEF Sane, OnlyRunning

LEMMA ViewsNarrow ==
    ASSUME NEW u, NEW n, NEW manifest, ViewsTrue(u, manifest),
           \A w \in Window : Narrower(n.win[w], u.win[w])
    PROVE  ViewsTrue(n, manifest)
BY Zenon DEF ViewsTrue, Narrower

\* Views that say no more, and the same work under way, follow the same disk.
LEMMA FollowNarrow ==
    ASSUME NEW u, NEW k, ViewsFollow(u, k), NEW n,
           \A w \in Window : Narrower(n.win[w], u.win[w])
                             /\ SameWork(n.win[w].job, u.win[w].job)
    PROVE  ViewsFollow(n, k)
<1>1. CASE ViewsTrue(u, k.entry)
  BY <1>1, ViewsNarrow DEF ViewsFollow
<1>2. ASSUME NEW w \in Window, Untold(u.win[w].job)
      PROVE  ViewsFollow(n, k)
  BY <1>2 DEF Untold, SameWork, ViewsFollow
<1>3. ASSUME NEW w \in Window, SweepUntold(u, k, w)
      PROVE  ViewsFollow(n, k)
  <2> DEFINE told(j) == [d \in Doc |-> IF k.entry[d] = NoEntry THEN j.done[d] ELSE k.entry[d]]
  <2>1. ViewsTrue(u, told(u.win[w].job)) /\ u.win[w].job.step = "Swept"
    BY <1>3 DEF SweepUntold
  <2>2. told(n.win[w].job) = told(u.win[w].job) /\ n.win[w].job.step = "Swept"
    BY <2>1 DEF SameWork
  <2>3. ViewsTrue(n, told(n.win[w].job))
    BY <2>1, <2>2, ViewsNarrow
  <2> QED BY <2>2, <2>3 DEF SweepUntold, ViewsFollow
<1> QED BY <1>1, <1>2, <1>3 DEF ViewsFollow

LEMMA SameWorkSane ==
    ASSUME NEW j, NEW i, SameWork(j, i), NEW k, JobPlaced(i), Timed(i.done, k.backing),
           JobGrounded(i, k)
    PROVE  JobPlaced(j) /\ Timed(j.done, k.backing) /\ JobGrounded(j, k)
BY DEF SameWork, JobPlaced, JobGrounded

LEMMA SameIsNarrower ==
    ASSUME NEW x
    PROVE  Narrower(x, x) /\ SameWork(x.job, x.job)
BY DEF Narrower, SameWork

\* A window changes, but neither its work nor what it takes for true.
LEMMA QuietChange ==
    ASSUME NEW u, NEW k, Sane(u, k), NEW n \in Process, NEW w \in Window,
           u.win[w].running, Apart(u, n, w), ShownIn(u, n), n.lane = u.lane,
           Narrower(n.win[w], u.win[w]), SameWork(n.win[w].job, u.win[w].job),
           \A d \in Doc : n.win[w].restore[d].stage = "Installing"
                              => n.win[w].restore[d].found \in Text
    PROVE  Sane(n, k)
<1>1. \A v \in Window : Narrower(n.win[v], u.win[v]) /\ SameWork(n.win[v].job, u.win[v].job)
  BY SameIsNarrower DEF Apart
<1>2. ViewsFollow(n, k)
  BY <1>1, FollowNarrow DEF Sane
<1>3. WindowSane(n.win[w], k)
  BY SameWorkSane, SaneWindow DEF WindowSane
<1>4. n.win[w].job.kind # "None" <=> n.lane = w
  BY DEF Sane, Orderly, SameWork
<1> QED BY <1>2, <1>3, <1>4, WindowChange

\* A window takes the free lane for its work.
LEMMA WorkStarts ==
    ASSUME NEW u, NEW k, Sane(u, k), NEW n \in Process, NEW w \in Window,
           u.win[w].running, Apart(u, n, w), ShownIn(u, n), u.lane = Nobody, n.lane = w,
           Narrower(n.win[w], u.win[w]), n.win[w].restore = u.win[w].restore,
           n.win[w].job.kind # "None", JobPlaced(n.win[w].job),
           Timed(n.win[w].job.done, k.backing), JobGrounded(n.win[w].job, k)
    PROVE  Sane(n, k)
<1>1. \A v \in Window : Narrower(n.win[v], u.win[v])
  BY SameIsNarrower DEF Apart
<1>2. ViewsFollow(n, k)
  BY <1>1, FreeLane, ViewsNarrow DEF ViewsFollow
<1>3. WindowSane(n.win[w], k)
  BY SaneWindow DEF WindowSane
<1> QED BY <1>2, <1>3, WindowChange

\* What windows take for true changes, and it is what the manifest says.
LEMMA Retold ==
    ASSUME NEW u, NEW k, Sane(u, k), NEW n \in Process,
           n.tab = u.tab, n.home = u.home, n.lane = u.lane, n.sweeper = u.sweeper,
           \A v \in Window : /\ n.win[v].running = u.win[v].running
                             /\ n.win[v].job = u.win[v].job
                             /\ n.win[v].restore = u.win[v].restore,
           ViewsTrue(n, k.entry)
    PROVE  Sane(n, k)
<1>0. n.sweeper # Nobody => n.sweeper \in Window
  BY DEF Process
<1>1. OnlyRunning(n)
  BY <1>0 DEF Sane, OnlyRunning
<1>2. Orderly(n, k)
  BY DEF Sane, Orderly
<1>3. ViewsFollow(n, k) /\ \A v \in Window : JobGrounded(n.win[v].job, k)
  BY DEF Sane, ViewsFollow
<1> QED BY <1>1, <1>2, <1>3 DEF Sane

\* Whoever holds the lane makes a step on the disk.
LEMMA WorkStep ==
    ASSUME NEW u, NEW k, Sane(u, k), NEW n \in Process, NEW w \in Window,
           u.win[w].job.kind # "None", n.win[w].job.kind # "None",
           Apart(u, n, w), n.tab = u.tab, n.home = u.home, n.lane = u.lane,
           NEW j \in Disk, j.backing = k.backing, WindowSane(n.win[w], j), ViewsFollow(n, j)
    PROVE  Sane(n, j)
<1>1. u.lane = w /\ u.win[w].running
      /\ \A v \in Window : v # w => u.win[v].job.kind = "None" /\ u.win[v].job.step = "None"
  BY HeldLane
<1>2. ASSUME NEW v \in Window, v # w
      PROVE  JobGrounded(u.win[v].job, j)
  BY <1>1, <1>2 DEF JobGrounded
<1>3. n.win[w].running /\ \A v \in Window : n.win[v].running = u.win[v].running
  BY <1>1 DEF Apart
<1>4. n.sweeper = u.sweeper /\ (n.sweeper # Nobody => n.sweeper \in Window)
  BY DEF Apart, Process
<1>5. OnlyRunning(n)
  <2>1. \A d \in Doc : n.tab[d] # Closed => n.home[d] \in Window /\ n.win[n.home[d]].running
    BY <1>3 DEF Sane, OnlyRunning
  <2>2. \A v \in Window : ~n.win[v].running =>
            n.win[v].job.kind = "None" /\ \A d \in Doc : n.win[v].restore[d].stage = "None"
    BY <1>3 DEF Sane, OnlyRunning, Apart
  <2>3. (\E v \in Window : n.win[v].running) => n.sweeper # Nobody
    BY <1>3, <1>4 DEF Sane, OnlyRunning
  <2>4. n.sweeper # Nobody => n.win[n.sweeper].running
    BY <1>3, <1>4 DEF Sane, OnlyRunning
  <2> QED BY <2>1, <2>2, <2>3, <2>4 DEF OnlyRunning
<1>6. Orderly(n, j)
  BY <1>1 DEF Sane, Orderly, Apart, WindowSane
<1>7. \A v \in Window : JobGrounded(n.win[v].job, j)
  BY <1>2 DEF Apart, WindowSane
<1> QED BY <1>5, <1>6, <1>7 DEF Sane

\* Files get new versions and copies are set aside: nobody's work notices.
LEMMA DiskAside ==
    ASSUME NEW u, NEW k, Sane(u, k), NEW j \in Disk,
           j.entry = k.entry, j.body = k.body, \A d \in Doc : k.backing[d] <= j.backing[d]
    PROVE  Sane(u, j) /\ (Timed(k.entry, k.backing) => Timed(j.entry, j.backing))
           /\ (Described(k) => Described(j))
<1>1. \A d \in Doc : k.backing[d] \in Nat /\ j.backing[d] \in Nat
  BY DEF Sane, Disk
<1>2. ASSUME NEW m, Timed(m, k.backing)
      PROVE  Timed(m, j.backing)
  BY <1>1, <1>2 DEF Timed
<1>3. Orderly(u, j)
  BY <1>2 DEF Sane, Orderly
<1>4. ViewsFollow(u, j)
  BY DEF Sane, ViewsFollow, SweepUntold
<1>5. \A w \in Window : JobGrounded(u.win[w].job, j)
  BY DEF Sane, JobGrounded
<1>6. Described(k) => Described(j)
  BY DEF Described
<1>7. Timed(k.entry, k.backing) => Timed(j.entry, j.backing)
  BY <1>2
<1> QED BY <1>3, <1>4, <1>5, <1>6, <1>7 DEF Sane

-----------------------------------------------------------------------------
(* The operators of a turn.                                                 *)

\* What a turn leaves of the editors and windows as they are.
Keeps(u, n) ==
    /\ n.tab = u.tab /\ n.home = u.home /\ n.sweeper = u.sweeper
    /\ \A v \in Window : n.win[v].running = u.win[v].running

LEMMA KeepsTwice ==
    ASSUME NEW u, NEW m, NEW n, Keeps(u, m), Keeps(m, n)
    PROVE  Keeps(u, n)
BY DEF Keeps

LEMMA KeepsShown ==
    ASSUME NEW u, NEW k, Sane(u, k), NEW n, n.tab = u.tab, n.home = u.home
    PROVE  ShownIn(u, n)
BY SaneWindow DEF Sane, OnlyRunning, ShownIn

LEMMA StartPassSane ==
    ASSUME NEW u, NEW k, Sane(u, k), NEW w \in Window, u.win[w].running, u.lane = Nobody,
           NEW c \in SUBSET Doc, \A d \in c : Open(u, d)
    PROVE  Sane(StartPass(u, w, c), k) /\ Keeps(u, StartPass(u, w, c))
<1> DEFINE needed == {d \in c : NeedsRegistration(u, w, d)}
           gen == [d \in Doc |-> IF d \in c THEN u.tab[d] ELSE {}]
           step == IF needed = {} THEN "Capture" ELSE "Register"
           job == [IdleJob EXCEPT !.kind = "Pass", !.step = step, !.todo = c, !.gen = gen,
                                  !.fresh = c]
           x == [u.win[w] EXCEPT !.doomed = @ \ c, !.job = job]
           m == [u EXCEPT !.lane = w]
           n == StartPass(u, w, c)
<1>1. u \in Process /\ u.win[w] \in WindowState /\ m \in Process
  BY WindowType DEF Sane, Process
<1>2. gen \in [Doc -> Text]
  BY <1>1 DEF Process, Open, Text
<1>3. step \in {"Capture", "Register"}
  OBVIOUS
<1>4. /\ job.kind = "Pass" /\ job.step = step /\ job.doc = NoDoc /\ job.todo = c
      /\ job.done = NoManifest
  BY DEF IdleJob
<1> HIDE DEF gen, step
<1>5. job \in Job
  BY <1>2, <1>3, IdleTypes DEF Job
<1>6. n = With(m, w, x)
  BY <1>1, ZenonT(30) DEF StartPass, gen, step, Process, WindowState, With
<1>7. x.job = job /\ x.running = u.win[w].running /\ x.trusted = u.win[w].trusted
      /\ x.known = u.win[w].known /\ x.restore = u.win[w].restore
  BY <1>1 DEF WindowState
<1> HIDE DEF job
<1>8. x \in WindowState
  BY <1>1, <1>5 DEF WindowState
<1> HIDE DEF x, n
<1>9. /\ n \in Process /\ n.win[w] = x /\ \A v \in Window : v # w => n.win[v] = u.win[v]
      /\ n.tab = u.tab /\ n.home = u.home /\ n.lane = w /\ n.sweeper = u.sweeper
  <2>1. m.win = u.win /\ m.tab = u.tab /\ m.home = u.home /\ m.lane = w /\ m.sweeper = u.sweeper
    BY <1>1 DEF Process
  <2> HIDE DEF m
  <2>2. /\ n \in Process /\ n.win[w] = x
        /\ \A v \in Window : v # w => n.win[v] = m.win[v]
        /\ n.tab = m.tab /\ n.home = m.home /\ n.lane = m.lane /\ n.sweeper = m.sweeper
    BY <1>1, <1>6, <1>8, PutWindow
  <2> QED BY <2>1, <2>2
<1>10. Apart(u, n, w)
  BY <1>7, <1>9, SentinelAssumption DEF Apart
<1>11. ShownIn(u, n)
  BY <1>9, KeepsShown
<1>12. Narrower(n.win[w], u.win[w])
  BY <1>1, <1>7, <1>9 DEF Narrower
<1>13. JobPlaced(job)
  BY <1>3, <1>4, SentinelAssumption DEF JobPlaced, StepsOf
<1>14. Timed(job.done, k.backing)
  BY <1>4 DEF Timed, NoManifest
<1>15. JobGrounded(job, k)
  <2>1. CASE step = "Register"
    BY <1>4, <2>1 DEF JobGrounded
  <2>2. CASE step = "Capture"
    <3>1. \A d \in c \cap FileBacked : u.win[w].known[d] # NoEntry /\ u.win[w].trusted
      BY <2>2 DEF step, NeedsRegistration
    <3>2. \A d \in c \cap FileBacked : k.entry[d] # NoEntry
      BY <3>1, FreeLane DEF ViewsTrue
    <3> QED BY <1>4, <2>2, <3>2, SentinelAssumption DEF JobGrounded, FileBacked
  <2> QED BY <1>3, <2>1, <2>2
<1>16. Sane(n, k)
  BY <1>4, <1>7, <1>9, <1>10, <1>11, <1>12, <1>13, <1>14, <1>15, WorkStarts
<1>17. Keeps(u, n)
  BY <1>7, <1>9 DEF Keeps
<1> QED BY <1>16, <1>17 DEF n

\* A window is replaced by one with the same work and a view that says no more.
LEMMA QuietWindow ==
    ASSUME NEW u, NEW k, Sane(u, k), NEW w \in Window, u.win[w].running,
           NEW x \in WindowState, Narrower(x, u.win[w]), SameWork(x.job, u.win[w].job),
           \A d \in Doc : x.restore[d].stage = "Installing" => x.restore[d].found \in Text
    PROVE  /\ Sane(With(u, w, x), k) /\ Keeps(u, With(u, w, x))
           /\ With(u, w, x).lane = u.lane /\ With(u, w, x).win[w] = x
<1>1. PICK n : n = With(u, w, x)
  OBVIOUS
<1>2. /\ n \in Process /\ n.win[w] = x
      /\ \A v \in Window : v # w => n.win[v] = u.win[v]
      /\ n.tab = u.tab /\ n.home = u.home /\ n.lane = u.lane /\ n.sweeper = u.sweeper
  BY <1>1, PutWindow DEF Sane
<1>3. Apart(u, n, w)
  BY <1>2 DEF Apart, Narrower
<1>4. ShownIn(u, n)
  BY <1>2, KeepsShown
<1>5. /\ Narrower(n.win[w], u.win[w]) /\ SameWork(n.win[w].job, u.win[w].job)
      /\ \A d \in Doc : n.win[w].restore[d].stage = "Installing"
                            => n.win[w].restore[d].found \in Text
  BY <1>2
<1>6. Sane(n, k)
  BY <1>2, <1>3, <1>4, <1>5, QuietChange
<1>7. Keeps(u, n)
  BY <1>2 DEF Keeps, Narrower
<1> QED BY <1>1, <1>2, <1>6, <1>7

\* Claims, wakeups and timers say nothing of windows.
LEMMA QuietFields ==
    ASSUME NEW u, NEW k, Sane(u, k), NEW n \in Process,
           n.win = u.win, n.tab = u.tab, n.home = u.home, n.lane = u.lane,
           n.sweeper = u.sweeper
    PROVE  Sane(n, k) /\ Keeps(u, n)
<1>1. OnlyRunning(n) /\ Orderly(n, k)
  BY DEF Sane, OnlyRunning, Orderly
<1>2. ViewsFollow(n, k)
  <2>1. ASSUME NEW m, ViewsTrue(u, m)
        PROVE  ViewsTrue(n, m)
    BY <2>1 DEF ViewsTrue
  <2> QED BY <2>1 DEF Sane, ViewsFollow, SweepUntold
<1> QED BY <1>1, <1>2 DEF Sane, Keeps

LEMMA RestoresSane ==
    ASSUME NEW u, NEW k, Sane(u, k), NEW w \in Window
    PROVE  \A d \in Doc : u.win[w].restore[d].stage = "Installing"
                              => u.win[w].restore[d].found \in Text
BY DEF Sane, Orderly

\* A window's queues, tombstones and reminders say nothing of its work.
LEMMA StillWindow ==
    ASSUME NEW u, NEW k, Sane(u, k), NEW w \in Window, u.win[w].running,
           NEW x \in WindowState, x.running = u.win[w].running,
           x.trusted = u.win[w].trusted, x.known = u.win[w].known,
           x.restore = u.win[w].restore, x.job = u.win[w].job
    PROVE  /\ Sane(With(u, w, x), k) /\ Keeps(u, With(u, w, x))
           /\ With(u, w, x).lane = u.lane /\ With(u, w, x).win[w] = x
<1>1. Narrower(x, u.win[w]) /\ SameWork(x.job, u.win[w].job)
  BY DEF Narrower, SameWork
<1>2. \A d \in Doc : x.restore[d].stage = "Installing" => x.restore[d].found \in Text
  BY RestoresSane
<1> QED BY <1>1, <1>2, QuietWindow

\* A window remembers a pass, or forgets it.
Remembers(x, b) == [x EXCEPT !.pending = b]

LEMMA PendingSane ==
    ASSUME NEW u, NEW k, Sane(u, k), NEW w \in Window, u.win[w].running,
           NEW b, b \in BOOLEAN
    PROVE  /\ Sane(With(u, w, Remembers(u.win[w], b)), k)
           /\ Keeps(u, With(u, w, Remembers(u.win[w], b)))
           /\ With(u, w, Remembers(u.win[w], b)).lane = u.lane
<1>1. u \in Process /\ u.win[w] \in WindowState
  BY WindowType DEF Sane
<1>2. PICK x : x = Remembers(u.win[w], b)
  OBVIOUS
<1>3. x \in WindowState /\ x.running = u.win[w].running /\ x.trusted = u.win[w].trusted
      /\ x.known = u.win[w].known /\ x.restore = u.win[w].restore /\ x.job = u.win[w].job
  BY <1>1, <1>2 DEF WindowState, Remembers
<1> QED BY <1>2, <1>3, StillWindow

LEMMA TickSane ==
    ASSUME NEW u, NEW k, Sane(u, k), NEW w \in Window, u.win[w].running
    PROVE  Sane(Tick(u, w), k) /\ Keeps(u, Tick(u, w))
<1> DEFINE R == [d \in Doc |-> IF u.win[w].restore[d].stage = "Retry"
                               THEN [u.win[w].restore[d] EXCEPT !.stage = "Copying"]
                               ELSE u.win[w].restore[d]]
           x == [u.win[w] EXCEPT !.restore = R]
           retried == [u EXCEPT !.win[w].restore = R]
           mine == {d \in Eligible(u, w) : ~OwnedElsewhere(u, w, d)}
           candidates == {d \in mine : MayWrite(u, w, d)}
           claim == [d \in Doc |-> IF d \in mine THEN w ELSE retried.claim[d]]
           late == retried.win[w].pending \/ candidates # Eligible(u, w)
<1>1. u \in Process /\ u.win[w] \in WindowState /\ u.win[w].restore \in [Doc -> Restore]
  BY WindowType DEF Sane
<1>2. R \in [Doc -> Restore]
  BY <1>1 DEF Restore
<1>3. \A d \in Doc : R[d].stage = "Installing" => R[d].found \in Text
  BY <1>1, RestoresSane DEF Restore
<1>4. retried = With(u, w, x)
  BY DEF With
<1>5. mine \subseteq Doc /\ candidates \subseteq mine
  BY DEF Eligible
<1>6. \A d \in candidates : Open(u, d)
  BY DEF Eligible, Modified
<1> HIDE DEF R
<1>7. x \in WindowState /\ Narrower(x, u.win[w]) /\ SameWork(x.job, u.win[w].job)
      /\ x.restore = R
  BY <1>1, <1>2 DEF WindowState, Narrower, SameWork
<1> HIDE DEF x, mine, candidates
<1>8. Sane(retried, k) /\ Keeps(u, retried) /\ retried.lane = u.lane /\ retried.win[w] = x
  <2>1. \A d \in Doc : x.restore[d].stage = "Installing" => x.restore[d].found \in Text
    BY <1>3, <1>7
  <2> HIDE DEF retried
  <2>2. /\ Sane(With(u, w, x), k) /\ Keeps(u, With(u, w, x))
        /\ With(u, w, x).lane = u.lane /\ With(u, w, x).win[w] = x
    BY <1>7, <2>1, QuietWindow
  <2> QED BY <1>4, <2>2
<1>9. retried.win[w].running
  BY <1>8 DEF Keeps
<1>10. retried \in Process /\ retried.win[w] \in WindowState
  BY <1>8, WindowType DEF Sane
<1>11. PICK b \in BOOLEAN : b <=> late
  OBVIOUS
<1> DEFINE noted == With(retried, w, Remembers(retried.win[w], b))
           claimed == [noted EXCEPT !.claim = claim]
           both == [retried EXCEPT !.claim = claim, !.win[w].pending = late]
<1>12. Tick(u, w) = IF Busy(u, w) \/ Sweeping(u, w) THEN With(retried, w, Remembers(retried.win[w], TRUE))
                    ELSE IF candidates = {} THEN claimed
                    ELSE StartPass(claimed, w, candidates)
  <2>1. claimed = both
    <3>1. b = late
      BY <1>11
    <3> HIDE DEF retried, claim, late
    <3> QED BY <1>10, <3>1 DEF Process, Remembers, With
  <2>2. Tick(u, w) = IF Busy(u, w) \/ Sweeping(u, w) THEN With(retried, w, Remembers(retried.win[w], TRUE))
                     ELSE IF candidates = {} THEN both
                     ELSE StartPass(both, w, candidates)
    BY DEF Tick, R, mine, candidates, Remembers, With
  <2> HIDE DEF claimed, both
  <2> QED BY <2>1, <2>2
<1> HIDE DEF retried
<1>13. claim \in [Doc -> {Nobody} \cup Window]
  BY <1>10 DEF Process
<1> HIDE DEF late, claim
<1>14. Sane(With(retried, w, Remembers(retried.win[w], TRUE)), k)
       /\ Keeps(u, With(retried, w, Remembers(retried.win[w], TRUE)))
  BY <1>8, <1>9, PendingSane, KeepsTwice
<1>15. Sane(noted, k) /\ Keeps(u, noted) /\ noted.lane = u.lane
  <2>0. b \in BOOLEAN
    BY <1>11
  <2>1. Sane(noted, k) /\ Keeps(retried, noted) /\ noted.lane = retried.lane
    BY <1>8, <1>9, <2>0, PendingSane
  <2> QED BY <1>8, <2>1, KeepsTwice
<1> HIDE DEF noted
<1>16. Sane(claimed, k) /\ Keeps(u, claimed) /\ claimed.lane = u.lane
  <2>1. noted \in Process
    BY <1>15 DEF Sane
  <2>2. claimed \in Process /\ claimed.win = noted.win /\ claimed.tab = noted.tab
        /\ claimed.home = noted.home /\ claimed.lane = noted.lane
        /\ claimed.sweeper = noted.sweeper
    BY <2>1, <1>13 DEF Process
  <2> QED BY <1>15, <2>2, QuietFields, KeepsTwice
<1> HIDE DEF claimed
<1>17. ASSUME ~(Busy(u, w) \/ Sweeping(u, w))
       PROVE  /\ Sane(StartPass(claimed, w, candidates), k)
              /\ Keeps(u, StartPass(claimed, w, candidates))
  <2>1. u.win[w].job.kind = "None"
    BY <1>1, <1>17 DEF Busy, Mutating, Sweeping, WindowState, Job
  <2>2. u.lane = Nobody
    BY <1>17, <2>1 DEF Busy, Sane, Orderly
  <2>3. claimed.lane = Nobody /\ claimed.win[w].running
    BY <2>2, <1>16 DEF Keeps
  <2>4. candidates \in SUBSET Doc /\ \A d \in candidates : Open(claimed, d)
    BY <1>5, <1>6, <1>16 DEF Open, Keeps
  <2> QED BY <1>16, <2>3, <2>4, StartPassSane, KeepsTwice
<1> QED BY <1>12, <1>14, <1>16, <1>17

\* The process with its lane in w's hands.
Taken(u, w) == [u EXCEPT !.lane = w]

\* A window x takes the free lane for the work it has.
LEMMA WorkWindow ==
    ASSUME NEW u, NEW k, Sane(u, k), NEW w \in Window, u.win[w].running, u.lane = Nobody,
           NEW x \in WindowState, x.running = u.win[w].running,
           x.trusted = u.win[w].trusted, x.known = u.win[w].known,
           x.restore = u.win[w].restore, x.job.kind # "None", JobPlaced(x.job),
           Timed(x.job.done, k.backing), JobGrounded(x.job, k)
    PROVE  Sane(With(Taken(u, w), w, x), k) /\ Keeps(u, With(Taken(u, w), w, x))
<1>1. PICK m : m = Taken(u, w)
  OBVIOUS
<1>2. PICK n : n = With(m, w, x)
  OBVIOUS
<1>3. /\ m \in Process /\ m.win = u.win /\ m.tab = u.tab /\ m.home = u.home /\ m.lane = w
      /\ m.sweeper = u.sweeper
  BY <1>1 DEF Sane, Process, Taken
<1>4. /\ n \in Process /\ n.win[w] = x /\ \A v \in Window : v # w => n.win[v] = u.win[v]
      /\ n.tab = u.tab /\ n.home = u.home /\ n.lane = w /\ n.sweeper = u.sweeper
  BY <1>2, <1>3, PutWindow
<1>5. Apart(u, n, w)
  BY <1>4, SentinelAssumption DEF Apart
<1>6. ShownIn(u, n)
  BY <1>4, KeepsShown
<1>7. Narrower(n.win[w], u.win[w])
  BY <1>4 DEF Narrower
<1>8. Sane(n, k)
  BY <1>4, <1>5, <1>6, <1>7, WorkStarts
<1>9. Keeps(u, n)
  BY <1>4 DEF Keeps
<1> QED BY <1>1, <1>2, <1>8, <1>9

LEMMA NotBusy ==
    ASSUME NEW u, NEW k, Sane(u, k), NEW w \in Window, ~Busy(u, w), ~Sweeping(u, w)
    PROVE  u.lane = Nobody
<1>1. u.win[w].job.kind \in {"None", "Pass", "Delete", "Sweep"}
  BY WindowType DEF Sane, Job
<1>2. u.win[w].job.kind = "None"
  BY <1>1 DEF Busy, Mutating, Sweeping
<1> QED BY <1>2 DEF Busy, Sane, Orderly

LEMMA DriveSane ==
    ASSUME NEW u, NEW k, Sane(u, k), NEW w \in Window, u.win[w].running
    PROVE  Sane(Drive(u, w), k) /\ Keeps(u, Drive(u, w))
<1>1. u \in Process /\ u.win[w] \in WindowState /\ u.win[w].deletes \in Seq(Doc)
      /\ u.win[w].stale \in SUBSET Doc
  BY WindowType DEF Sane
<1>2. CASE Busy(u, w) \/ Sweeping(u, w)
  BY <1>2 DEF Drive, Keeps
<1>3. CASE ~(Busy(u, w) \/ Sweeping(u, w)) /\ u.win[w].deletes # <<>>
  <2>1. PICK d : d = Head(u.win[w].deletes)
    OBVIOUS
  <2>2. PICK rest : rest = Tail(u.win[w].deletes)
    OBVIOUS
  <2>3. d \in Doc /\ rest \in Seq(Doc)
    BY <1>1, <1>3, <2>1, <2>2
  <2>4. PICK step \in {"Preserve", "Body"} :
            step = IF d \in u.win[w].stale THEN "Preserve" ELSE "Body"
    OBVIOUS
  <2>5. PICK job : job = [IdleJob EXCEPT !.kind = "Delete", !.doc = d, !.step = step]
    OBVIOUS
  <2>6. job \in Job /\ job.kind = "Delete" /\ job.doc = d /\ job.step = step
        /\ job.done = NoManifest
    BY <2>3, <2>4, <2>5, IdleTypes DEF Job, IdleJob
  <2>7. PICK x : x = [u.win[w] EXCEPT !.deletes = rest, !.stale = @ \ {d}, !.job = job]
    OBVIOUS
  <2>8. /\ x \in WindowState /\ x.running = u.win[w].running
        /\ x.trusted = u.win[w].trusted /\ x.known = u.win[w].known
        /\ x.restore = u.win[w].restore /\ x.job = job
    BY <1>1, <2>3, <2>6, <2>7 DEF WindowState
  <2>9. Drive(u, w) = With(Taken(u, w), w, x)
    <3>1. Drive(u, w) = [u EXCEPT !.lane = w, !.win[w].deletes = Tail(@),
                                  !.win[w].stale = @ \ {d}, !.win[w].job = job]
      BY <1>3, <2>1, <2>4, <2>5 DEF Drive
    <3>2. [u EXCEPT !.lane = w, !.win[w].deletes = Tail(@),
                    !.win[w].stale = @ \ {d}, !.win[w].job = job] = With(Taken(u, w), w, x)
      <4>1. PICK stale : stale = u.win[w].stale \ {d}
        OBVIOUS
      <4>2. [u EXCEPT !.lane = w, !.win[w].deletes = Tail(@),
                      !.win[w].stale = @ \ {d}, !.win[w].job = job]
            = [u EXCEPT !.lane = w, !.win[w].deletes = rest, !.win[w].stale = stale,
                        !.win[w].job = job]
        BY <1>1, <2>2, <4>1 DEF Process, WindowState
      <4>3. x = [u.win[w] EXCEPT !.deletes = rest, !.stale = stale, !.job = job]
        BY <2>7, <4>1
      <4>4. [u EXCEPT !.lane = w, !.win[w].deletes = rest, !.win[w].stale = stale,
                      !.win[w].job = job]
            = [Taken(u, w) EXCEPT !.win[w] =
                   [u.win[w] EXCEPT !.deletes = rest, !.stale = stale, !.job = job]]
        BY <1>1, ZenonT(30) DEF Process, WindowState, Taken
      <4> QED BY <4>2, <4>3, <4>4 DEF With
    <3> QED BY <3>1, <3>2
  <2>10. JobPlaced(job) /\ Timed(job.done, k.backing) /\ JobGrounded(job, k)
    BY <2>3, <2>4, <2>6 DEF JobPlaced, StepsOf, Timed, NoManifest, JobGrounded
  <2>11. u.lane = Nobody
    BY <1>3, NotBusy
  <2> QED BY <2>6, <2>8, <2>9, <2>10, <2>11, WorkWindow
<1>4. CASE ~(Busy(u, w) \/ Sweeping(u, w)) /\ u.win[w].deletes = <<>>
  <2>1. PICK n : n = With(u, w, Remembers(u.win[w], FALSE))
    OBVIOUS
  <2>2. Sane(n, k) /\ Keeps(u, n)
    BY <2>1, PendingSane
  <2>3. n.win[w].running
    BY <2>2 DEF Keeps
  <2>4. Sane(Tick(n, w), k) /\ Keeps(u, Tick(n, w))
    BY <2>2, <2>3, TickSane, KeepsTwice
  <2>5. n = [u EXCEPT !.win[w].pending = FALSE]
    BY <2>1 DEF With, Remembers
  <2>6. Keeps(u, u)
    BY DEF Keeps
  <2> QED BY <1>4, <2>4, <2>5, <2>6 DEF Drive
<1> QED BY <1>2, <1>3, <1>4

\* Work that has ended leaves the lane to whoever waits for it.
LEMMA FinishSane ==
    ASSUME NEW u, NEW k, Sane(u, k), NEW w \in Window, u.win[w].job.kind # "None",
           ViewsTrue(u, k.entry)
    PROVE  Sane(Finish(u, w), k) /\ Keeps(u, Finish(u, w))
<1>1. /\ u.lane = w /\ u.win[w].running
      /\ \A v \in Window : v # w => u.win[v].job.kind = "None" /\ u.win[v].job.step = "None"
  BY HeldLane
<1>2. u \in Process /\ u.win[w] \in WindowState
  BY WindowType DEF Sane
<1>3. PICK x : x = [u.win[w] EXCEPT !.job = IdleJob]
  OBVIOUS
<1>4. /\ x \in WindowState /\ x.running = u.win[w].running /\ x.trusted = u.win[w].trusted
      /\ x.known = u.win[w].known /\ x.restore = u.win[w].restore /\ x.job = IdleJob
  BY <1>2, <1>3, IdleTypes DEF WindowState
<1>5. PICK m : m = With(u, w, x)
  OBVIOUS
<1>6. /\ m \in Process /\ m.win[w] = x /\ \A v \in Window : v # w => m.win[v] = u.win[v]
      /\ m.tab = u.tab /\ m.home = u.home /\ m.lane = w /\ m.sweeper = u.sweeper
  BY <1>1, <1>2, <1>4, <1>5, PutWindow
<1>7. PICK n : n = Release(m, w)
  OBVIOUS
<1>8. /\ n \in Process /\ n.win = m.win /\ n.tab = m.tab /\ n.home = m.home
      /\ n.lane = Nobody /\ n.sweeper = m.sweeper
  BY <1>6, <1>7 DEF Release, Process
<1>9. Apart(u, n, w)
  BY <1>1, <1>4, <1>6, <1>8, SentinelAssumption DEF Apart
<1>10. ShownIn(u, n)
  BY <1>6, <1>8, KeepsShown
<1>11. WindowSane(n.win[w], k)
  <2>1. JobPlaced(IdleJob) /\ Timed(IdleJob.done, k.backing) /\ JobGrounded(IdleJob, k)
    BY SentinelAssumption
       DEF IdleJob, JobPlaced, StepsOf, Timed, NoManifest, JobGrounded
  <2>2. \A d \in Doc : x.restore[d].stage = "Installing" => x.restore[d].found \in Text
    BY <1>4, RestoresSane
  <2> QED BY <1>4, <1>6, <1>8, <2>1, <2>2 DEF WindowSane
<1>12. ViewsFollow(n, k)
  <2>1. \A v \in Window : Narrower(n.win[v], u.win[v])
    BY <1>4, <1>6, <1>8, SameIsNarrower DEF Narrower
  <2> QED BY <2>1, ViewsNarrow DEF ViewsFollow
<1>13. Sane(n, k)
  <2>1. n.win[w].job.kind = "None" /\ n.lane # w
    BY <1>4, <1>6, <1>8, SentinelAssumption DEF IdleJob
  <2> QED BY <1>1, <1>8, <1>9, <1>10, <1>11, <1>12, <2>1, WindowChange
<1>14. Keeps(u, n) /\ n.win[w].running
  BY <1>1, <1>4, <1>6, <1>8 DEF Keeps
<1>15. Finish(u, w) = Drive(n, w)
  BY <1>3, <1>5, <1>7 DEF Finish, With
<1> QED BY <1>13, <1>14, <1>15, DriveSane, KeepsTwice

LEMMA QueueDeleteSane ==
    ASSUME NEW u, NEW k, Sane(u, k), NEW w \in Window, u.win[w].running, NEW d \in Doc
    PROVE  Sane(QueueDelete(u, w, d), k) /\ Keeps(u, QueueDelete(u, w, d))
<1>1. u \in Process /\ u.win[w] \in WindowState /\ u.win[w].deletes \in Seq(Doc)
      /\ u.win[w].stale \in SUBSET Doc /\ u.win[w].job \in Job /\ u.win[w].known \in Manifest
  BY WindowType DEF Sane
<1>2. CASE OwnedElsewhere(u, w, d)
  BY <1>2 DEF QueueDelete, Keeps
<1>3. CASE ~OwnedElsewhere(u, w, d)
  <2>1. PICK stale \in SUBSET Doc :
            stale = IF Held(u, w, d) /\ u.win[w].known[d] # NoEntry
                    THEN u.win[w].stale \cup {d} ELSE u.win[w].stale
    BY <1>1
  <2>2. PICK queue \in Seq(Doc) : queue = Append(Without(u.win[w].deletes, d), d)
    BY <1>1, WithoutType
  <2>3. PICK job : job = [u.win[w].job EXCEPT !.fresh = @ \ {d}]
    OBVIOUS
  <2>4. job \in Job /\ SameWork(job, u.win[w].job)
    BY <1>1, <2>3 DEF Job, SameWork
  <2>5. PICK known : known = [u.win[w].known EXCEPT ![d] = NoEntry]
    OBVIOUS
  <2>6. known \in Manifest /\ \A e \in Doc : known[e] \in {NoEntry, u.win[w].known[e]}
    BY <1>1, <2>5 DEF Manifest
  <2>7. PICK x : x = [u.win[w] EXCEPT !.stale = stale, !.doomed = @ \cup {d},
                                      !.known = known, !.job = job, !.deletes = queue]
    OBVIOUS
  <2>8. /\ x \in WindowState /\ x.running = u.win[w].running
        /\ x.trusted = u.win[w].trusted /\ x.known = known
        /\ x.restore = u.win[w].restore /\ x.job = job
    BY <1>1, <2>1, <2>2, <2>4, <2>6, <2>7 DEF WindowState
  <2>9. Narrower(x, u.win[w]) /\ SameWork(x.job, u.win[w].job)
    BY <2>4, <2>6, <2>8 DEF Narrower
  <2>10. \A e \in Doc : x.restore[e].stage = "Installing" => x.restore[e].found \in Text
    BY <2>8, RestoresSane
  <2>11. PICK m : m = With(u, w, x)
    OBVIOUS
  <2>12. Sane(m, k) /\ Keeps(u, m)
    BY <2>8, <2>9, <2>10, <2>11, QuietWindow
  <2>13. QueueDelete(u, w, d) = [m EXCEPT !.claim[d] = w]
    <3>1. x = Doomed(u, w, d)
      BY <1>1, <2>1, <2>2, <2>3, <2>5, <2>7 DEF WindowState, Doomed
    <3>2. QueueDelete(u, w, d) = [u EXCEPT !.claim[d] = w, !.win[w] = x]
      BY <1>3, <3>1 DEF QueueDelete
    <3>3. [u EXCEPT !.claim[d] = w, !.win[w] = x] = [m EXCEPT !.claim[d] = w]
      BY <1>1, <2>11 DEF Process, With
    <3> QED BY <3>2, <3>3
  <2>14. PICK n : n = [m EXCEPT !.claim[d] = w]
    OBVIOUS
  <2>15. /\ n \in Process /\ n.win = m.win /\ n.tab = m.tab /\ n.home = m.home
         /\ n.lane = m.lane /\ n.sweeper = m.sweeper
    BY <2>12, <2>14 DEF Sane, Process
  <2>16. Sane(n, k) /\ Keeps(u, n)
    BY <2>12, <2>15, QuietFields, KeepsTwice
  <2> QED BY <2>13, <2>14, <2>16
<1> QED BY <1>2, <1>3

LEMMA DeleteDraftSane ==
    ASSUME NEW u, NEW k, Sane(u, k), NEW w \in Window, u.win[w].running, NEW d \in Doc
    PROVE  Sane(DeleteDraft(u, w, d), k) /\ Keeps(u, DeleteDraft(u, w, d))
<1>1. PICK m : m = QueueDelete(u, w, d)
  OBVIOUS
<1>2. Sane(m, k) /\ Keeps(u, m)
  BY <1>1, QueueDeleteSane
<1>3. m.win[w].running
  BY <1>2 DEF Keeps
<1>4. Sane(Drive(m, w), k) /\ Keeps(u, Drive(m, w))
  BY <1>2, <1>3, DriveSane, KeepsTwice
<1>5. Keeps(u, u)
  BY DEF Keeps
<1> QED BY <1>1, <1>4, <1>5 DEF DeleteDraft

-----------------------------------------------------------------------------
(* Restores, and what windows take for true.                                *)

\* The restore of d in w becomes r.
RestoreAs(u, w, d, r) == [u EXCEPT !.win[w].restore[d] = r]

LEMMA RestoreAsSane ==
    ASSUME NEW u, NEW k, Sane(u, k), NEW w \in Window, u.win[w].running, NEW d \in Doc,
           NEW r \in Restore, r.stage = "Installing" => r.found \in Text
    PROVE  /\ Sane(RestoreAs(u, w, d, r), k) /\ Keeps(u, RestoreAs(u, w, d, r))
           /\ RestoreAs(u, w, d, r).dirty = u.dirty
<1>1. u \in Process /\ u.win[w] \in WindowState /\ u.win[w].restore \in [Doc -> Restore]
  BY WindowType DEF Sane
<1>2. PICK x : x = [u.win[w] EXCEPT !.restore[d] = r]
  OBVIOUS
<1>3. /\ x \in WindowState /\ x.running = u.win[w].running /\ x.trusted = u.win[w].trusted
      /\ x.known = u.win[w].known /\ x.job = u.win[w].job
      /\ x.restore = [u.win[w].restore EXCEPT ![d] = r]
  BY <1>1, <1>2 DEF WindowState
<1>4. Narrower(x, u.win[w]) /\ SameWork(x.job, u.win[w].job)
  BY <1>3 DEF Narrower, SameWork
<1>5. \A e \in Doc : x.restore[e].stage = "Installing" => x.restore[e].found \in Text
  BY <1>1, <1>3, RestoresSane
<1>6. RestoreAs(u, w, d, r) = With(u, w, x)
  BY <1>2 DEF RestoreAs, With
<1>7. With(u, w, x).dirty = u.dirty
  BY <1>1, <1>3, PutWindow
<1>8. Sane(With(u, w, x), k) /\ Keeps(u, With(u, w, x))
  BY <1>3, <1>4, <1>5, QuietWindow
<1> QED BY <1>6, <1>7, <1>8

LEMMA DroppedSane ==
    ASSUME NEW u, NEW k, Sane(u, k), NEW w \in Window, u.win[w].running, NEW d \in Doc
    PROVE  Sane(Dropped(u, w, d), k) /\ Keeps(u, Dropped(u, w, d))
           /\ Dropped(u, w, d).dirty = u.dirty
<1>1. Dropped(u, w, d) = RestoreAs(u, w, d, NoRestore)
  BY DEF Dropped, RestoreAs
<1>2. NoRestore \in Restore /\ NoRestore.stage # "Installing"
  BY IdleTypes DEF NoRestore
<1> QED BY <1>1, <1>2, RestoreAsSane

LEMMA RestoreToSane ==
    ASSUME NEW u, NEW k, Sane(u, k), NEW w \in Window, u.win[w].running, NEW d \in Doc,
           NEW stage \in {"None", "Queued", "Read", "Installing", "Copying", "Retry"},
           stage = "Installing" => u.win[w].restore[d].found \in Text
    PROVE  Sane(RestoreTo(u, w, d, stage), k) /\ Keeps(u, RestoreTo(u, w, d, stage))
<1>1. u.win[w].restore[d] \in Restore
  BY WindowType DEF Sane
<1>2. PICK r : r = [u.win[w].restore[d] EXCEPT !.stage = stage]
  OBVIOUS
<1>3. r \in Restore /\ r.stage = stage /\ r.found = u.win[w].restore[d].found
  BY <1>1, <1>2 DEF Restore
<1>4. RestoreTo(u, w, d, stage) = RestoreAs(u, w, d, r)
  BY <1>2 DEF RestoreTo, RestoreAs
<1> QED BY <1>3, <1>4, RestoreAsSane

\* Windows of u, with other views.
Viewing(u, n) ==
    /\ n.tab = u.tab /\ n.home = u.home /\ n.lane = u.lane /\ n.sweeper = u.sweeper
    /\ \A v \in Window : /\ n.win[v].running = u.win[v].running
                         /\ n.win[v].job = u.win[v].job
                         /\ n.win[v].restore = u.win[v].restore

LEMMA ViewingSane ==
    ASSUME NEW u, NEW k, Sane(u, k), NEW n \in Process, Viewing(u, n), ViewsTrue(n, k.entry)
    PROVE  Sane(n, k) /\ Keeps(u, n)
BY Retold DEF Viewing, Keeps

LEMMA RejectViews ==
    ASSUME NEW u \in Process, NEW manifest
    PROVE  Reject(u) \in Process /\ Viewing(u, Reject(u)) /\ ViewsTrue(Reject(u), manifest)
           /\ \A v \in Window : Reject(u).win[v] = [u.win[v] EXCEPT !.trusted = FALSE]
<1> DEFINE win == [w \in Window |-> [u.win[w] EXCEPT !.trusted = FALSE]]
<1>1. \A v \in Window : win[v] = [u.win[v] EXCEPT !.trusted = FALSE]
  OBVIOUS
<1>2. ASSUME NEW v \in Window
      PROVE  /\ [u.win[v] EXCEPT !.trusted = FALSE] \in WindowState
             /\ [u.win[v] EXCEPT !.trusted = FALSE].running = u.win[v].running
             /\ [u.win[v] EXCEPT !.trusted = FALSE].job = u.win[v].job
             /\ [u.win[v] EXCEPT !.trusted = FALSE].restore = u.win[v].restore
             /\ ~[u.win[v] EXCEPT !.trusted = FALSE].trusted
  BY WindowType DEF WindowState
<1>3. win \in [Window -> WindowState]
  BY <1>2
<1>4. PICK n : n = Reject(u)
  OBVIOUS
<1>5. n = [u EXCEPT !.armed = FALSE, !.win = win]
  BY <1>4 DEF Reject
<1> HIDE DEF win
<1>6. n \in Process /\ n.win = win /\ n.tab = u.tab /\ n.home = u.home /\ n.lane = u.lane
      /\ n.sweeper = u.sweeper
  BY <1>3, <1>5 DEF Process
<1>7. Viewing(u, n)
  BY <1>1, <1>2, <1>6 DEF Viewing
<1>8. ViewsTrue(n, manifest)
  BY <1>1, <1>2, <1>6 DEF ViewsTrue
<1> QED BY <1>1, <1>4, <1>6, <1>7, <1>8

LEMMA AdoptViews ==
    ASSUME NEW u \in Process, u.sweeper \in Window, NEW manifest \in Manifest
    PROVE  Adopt(u, manifest) \in Process /\ Viewing(u, Adopt(u, manifest))
           /\ ViewsTrue(Adopt(u, manifest), manifest)
<1> DEFINE view(w) == [d \in Doc |-> IF d \in u.win[w].doomed THEN NoEntry ELSE manifest[d]]
           told(w) == [u.win[w] EXCEPT !.trusted = TRUE, !.known = view(w)]
           win == [w \in Window |-> IF ~u.win[w].running THEN u.win[w] ELSE told(w)]
<1>1. ASSUME NEW v \in Window
      PROVE  /\ win[v] \in WindowState /\ win[v].running = u.win[v].running
             /\ win[v].job = u.win[v].job /\ win[v].restore = u.win[v].restore
             /\ win[v].running => \A d \in Doc : win[v].known[d] \in {NoEntry, manifest[d]}
  <2>1. u.win[v] \in WindowState
    BY WindowType
  <2>2. view(v) \in Manifest /\ \A d \in Doc : view(v)[d] \in {NoEntry, manifest[d]}
    BY DEF Manifest
  <2> HIDE DEF view
  <2>3. /\ told(v) \in WindowState /\ told(v).running = u.win[v].running
        /\ told(v).job = u.win[v].job /\ told(v).restore = u.win[v].restore
        /\ told(v).known = view(v)
    BY <2>1, <2>2 DEF WindowState
  <2> HIDE DEF told
  <2>4. win[v] = IF ~u.win[v].running THEN u.win[v] ELSE told(v)
    OBVIOUS
  <2> HIDE DEF win
  <2> QED BY <2>1, <2>2, <2>3, <2>4
<1>2. PICK n : n = Adopt(u, manifest)
  OBVIOUS
<1>3. PICK armed \in BOOLEAN : armed <=> u.armed \/ ~u.win[u.sweeper].trusted
  OBVIOUS
<1>4. n = [u EXCEPT !.armed = armed, !.win = win]
  BY <1>2, <1>3 DEF Adopt
<1>5. win \in [Window -> WindowState]
  <2>1. win = [w \in Window |-> win[w]]
    OBVIOUS
  <2> HIDE DEF win
  <2> QED BY <1>1, <2>1
<1> HIDE DEF win
<1>6. n \in Process /\ n.win = win /\ n.tab = u.tab /\ n.home = u.home /\ n.lane = u.lane
      /\ n.sweeper = u.sweeper
  BY <1>3, <1>4, <1>5 DEF Process
<1>7. Viewing(u, n)
  BY <1>1, <1>6 DEF Viewing
<1>8. ViewsTrue(n, manifest)
  BY <1>1, <1>6 DEF ViewsTrue
<1> QED BY <1>2, <1>6, <1>7, <1>8

LEMMA AddedViews ==
    ASSUME NEW u \in Process, NEW new \in Manifest, NEW manifest
    PROVE  Added(u, new) \in Process /\ Viewing(u, Added(u, new))
           /\ ViewsTrue(Added(u, new), manifest)
<1>1. PICK m : m = Reject(u)
  OBVIOUS
<1>2. m \in Process /\ Viewing(u, m)
      /\ \A v \in Window : m.win[v] = [u.win[v] EXCEPT !.trusted = FALSE]
  BY <1>1, RejectViews
<1> DEFINE told(w) == [m.win[w] EXCEPT !.known = WithAbsent(u.win[w].known, new)]
           win == [w \in Window |-> IF ~m.win[w].running THEN m.win[w] ELSE told(w)]
<1>3. ASSUME NEW v \in Window
      PROVE  /\ win[v] \in WindowState /\ win[v].running = m.win[v].running
             /\ win[v].job = m.win[v].job /\ win[v].restore = m.win[v].restore
             /\ ~win[v].trusted
  <2>1. m.win[v] \in WindowState /\ u.win[v].known \in Manifest
    BY <1>2, WindowType
  <2>2. ~m.win[v].trusted
    BY <1>2, WindowType DEF WindowState
  <2>3. WithAbsent(u.win[v].known, new) \in Manifest
    BY <2>1 DEF WithAbsent, Manifest
  <2>4. /\ told(v) \in WindowState /\ told(v).running = m.win[v].running
        /\ told(v).job = m.win[v].job /\ told(v).restore = m.win[v].restore
        /\ told(v).trusted = m.win[v].trusted
    BY <2>1, <2>3 DEF WindowState
  <2> HIDE DEF told
  <2>5. win[v] = IF ~m.win[v].running THEN m.win[v] ELSE told(v)
    OBVIOUS
  <2> HIDE DEF win
  <2> QED BY <2>1, <2>2, <2>4, <2>5
<1>4. PICK n : n = Added(u, new)
  OBVIOUS
<1>5. n = [m EXCEPT !.win = win]
  BY <1>1, <1>4 DEF Added
<1>6. win \in [Window -> WindowState]
  <2>1. win = [w \in Window |-> win[w]]
    OBVIOUS
  <2> HIDE DEF win
  <2> QED BY <1>3, <2>1
<1> HIDE DEF win
<1>7. n \in Process /\ n.win = win /\ n.tab = m.tab /\ n.home = m.home /\ n.lane = m.lane
      /\ n.sweeper = m.sweeper
  BY <1>2, <1>5, <1>6 DEF Process
<1>8. Viewing(u, n)
  BY <1>2, <1>3, <1>7 DEF Viewing
<1>9. ViewsTrue(n, manifest)
  BY <1>3, <1>7 DEF ViewsTrue
<1> QED BY <1>4, <1>7, <1>8, <1>9

-----------------------------------------------------------------------------
(* The parts of the invariant, and the disk.                                *)

GhostType == ghost \in [accepted : Text, saved : Text, discarded : Text]
SpentType ==
    spent \in [edits : Nat, faults : Nat, crashes : Nat, moves : Nat, bounds : Bounds]

LEMMA Parts ==
    ASSUME DraftInv
    PROVE  /\ Sane(ui, disk) /\ Timed(disk.entry, disk.backing) /\ Described(disk)
           /\ GhostType /\ SpentType
BY DEF DraftInv, TypeOK, Sane, GhostType, SpentType

LEMMA Whole ==
    ASSUME Sane(ui', disk'), Timed(disk'.entry, disk'.backing), Described(disk'),
           GhostType', SpentType'
    PROVE  DraftInv'
BY DEF DraftInv, TypeOK, Sane, GhostType, SpentType

\* Turns of GTK leave the disk alone.
LEMMA OnlyTurn ==
    ASSUME DraftInv, disk' = disk, Sane(ui', disk), GhostType', SpentType'
    PROVE  DraftInv'
BY Parts, Whole

LEMMA GhostStays == GhostType /\ ghost' = ghost => GhostType'
BY DEF GhostType

LEMMA SpentStays == SpentType /\ spent' = spent => SpentType'
BY DEF SpentType

LEMMA FailsSpends ==
    ASSUME SpentType, NEW call, Fails(call)
    PROVE  SpentType'
BY DEF SpentType, Fails

LEMMA BoundsFacts ==
    ASSUME SpentType
    PROVE  bounds \in Bounds /\ bounds.docs \subseteq Doc /\ bounds.prior \subseteq bounds.docs
           /\ bounds.edits \in Nat /\ \A n \in 1 .. bounds.edits : n \in Work
<1>1. bounds \in Bounds
  BY DEF SpentType, bounds
<1> QED BY <1>1, BoundsAssumption DEF Work

LEMMA DiskType ==
    ASSUME NEW k \in Disk
    PROVE  /\ k.entry \in Manifest /\ k.body \in [Doc -> {NoBody} \cup Text]
           /\ k.backing \in [Doc -> Nat] /\ k.kept \in Text
           /\ \A d \in Doc : k.body[d] # NoBody => k.body[d] \in Text
BY DEF Disk

\* The file times workers read are no later than the file.
LEMMA StampTimes ==
    ASSUME disk \in Disk, NEW d \in Doc
    PROVE  Stamp(d) \in Nat /\ Stamp(d) \in {Unproven} \cup 0 .. disk.backing[d]
<1>1. disk.backing[d] \in Nat
  BY DiskType
<1> QED BY <1>1 DEF Stamp

\* An entry with a time a file has had.
LEMMA EntryType ==
    ASSUME NEW t \in {Unproven} \cup Nat, NEW text \in Text
    PROVE  /\ [mtime |-> t, text |-> text] \in Entry
           /\ [mtime |-> t, text |-> text] # NoEntry
BY SentinelAssumption DEF Entry

\* Reconciliation takes no entry away, and describes every file's body but those
\* being removed.
LEMMA ReconciledFacts ==
    ASSUME disk \in Disk, NEW manifest \in Manifest, Timed(manifest, disk.backing),
           NEW removed \in SUBSET Doc, NEW session,
           NEW full, full = Reconciled(manifest, removed, session)
    PROVE  /\ full \in Disk /\ full.backing = disk.backing
           /\ Timed(full.entry, full.backing)
           /\ \A d \in Doc : /\ manifest[d] # NoEntry => full.entry[d] = manifest[d]
                             /\ full.body[d] \in {NoBody, disk.body[d]}
           /\ \A d \in FileBacked \ removed : full.body[d] # NoBody => full.entry[d] # NoEntry
<1> DEFINE strays == {d \in Doc \ removed : disk.body[d] # NoBody /\ manifest[d] = NoEntry}
           entry(d) == IF d \in strays \cap Untitled THEN [mtime |-> 0, text |-> {}]
                       ELSE IF d \in strays \cap session THEN [mtime |-> Unproven, text |-> {}]
                       ELSE manifest[d]
           entries == [d \in Doc |-> entry(d)]
           moved == strays \ (Untitled \cup session)
           bodies == [d \in Doc |-> IF d \in moved THEN NoBody ELSE disk.body[d]]
           kept == disk.kept \cup UNION {disk.body[d] : d \in strays \cap FileBacked}
<1>1. /\ disk.body \in [Doc -> {NoBody} \cup Text] /\ disk.kept \in Text
      /\ disk.backing \in [Doc -> Nat]
      /\ \A d \in Doc : disk.body[d] # NoBody => disk.body[d] \in Text
  BY DiskType
<1>2. {} \in Text /\ 0 \in Nat
  BY DEF Text
<1>3. \A d \in strays : d \in Doc /\ disk.body[d] # NoBody /\ manifest[d] = NoEntry
  OBVIOUS
<1>4. kept \in Text
  BY <1>1, <1>3 DEF Text
<1>5. full = [disk EXCEPT !.entry = entries, !.body = bodies, !.kept = kept]
  BY DEF Reconciled
<1>6. ASSUME NEW d \in Doc
      PROVE  /\ entry(d) \in {NoEntry} \cup Entry
             /\ manifest[d] # NoEntry => entry(d) = manifest[d]
             /\ entry(d) # NoEntry => entry(d).mtime \in {Unproven} \cup 0 .. disk.backing[d]
             /\ d \in strays => entry(d) # NoEntry \/ d \in moved
  <2>1. PICK zero : zero = [mtime |-> 0, text |-> {}]
    OBVIOUS
  <2>2. PICK unproven : unproven = [mtime |-> Unproven, text |-> {}]
    OBVIOUS
  <2>3. zero \in Entry /\ zero # NoEntry /\ unproven \in Entry /\ unproven # NoEntry
    BY <1>2, <2>1, <2>2, EntryType
  <2>4. zero.mtime = 0 /\ unproven.mtime = Unproven
    BY <2>1, <2>2
  <2>5. manifest[d] \in {NoEntry} \cup Entry /\ disk.backing[d] \in Nat
    BY <1>1 DEF Manifest
  <2>6. manifest[d] # NoEntry => manifest[d].mtime \in {Unproven} \cup 0 .. disk.backing[d]
    BY DEF Timed
  <2>7. entry(d) = IF d \in strays \cap Untitled THEN zero
                   ELSE IF d \in strays \cap session THEN unproven ELSE manifest[d]
    BY <2>1, <2>2
  <2>8. d \in strays => manifest[d] = NoEntry
    BY <1>3
  <2>9. 0 \in {Unproven} \cup 0 .. disk.backing[d]
    BY <2>5
  <2>10. d \in strays => d \in strays \cap Untitled \/ d \in strays \cap session \/ d \in moved
    OBVIOUS
  <2> HIDE DEF entry, strays, moved
  <2> QED BY <2>3, <2>4, <2>5, <2>6, <2>7, <2>8, <2>9, <2>10
<1> HIDE DEF kept, entry
<1>7. entries \in Manifest
  BY <1>6 DEF Manifest
<1>8. bodies \in [Doc -> {NoBody} \cup Text]
  BY <1>1
<1>9. \A d \in Doc : /\ bodies[d] \in {NoBody, disk.body[d]}
                     /\ d \in moved => bodies[d] = NoBody
                     /\ entries[d] = entry(d)
  OBVIOUS
<1>10. \A d \in Doc \ removed : disk.body[d] # NoBody /\ manifest[d] = NoEntry => d \in strays
  OBVIOUS
<1> HIDE DEF entries, bodies, moved, strays
<1>11. full \in Disk /\ full.backing = disk.backing /\ full.entry = entries /\ full.body = bodies
  BY <1>4, <1>5, <1>7, <1>8 DEF Disk
<1>12. Timed(full.entry, full.backing)
  BY <1>6, <1>9, <1>11 DEF Timed
<1>13. ASSUME NEW d \in FileBacked \ removed, full.body[d] # NoBody
       PROVE  full.entry[d] # NoEntry
  <2>1. d \in Doc \ removed /\ d \notin moved /\ disk.body[d] # NoBody
    BY <1>9, <1>11, <1>13 DEF FileBacked
  <2> QED BY <1>6, <1>9, <1>10, <1>11, <2>1
<1> QED BY <1>6, <1>9, <1>11, <1>12, <1>13

\* A manifest command leaves a disk on which bodies are described.
LEMMA CommandEnds ==
    ASSUME disk \in Disk, Timed(disk.entry, disk.backing), Described(disk), SpentType,
           NEW manifest \in Manifest, Timed(manifest, disk.backing),
           NEW removed \in SUBSET Doc, \A d \in removed : disk.body[d] = NoBody,
           CommandCommits(manifest, removed) \/ CommandFails(manifest, removed)
    PROVE  /\ disk' \in Disk /\ disk'.backing = disk.backing
           /\ Timed(disk'.entry, disk'.backing) /\ Described(disk') /\ SpentType'
<1>1. PICK full : full = Reconciled(manifest, removed, SessionTabs)
  OBVIOUS
<1>2. /\ full \in Disk /\ full.backing = disk.backing /\ Timed(full.entry, full.backing)
      /\ \A d \in Doc : full.body[d] \in {NoBody, disk.body[d]}
      /\ \A d \in FileBacked \ removed : full.body[d] # NoBody => full.entry[d] # NoEntry
  BY <1>1, ReconciledFacts
<1>3. Described(full)
  BY <1>2 DEF Described, FileBacked
<1>4. PICK bare : bare = [full EXCEPT !.entry = disk.entry]
  OBVIOUS
<1>5. /\ bare \in Disk /\ bare.backing = disk.backing /\ bare.entry = disk.entry
      /\ bare.body = full.body
  BY <1>2, <1>4, DiskType DEF Disk
<1>6. Timed(bare.entry, bare.backing) /\ Described(bare)
  BY <1>2, <1>5 DEF Described, FileBacked
<1>7. disk' \in {disk, bare, full}
  BY <1>1, <1>4 DEF CommandCommits, CommandFails
<1>8. SpentType'
  <2>1. CASE CommandCommits(manifest, removed)
    BY <2>1, SpentStays DEF CommandCommits
  <2>2. CASE CommandFails(manifest, removed)
    BY <2>2, FailsSpends DEF CommandFails
  <2> QED BY <2>1, <2>2
<1> QED BY <1>2, <1>3, <1>5, <1>6, <1>7, <1>8

-----------------------------------------------------------------------------
(* Work under the lane.                                                     *)

\* Until a command's or a cleanup's answer is there, trusted views are true.
LEMMA NothingUntold ==
    ASSUME NEW u, NEW k, Sane(u, k), NEW w \in Window, u.win[w].job.kind # "None",
           ~Untold(u.win[w].job), u.win[w].job.step # "Swept"
    PROVE  ViewsTrue(u, k.entry)
<1>1. \A v \in Window : v # w => u.win[v].job.step = "None"
  BY HeldLane
<1>2. \A v \in Window : ~Untold(u.win[v].job) /\ u.win[v].job.step # "Swept"
  BY <1>1 DEF Untold
<1> QED BY <1>2 DEF Sane, ViewsFollow, SweepUntold

\* What a manifest was before a cleanup that removed `done` of it.
Before(k, done) == [d \in Doc |-> IF k.entry[d] = NoEntry THEN done[d] ELSE k.entry[d]]

\* The work of w goes on as j.
JobAs(u, w, j) == [u EXCEPT !.win[w].job = j]

LEMMA JobAsWindow ==
    ASSUME NEW u \in Process, NEW w \in Window, NEW j \in Job
    PROVE  /\ JobAs(u, w, j) \in Process /\ JobAs(u, w, j).win[w].job = j
           /\ JobAs(u, w, j).win[w] = [u.win[w] EXCEPT !.job = j]
           /\ \A v \in Window : v # w => JobAs(u, w, j).win[v] = u.win[v]
           /\ JobAs(u, w, j).tab = u.tab /\ JobAs(u, w, j).home = u.home
           /\ JobAs(u, w, j).lane = u.lane /\ JobAs(u, w, j).sweeper = u.sweeper
<1>1. u.win[w] \in WindowState
  BY WindowType
<1>2. PICK x : x = [u.win[w] EXCEPT !.job = j]
  OBVIOUS
<1>3. x \in WindowState /\ x.job = j
  BY <1>1, <1>2 DEF WindowState
<1>4. JobAs(u, w, j) = With(u, w, x)
  BY <1>2 DEF JobAs, With
<1>5. /\ With(u, w, x) \in Process /\ With(u, w, x).win[w] = x
      /\ \A v \in Window : v # w => With(u, w, x).win[v] = u.win[v]
      /\ With(u, w, x).tab = u.tab /\ With(u, w, x).home = u.home
      /\ With(u, w, x).lane = u.lane /\ With(u, w, x).sweeper = u.sweeper
  BY <1>3, PutWindow
<1> QED BY <1>2, <1>3, <1>4, <1>5

LEMMA JobAsSane ==
    ASSUME NEW u, NEW k, Sane(u, k), NEW w \in Window, u.win[w].job.kind # "None",
           NEW j \in Job, j.kind # "None", JobPlaced(j),
           NEW to \in Disk, to.backing = k.backing,
           Timed(j.done, to.backing), JobGrounded(j, to),
           \/ Untold(j)
           \/ ViewsTrue(u, to.entry)
           \/ j.step = "Swept" /\ ViewsTrue(u, Before(to, j.done))
    PROVE  Sane(JobAs(u, w, j), to)
<1>1. PICK n : n = JobAs(u, w, j)
  OBVIOUS
<1>2. u \in Process /\ u.win[w] \in WindowState
  BY WindowType DEF Sane
<1>3. PICK x : x = [u.win[w] EXCEPT !.job = j]
  OBVIOUS
<1>4. /\ n \in Process /\ n.win[w] = x /\ \A v \in Window : v # w => n.win[v] = u.win[v]
      /\ n.tab = u.tab /\ n.home = u.home /\ n.lane = u.lane /\ n.sweeper = u.sweeper
  BY <1>1, <1>2, <1>3, JobAsWindow
<1>5. /\ x.running = u.win[w].running /\ x.trusted = u.win[w].trusted
      /\ x.known = u.win[w].known /\ x.restore = u.win[w].restore /\ x.job = j
  BY <1>2, <1>3 DEF WindowState
<1>6. Apart(u, n, w)
  BY <1>4, <1>5 DEF Apart
<1>7. WindowSane(n.win[w], to)
  BY <1>4, <1>5, RestoresSane DEF WindowSane
<1>8. \A v \in Window : Narrower(n.win[v], u.win[v])
  BY <1>4, <1>5, SameIsNarrower DEF Narrower
<1>9. \A m : ViewsTrue(u, m) => ViewsTrue(n, m)
  BY <1>8, ViewsNarrow
<1>10. ViewsFollow(n, to)
  <2>1. n.win[w].job = j
    BY <1>4, <1>5
  <2>2. CASE Untold(j)
    BY <2>1, <2>2 DEF ViewsFollow
  <2>3. CASE ViewsTrue(u, to.entry)
    BY <1>9, <2>3 DEF ViewsFollow
  <2>4. CASE j.step = "Swept" /\ ViewsTrue(u, Before(to, j.done))
    BY <1>9, <2>1, <2>4 DEF ViewsFollow, SweepUntold, Before
  <2> QED BY <2>2, <2>3, <2>4
<1>11. n.win[w].job.kind # "None"
  BY <1>4, <1>5
<1>12. Sane(n, to)
  BY <1>4, <1>6, <1>7, <1>10, <1>11, WorkStep
<1> QED BY <1>1, <1>12

-----------------------------------------------------------------------------
(* The actions of a pass.                                                   *)

LEMMA AtWork ==
    ASSUME DraftInv, NEW w \in Window, NEW kind, NEW step, Worker(w, kind, step),
           kind # "None"
    PROVE  /\ Sane(ui, disk) /\ ui \in Process /\ disk \in Disk
           /\ ui.win[w].job \in Job /\ ui.win[w].job.kind = kind /\ ui.win[w].job.step = step
           /\ JobPlaced(ui.win[w].job) /\ Timed(ui.win[w].job.done, disk.backing)
           /\ JobGrounded(ui.win[w].job, disk)
           /\ ui.win[w].running /\ ui.lane = w /\ ui.sweeper \in Window
<1>1. Sane(ui, disk)
  BY Parts
<1>2. ui.win[w].job \in Job
  BY <1>1, WindowType DEF Sane
<1>3. ui.lane = w /\ ui.win[w].running
  BY <1>1, HeldLane DEF Worker
<1>4. ui.sweeper \in Window
  BY <1>1, <1>3 DEF Sane, OnlyRunning, Process
<1> QED BY <1>1, <1>2, <1>3, <1>4 DEF Worker, Sane, Orderly

LEMMA JobType ==
    ASSUME NEW job \in Job
    PROVE  /\ job.todo \in SUBSET Doc /\ job.gen \in [Doc -> Text] /\ job.done \in Manifest
           /\ job.fresh \in SUBSET Doc /\ job.doc \in {NoDoc} \cup Doc
           /\ job.kind \in {"None", "Pass", "Delete", "Sweep"}
           /\ job.result \in {"None", "Committed", "Additive", "Failed", "Unkept", "BodyLeft"}
BY DEF Job

\* What a registration writes of the ids it needs.
LEMMA RegisteredType ==
    ASSUME disk \in Disk, NEW w \in Window, Needed(w) \subseteq Doc
    PROVE  /\ Registered(w) \in Manifest /\ Timed(Registered(w), disk.backing)
           /\ \A d \in Doc : Registered(w)[d] # NoEntry <=> d \in Needed(w)
<1>1. ASSUME NEW d \in Doc
      PROVE  /\ Registered(w)[d] \in {NoEntry} \cup Entry
             /\ Registered(w)[d] # NoEntry => Registered(w)[d].mtime \in {Unproven} \cup 0 .. disk.backing[d]
             /\ Registered(w)[d] # NoEntry <=> d \in Needed(w)
  <2>1. PICK e : e = [mtime |-> Stamp(d), text |-> {}]
    OBVIOUS
  <2>2. {} \in Text /\ Stamp(d) \in {Unproven} \cup Nat
    BY StampTimes DEF Text
  <2>3. e \in Entry /\ e # NoEntry
    BY <2>1, <2>2, EntryType
  <2>4. e.mtime = Stamp(d)
    BY <2>1
  <2>5. Registered(w)[d] = IF d \in Needed(w) THEN e ELSE NoEntry
    BY <2>1 DEF Registered
  <2> QED BY <2>3, <2>4, <2>5, StampTimes
<1> QED BY <1>1 DEF Registered, Manifest, Timed

\* A manifest with absent entries filled in.
LEMMA WithAbsentFacts ==
    ASSUME NEW manifest \in Manifest, NEW new \in Manifest, NEW backing,
           Timed(manifest, backing), Timed(new, backing)
    PROVE  /\ WithAbsent(manifest, new) \in Manifest /\ Timed(WithAbsent(manifest, new), backing)
           /\ \A d \in Doc : /\ manifest[d] # NoEntry => WithAbsent(manifest, new)[d] = manifest[d]
                             /\ new[d] # NoEntry => WithAbsent(manifest, new)[d] # NoEntry
<1>1. \A d \in Doc : WithAbsent(manifest, new)[d] = IF manifest[d] = NoEntry THEN new[d] ELSE manifest[d]
  BY DEF WithAbsent
<1> QED BY <1>1 DEF WithAbsent, Manifest, Timed

LEMMA RegisterInv ==
    ASSUME DraftInv, NEW w \in Window, Register(w)
    PROVE  DraftInv'
<1>1. Worker(w, "Pass", "Register") /\ ghost' = ghost
  BY DEF Register
<1>2. /\ Sane(ui, disk) /\ ui \in Process /\ disk \in Disk
      /\ ui.win[w].job \in Job /\ ui.win[w].job.kind = "Pass" /\ ui.win[w].job.step = "Register"
      /\ JobPlaced(ui.win[w].job) /\ ui.win[w].running
  BY <1>1, AtWork
<1>3. Timed(disk.entry, disk.backing) /\ Described(disk) /\ GhostType /\ SpentType
  BY Parts
<1>4. PICK job : job = ui.win[w].job
  OBVIOUS
<1>5. PICK new : new = Registered(w)
  OBVIOUS
<1>6. PICK manifest : manifest = WithAbsent(disk.entry, new)
  OBVIOUS
<1>7. PICK copied : copied = [disk EXCEPT !.kept = @ \cup UNION {disk.body[d] : d \in Superseded(w)}]
  OBVIOUS
<1>8. PICK full : full = Reconciled(manifest, {}, SessionTabs)
  OBVIOUS
<1>9. job.todo \in SUBSET Doc /\ Needed(w) \subseteq job.todo
  BY <1>2, <1>4, JobType DEF Needed
<1>10. /\ new \in Manifest /\ Timed(new, disk.backing)
       /\ \A d \in Doc : new[d] # NoEntry <=> d \in Needed(w)
  BY <1>2, <1>5, <1>9, RegisteredType
<1>11. disk.entry \in Manifest /\ disk.kept \in Text
       /\ \A d \in Doc : disk.body[d] # NoBody => disk.body[d] \in Text
  BY <1>2, DiskType
<1>12. /\ manifest \in Manifest /\ Timed(manifest, disk.backing)
       /\ \A d \in Doc : /\ disk.entry[d] # NoEntry => manifest[d] = disk.entry[d]
                         /\ new[d] # NoEntry => manifest[d] # NoEntry
  BY <1>3, <1>6, <1>10, <1>11, WithAbsentFacts
<1>13. copied \in Disk /\ copied.entry = disk.entry /\ copied.body = disk.body
       /\ copied.backing = disk.backing /\ copied.kept \in Text
  <2>1. \A d \in Superseded(w) : disk.body[d] \in Text
    BY <1>9, <1>11 DEF Superseded
  <2>2. disk.kept \cup UNION {disk.body[d] : d \in Superseded(w)} \in Text
    BY <1>11, <2>1 DEF Text
  <2> QED BY <1>2, <1>7, <2>2 DEF Disk
<1>14. /\ full \in Disk /\ full.backing = disk.backing /\ Timed(full.entry, full.backing)
       /\ \A d \in Doc : manifest[d] # NoEntry => full.entry[d] = manifest[d]
       /\ \A d \in FileBacked : full.body[d] # NoBody => full.entry[d] # NoEntry
  <2>1. PICK none \in SUBSET Doc : none = {}
    OBVIOUS
  <2>2. full = Reconciled(manifest, none, SessionTabs)
    BY <1>8, <2>1
  <2>3. disk \in Disk /\ manifest \in Manifest /\ Timed(manifest, disk.backing)
        /\ none \in SUBSET Doc
    BY <1>2, <1>12, <2>1
  <2>4. /\ full \in Disk /\ full.backing = disk.backing /\ Timed(full.entry, full.backing)
        /\ \A d \in Doc : /\ manifest[d] # NoEntry => full.entry[d] = manifest[d]
                          /\ full.body[d] \in {NoBody, disk.body[d]}
        /\ \A d \in FileBacked \ none : full.body[d] # NoBody => full.entry[d] # NoEntry
    BY <2>2, <2>3, ReconciledFacts
  <2> QED BY <2>1, <2>4
<1>15. PICK both : both = [full EXCEPT !.kept = @ \cup copied.kept]
  OBVIOUS
<1>16. both \in Disk /\ both.entry = full.entry /\ both.body = full.body
       /\ both.backing = disk.backing
  BY <1>13, <1>14, <1>15, DiskType DEF Disk, Text
<1>17. PICK added : added = [copied EXCEPT !.entry = manifest]
  OBVIOUS
<1>18. added \in Disk /\ added.entry = manifest /\ added.body = disk.body
       /\ added.backing = disk.backing
  BY <1>12, <1>13, <1>17, DiskType DEF Disk
<1>19. PICK result \in {"Committed", "Additive", "Failed", "Unkept"} :
          /\ ui' = [ui EXCEPT !.win[w].job = [@ EXCEPT
                              !.step = "Registered", !.done = Registered(w), !.result = result]]
          /\ result = "Committed" => disk' = both
          /\ result = "Additive" => disk' = added
          /\ result = "Failed" => disk' \in {copied, added}
          /\ result = "Unkept" => disk' = disk
          /\ SpentType'
  <2>1. \A call : Fails(call) => SpentType'
    BY <1>3, FailsSpends
  <2>2. spent' = spent => SpentType'
    BY <1>3, SpentStays
  <2> QED BY <1>5, <1>6, <1>7, <1>8, <1>15, <1>17, <2>1, <2>2, Zenon DEF Register
<1>20. PICK j : j = [job EXCEPT !.step = "Registered", !.done = new, !.result = result]
  OBVIOUS
<1>21. ui' = JobAs(ui, w, j)
  BY <1>4, <1>5, <1>19, <1>20 DEF JobAs
<1>22. /\ j \in Job /\ j.kind = "Pass" /\ j.step = "Registered" /\ j.doc = job.doc
       /\ j.todo = job.todo /\ j.done = new /\ j.result = result
  BY <1>2, <1>4, <1>10, <1>19, <1>20 DEF Job
<1>23. JobPlaced(j)
  BY <1>2, <1>4, <1>22 DEF JobPlaced, StepsOf
<1>24. /\ disk' \in Disk /\ disk'.backing = disk.backing
       /\ Timed(disk'.entry, disk'.backing)
       /\ \A d \in Doc : disk.entry[d] # NoEntry => disk'.entry[d] # NoEntry
       /\ result \in {"Committed", "Additive"} =>
              \A d \in Doc : manifest[d] # NoEntry => disk'.entry[d] # NoEntry
       /\ Described(disk')
  <2>1. disk' \in {both, added, copied, disk}
        /\ (result \in {"Committed", "Additive"} => disk' \in {both, added})
    BY <1>19
  <2>2. Described(both) /\ Described(added) /\ Described(copied)
    BY <1>3, <1>12, <1>13, <1>14, <1>16, <1>18 DEF Described, FileBacked
  <2>3. Timed(both.entry, both.backing) /\ Timed(added.entry, added.backing)
        /\ Timed(copied.entry, copied.backing)
    BY <1>3, <1>12, <1>13, <1>14, <1>16, <1>18
  <2>4. \A d \in Doc : manifest[d] # NoEntry => both.entry[d] # NoEntry /\ added.entry[d] # NoEntry
    BY <1>14, <1>16, <1>18
  <2>5. \A d \in Doc : disk.entry[d] # NoEntry => both.entry[d] # NoEntry
              /\ added.entry[d] # NoEntry /\ copied.entry[d] # NoEntry
    BY <1>12, <1>13, <2>4
  <2> QED BY <1>2, <1>3, <1>13, <1>16, <1>18, <2>1, <2>2, <2>3, <2>4, <2>5
<1>25. ViewsTrue(ui, disk.entry)
  <2>1. ~Untold(ui.win[w].job) /\ ui.win[w].job.step # "Swept" /\ ui.win[w].job.kind # "None"
    BY <1>2 DEF Untold
  <2> QED BY <1>2, <2>1, NothingUntold
<1>26. JobGrounded(j, disk')
  <2>1. ASSUME NEW d \in job.todo \cap FileBacked, disk'.entry[d] = NoEntry
        PROVE  new[d] # NoEntry /\ result \notin {"Committed", "Additive"}
    <3>1. d \in Doc /\ disk.entry[d] = NoEntry
      BY <1>9, <1>24, <2>1
    <3>2. d \in Needed(w)
      BY <1>2, <1>4, <1>25, <2>1, <3>1 DEF Needed, NeedsRegistration, ViewsTrue
    <3> QED BY <1>10, <1>12, <1>24, <2>1, <3>1, <3>2
  <2> QED BY <1>22, <2>1 DEF JobGrounded
<1>27. Untold(j) \/ ViewsTrue(ui, disk'.entry)
  BY <1>19, <1>22, <1>25 DEF Untold
<1>28. Timed(j.done, disk'.backing)
  BY <1>10, <1>22, <1>24
<1>29. Sane(JobAs(ui, w, j), disk')
  BY <1>2, <1>22, <1>23, <1>24, <1>26, <1>27, <1>28, JobAsSane
<1>30. Sane(ui', disk')
  BY <1>21, <1>29
<1> QED BY <1>1, <1>3, <1>19, <1>24, <1>30, GhostStays, Whole

\* What the windows are told of a manifest command, by its result.
LEMMA ToldSane ==
    ASSUME NEW u, NEW k, Sane(u, k), NEW n \in Process, Viewing(u, n), ViewsTrue(n, k.entry),
           NEW w \in Window
    PROVE  /\ Sane(n, k) /\ Keeps(u, n) /\ ViewsTrue(n, k.entry)
           /\ n.win[w].job = u.win[w].job
BY ViewingSane DEF Viewing

LEMMA RegisterDoneInv ==
    ASSUME DraftInv, NEW w \in Window, RegisterDone(w)
    PROVE  DraftInv'
<1>1. Worker(w, "Pass", "Registered") /\ disk' = disk /\ ghost' = ghost /\ spent' = spent
  BY DEF RegisterDone
<1>2. /\ Sane(ui, disk) /\ ui \in Process /\ disk \in Disk
      /\ ui.win[w].job \in Job /\ ui.win[w].job.kind = "Pass"
      /\ ui.win[w].job.step = "Registered"
      /\ JobPlaced(ui.win[w].job) /\ JobGrounded(ui.win[w].job, disk)
      /\ ui.win[w].running /\ ui.sweeper \in Window
  BY <1>1, AtWork
<1>3. GhostType /\ SpentType
  BY Parts
<1>4. PICK job : job = ui.win[w].job
  OBVIOUS
<1>5. /\ job \in Job /\ job.kind = "Pass" /\ job.step = "Registered"
      /\ job.doc \notin Doc
      /\ \A d \in job.todo \cap FileBacked : disk.entry[d] = NoEntry =>
             job.done[d] # NoEntry /\ job.result \notin {"Committed", "Additive"}
  BY <1>2, <1>4 DEF JobPlaced, JobGrounded
<1>6. PICK refused : refused = IF job.result \in {"Committed", "Additive"} THEN {}
                               ELSE {d \in job.todo : job.done[d] # NoEntry}
  OBVIOUS
<1>7. PICK next : next = CASE job.result = "Committed" -> Adopt(ui, disk.entry)
                           [] job.result = "Additive" -> Added(ui, job.done)
                           [] job.result = "Failed" -> Reject(ui)
                           [] OTHER -> ui
  OBVIOUS
<1>8. Sane(next, disk) /\ ViewsTrue(next, disk.entry) /\ next.win[w].job = job
  <2>1. CASE job.result = "Committed"
    <3>1. next = Adopt(ui, disk.entry)
      BY <1>7, <2>1
    <3>2. next \in Process /\ Viewing(ui, next) /\ ViewsTrue(next, disk.entry)
      BY <1>2, <3>1, AdoptViews, DiskType
    <3> QED BY <1>2, <1>4, <3>2, ToldSane
  <2>2. CASE job.result = "Additive"
    <3>1. next = Added(ui, job.done)
      BY <1>7, <2>2
    <3>2. job.done \in Manifest
      BY <1>5, JobType
    <3>3. next \in Process /\ Viewing(ui, next) /\ ViewsTrue(next, disk.entry)
      BY <1>2, <3>1, <3>2, AddedViews
    <3> QED BY <1>2, <1>4, <3>3, ToldSane
  <2>3. CASE job.result = "Failed"
    <3>1. next = Reject(ui)
      BY <1>7, <2>3
    <3>2. next \in Process /\ Viewing(ui, next) /\ ViewsTrue(next, disk.entry)
      BY <1>2, <3>1, RejectViews
    <3> QED BY <1>2, <1>4, <3>2, ToldSane
  <2>4. CASE job.result \notin {"Committed", "Additive", "Failed"}
    <3>1. next = ui
      BY <1>7, <2>4
    <3>2. ViewsTrue(ui, disk.entry)
      BY <1>2, <1>4, <1>5, <2>4, NothingUntold DEF Untold
    <3> QED BY <1>2, <1>4, <3>1, <3>2
  <2> QED BY <2>1, <2>2, <2>3, <2>4
<1>9. PICK todo : todo = job.todo \ refused
  OBVIOUS
<1>10. PICK j : j = [job EXCEPT !.step = "Capture", !.done = NoManifest, !.result = "None",
                                !.todo = todo]
  OBVIOUS
<1>11. ui' = JobAs(next, w, j)
  BY <1>4, <1>6, <1>7, <1>8, <1>9, <1>10 DEF RegisterDone, JobAs
<1>12. todo \in SUBSET Doc
  BY <1>5, <1>9, JobType
<1>13. /\ j \in Job /\ j.kind = "Pass" /\ j.step = "Capture" /\ j.doc = job.doc
       /\ j.todo = todo /\ j.done = NoManifest
  BY <1>5, <1>10, <1>12, IdleTypes DEF Job
<1>14. JobPlaced(j) /\ Timed(j.done, disk.backing)
  BY <1>5, <1>13 DEF JobPlaced, StepsOf, Timed, NoManifest
<1>15. JobGrounded(j, disk)
  <2>1. ASSUME NEW d \in (todo \cup {job.doc}) \cap FileBacked
        PROVE  disk.entry[d] # NoEntry
    <3>1. d \in job.todo \cap FileBacked /\ d \notin refused
      BY <1>5, <1>9 DEF FileBacked
    <3> QED BY <1>5, <1>6, <3>1
  <2> QED BY <1>13, <2>1 DEF JobGrounded
<1>16. Sane(JobAs(next, w, j), disk)
  BY <1>2, <1>5, <1>8, <1>13, <1>14, <1>15, JobAsSane
<1> QED BY <1>1, <1>3, <1>11, <1>16, GhostStays, SpentStays, OnlyTurn

LEMMA CaptureInv ==
    ASSUME DraftInv, NEW w \in Window, NEW d \in Doc, Capture(w, d)
    PROVE  DraftInv'
<1>1. Worker(w, "Pass", "Capture") /\ disk' = disk /\ ghost' = ghost /\ spent' = spent
      /\ d \in ui.win[w].job.todo
  BY DEF Capture
<1>2. /\ Sane(ui, disk) /\ ui \in Process /\ disk \in Disk
      /\ ui.win[w].job \in Job /\ ui.win[w].job.kind = "Pass"
      /\ ui.win[w].job.step = "Capture"
      /\ JobPlaced(ui.win[w].job) /\ Timed(ui.win[w].job.done, disk.backing)
      /\ JobGrounded(ui.win[w].job, disk) /\ ui.win[w].running
  BY <1>1, AtWork
<1>3. GhostType /\ SpentType
  BY Parts
<1>4. PICK job : job = ui.win[w].job
  OBVIOUS
<1>5. PICK rest : rest = [job EXCEPT !.todo = @ \ {d}]
  OBVIOUS
<1>6. /\ rest \in Job /\ rest.kind = "Pass" /\ rest.step = "Capture" /\ rest.doc = job.doc
      /\ rest.todo = job.todo \ {d} /\ rest.done = job.done
  BY <1>2, <1>4, <1>5 DEF Job
<1>7. \A e \in (job.todo \cup {job.doc}) \cap FileBacked : disk.entry[e] # NoEntry
  BY <1>2, <1>4 DEF JobGrounded
<1>8. ViewsTrue(ui, disk.entry)
  BY <1>2, NothingUntold DEF Untold
<1>9. CASE Captured(w, d)
  <2>1. PICK j : j = [rest EXCEPT !.step = "Write", !.doc = d]
    OBVIOUS
  <2>2. ui' = JobAs(ui, w, j)
    BY <1>4, <1>5, <1>9, <2>1 DEF Capture, JobAs
  <2>3. /\ j \in Job /\ j.kind = "Pass" /\ j.step = "Write" /\ j.doc = d
        /\ j.todo = rest.todo /\ j.done = job.done
    BY <1>6, <2>1 DEF Job
  <2>4. JobPlaced(j) /\ Timed(j.done, disk.backing)
    BY <1>2, <1>4, <2>3 DEF JobPlaced, StepsOf
  <2>5. JobGrounded(j, disk)
    BY <1>1, <1>4, <1>6, <1>7, <2>3 DEF JobGrounded
  <2>6. Sane(JobAs(ui, w, j), disk)
    BY <1>2, <1>8, <2>3, <2>4, <2>5, JobAsSane
  <2> QED BY <1>1, <1>3, <2>2, <2>6, GhostStays, SpentStays, OnlyTurn
<1>10. CASE ~Captured(w, d)
  <2>1. PICK n : n = JobAs(ui, w, rest)
    OBVIOUS
  <2>2. JobPlaced(rest) /\ Timed(rest.done, disk.backing)
    BY <1>2, <1>4, <1>6 DEF JobPlaced, StepsOf
  <2>3. JobGrounded(rest, disk)
    BY <1>6, <1>7 DEF JobGrounded
  <2>4. Sane(n, disk)
    BY <1>2, <1>6, <1>8, <2>1, <2>2, <2>3, JobAsSane
  <2>5. n.win[w] = [ui.win[w] EXCEPT !.job = rest]
    BY <1>2, <1>6, <2>1, JobAsWindow
  <2>6. n.win[w].running /\ n.win[w].pending = ui.win[w].pending
    BY <1>2, <2>5, WindowType DEF WindowState
  <2>7. PICK b \in BOOLEAN : b <=> ui.win[w].pending \/ Open(ui, d)
    OBVIOUS
  <2>8. b \in BOOLEAN
    BY <2>7
  <2>9. ui' = With(n, w, Remembers(n.win[w], b))
    <3>1. ui' = [ui EXCEPT !.win[w].job = rest, !.win[w].pending = @ \/ Open(ui, d)]
      BY <1>4, <1>5, <1>10 DEF Capture
    <3>2. (ui.win[w].pending \/ Open(ui, d)) = b
      BY <2>7
    <3>3. ui' = [ui EXCEPT !.win[w].job = rest, !.win[w].pending = b]
      BY <3>1, <3>2
    <3>4. [ui EXCEPT !.win[w].job = rest, !.win[w].pending = b]
          = [[ui EXCEPT !.win[w].job = rest] EXCEPT !.win[w].pending = b]
      BY <1>2 DEF Process, WindowState
    <3> QED BY <2>1, <3>3, <3>4 DEF With, Remembers, JobAs
  <2>10. Sane(With(n, w, Remembers(n.win[w], b)), disk)
    BY <2>4, <2>6, <2>8, PendingSane
  <2> QED BY <1>1, <1>3, <2>9, <2>10, GhostStays, SpentStays, OnlyTurn
<1> QED BY <1>9, <1>10

LEMMA WriteBodyInv ==
    ASSUME DraftInv, NEW w \in Window, WriteBody(w)
    PROVE  DraftInv'
<1>1. Worker(w, "Pass", "Write") /\ ghost' = ghost
  BY DEF WriteBody
<1>2. /\ Sane(ui, disk) /\ ui \in Process /\ disk \in Disk
      /\ ui.win[w].job \in Job /\ ui.win[w].job.kind = "Pass"
      /\ ui.win[w].job.step = "Write"
      /\ JobPlaced(ui.win[w].job) /\ Timed(ui.win[w].job.done, disk.backing)
      /\ JobGrounded(ui.win[w].job, disk)
  BY <1>1, AtWork
<1>3. GhostType /\ SpentType /\ Timed(disk.entry, disk.backing) /\ Described(disk)
  BY Parts
<1>4. PICK job : job = ui.win[w].job
  OBVIOUS
<1>5. PICK d : d = job.doc
  OBVIOUS
<1>6. d \in Doc /\ job.todo \in SUBSET Doc /\ job.done \in Manifest /\ job.gen[d] \in Text
  BY <1>2, <1>4, <1>5, JobType DEF JobPlaced
<1>7. \A e \in (job.todo \cup {d}) \cap FileBacked : disk.entry[e] # NoEntry
  BY <1>2, <1>4, <1>5 DEF JobGrounded
<1>8. ViewsTrue(ui, disk.entry)
  BY <1>2, NothingUntold DEF Untold
<1>9. PICK written : written = [disk EXCEPT !.body[d] = job.gen[d]]
  OBVIOUS
<1>10. PICK described : described = [mtime |-> Stamp(d), text |-> job.gen[d]]
  OBVIOUS
<1>11. PICK noted : noted = [job.done EXCEPT ![d] = described]
  OBVIOUS
<1>12. /\ written \in Disk /\ written.entry = disk.entry /\ written.backing = disk.backing
       /\ \A e \in Doc : e # d => written.body[e] = disk.body[e]
  BY <1>2, <1>6, <1>9 DEF Disk
<1>13. noted \in Manifest /\ Timed(noted, disk.backing)
  <2>1. Stamp(d) \in {Unproven} \cup Nat
    BY <1>2, <1>6, StampTimes
  <2>2. described \in Entry
    BY <1>6, <1>10, <2>1, EntryType
  <2>3. described.mtime \in {Unproven} \cup 0 .. disk.backing[d]
    BY <1>2, <1>6, <1>10, StampTimes
  <2> QED BY <1>2, <1>4, <1>6, <1>11, <2>2, <2>3 DEF Manifest, Timed
<1>14. PICK done \in {job.done, noted} :
          /\ ui' = [ui EXCEPT !.win[w].job = [@ EXCEPT
                                 !.step = "Capture", !.doc = NoDoc, !.done = done]]
          /\ disk' \in {disk, written} /\ SpentType'
  <2>1. CASE disk' = written /\ spent' = spent
             /\ ui' = [ui EXCEPT !.win[w].job = [@ EXCEPT
                                 !.step = "Capture", !.doc = NoDoc, !.done = noted]]
    BY <1>3, <2>1, SpentStays
  <2>2. CASE Fails("body") /\ disk' \in {disk, written}
             /\ ui' = [ui EXCEPT !.win[w].job = [@ EXCEPT
                                 !.step = "Capture", !.doc = NoDoc, !.done = job.done]]
    BY <1>3, <2>2, FailsSpends
  <2> QED BY <1>4, <1>5, <1>9, <1>10, <1>11, <2>1, <2>2 DEF WriteBody
<1>15. PICK j : j = [job EXCEPT !.step = "Capture", !.doc = NoDoc, !.done = done]
  OBVIOUS
<1>16. ui' = JobAs(ui, w, j)
  BY <1>4, <1>14, <1>15 DEF JobAs
<1>17. done \in Manifest /\ Timed(done, disk.backing)
  BY <1>2, <1>4, <1>6, <1>13, <1>14
<1>18. /\ j \in Job /\ j.kind = "Pass" /\ j.step = "Capture" /\ j.doc = NoDoc
       /\ j.todo = job.todo /\ j.done = done
  BY <1>2, <1>4, <1>15, <1>17 DEF Job
<1>19. JobPlaced(j)
  BY <1>18, SentinelAssumption DEF JobPlaced, StepsOf
<1>20. disk' \in Disk /\ disk'.entry = disk.entry /\ disk'.backing = disk.backing
  BY <1>2, <1>12, <1>14
<1>21. JobGrounded(j, disk')
  <2>1. NoDoc \notin FileBacked
    BY SentinelAssumption DEF FileBacked
  <2> QED BY <1>7, <1>18, <1>20, <2>1 DEF JobGrounded
<1>22. Described(disk')
  <2>1. CASE disk' = disk
    BY <1>3, <2>1
  <2>2. CASE disk' = written
    BY <1>3, <1>7, <1>12, <2>2 DEF Described, FileBacked
  <2> QED BY <1>14, <2>1, <2>2
<1>23. Sane(JobAs(ui, w, j), disk')
  BY <1>2, <1>8, <1>17, <1>18, <1>19, <1>20, <1>21, JobAsSane
<1>24. Sane(ui', disk') /\ Timed(disk'.entry, disk'.backing)
  BY <1>3, <1>16, <1>20, <1>23
<1> QED BY <1>1, <1>3, <1>14, <1>22, <1>24, GhostStays, Whole

\* The step of w's work that JobTo describes.
LEMMA JobToFacts ==
    ASSUME NEW w \in Window, NEW step, NEW result, JobTo(w, step, result),
           ui.win[w].job \in Job,
           step \in {"Commit", "Committed", "Body", "Entry", "Deleted"},
           result \in {"None", "Committed", "Failed", "Unkept", "BodyLeft"}
    PROVE  \E j \in Job :
              /\ ui' = JobAs(ui, w, j) /\ j.step = step /\ j.result = result
              /\ j.kind = ui.win[w].job.kind /\ j.doc = ui.win[w].job.doc
              /\ j.todo = ui.win[w].job.todo /\ j.done = ui.win[w].job.done
<1>1. PICK j : j = [ui.win[w].job EXCEPT !.step = step, !.result = result]
  OBVIOUS
<1>2. /\ j \in Job /\ j.step = step /\ j.result = result
      /\ j.kind = ui.win[w].job.kind /\ j.doc = ui.win[w].job.doc
      /\ j.todo = ui.win[w].job.todo /\ j.done = ui.win[w].job.done
  BY <1>1 DEF Job
<1>3. ui' = JobAs(ui, w, j)
  BY <1>1 DEF JobTo, JobAs
<1> QED BY <1>2, <1>3

LEMMA EndCaptureInv ==
    ASSUME DraftInv, NEW w \in Window, EndCapture(w)
    PROVE  DraftInv'
<1>1. Worker(w, "Pass", "Capture") /\ disk' = disk /\ ghost' = ghost /\ spent' = spent
  BY DEF EndCapture
<1>2. /\ Sane(ui, disk) /\ ui \in Process /\ disk \in Disk
      /\ ui.win[w].job \in Job /\ ui.win[w].job.kind = "Pass"
      /\ ui.win[w].job.step = "Capture"
      /\ JobPlaced(ui.win[w].job) /\ Timed(ui.win[w].job.done, disk.backing)
      /\ JobGrounded(ui.win[w].job, disk)
  BY <1>1, AtWork
<1>3. GhostType /\ SpentType
  BY Parts
<1>4. ViewsTrue(ui, disk.entry)
  BY <1>2, NothingUntold DEF Untold
<1>5. CASE Written(w) = {}
  <2>1. ui' = Finish(ui, w)
    BY <1>5 DEF EndCapture
  <2>2. Sane(Finish(ui, w), disk)
    BY <1>2, <1>4, FinishSane
  <2> QED BY <1>1, <1>3, <2>1, <2>2, GhostStays, SpentStays, OnlyTurn
<1>6. CASE Written(w) # {}
  <2>1. JobTo(w, "Commit", "None")
    BY <1>6 DEF EndCapture
  <2>2. PICK j \in Job : /\ ui' = JobAs(ui, w, j) /\ j.step = "Commit"
                         /\ j.kind = ui.win[w].job.kind /\ j.doc = ui.win[w].job.doc
                         /\ j.done = ui.win[w].job.done
    BY <1>2, <2>1, JobToFacts
  <2>3. JobPlaced(j) /\ Timed(j.done, disk.backing) /\ JobGrounded(j, disk) /\ j.kind = "Pass"
    BY <1>2, <2>2 DEF JobPlaced, StepsOf, JobGrounded
  <2>4. Sane(JobAs(ui, w, j), disk)
    BY <1>2, <1>4, <2>2, <2>3, JobAsSane
  <2> QED BY <1>1, <1>3, <2>2, <2>4, GhostStays, SpentStays, OnlyTurn
<1> QED BY <1>5, <1>6

LEMMA CommitInv ==
    ASSUME DraftInv, NEW w \in Window, Commit(w)
    PROVE  DraftInv'
<1>1. Worker(w, "Pass", "Commit") /\ ghost' = ghost
  BY DEF Commit
<1>2. /\ Sane(ui, disk) /\ ui \in Process /\ disk \in Disk
      /\ ui.win[w].job \in Job /\ ui.win[w].job.kind = "Pass"
      /\ ui.win[w].job.step = "Commit"
      /\ JobPlaced(ui.win[w].job) /\ Timed(ui.win[w].job.done, disk.backing)
  BY <1>1, AtWork
<1>3. GhostType /\ SpentType /\ Timed(disk.entry, disk.backing) /\ Described(disk)
  BY Parts
<1>4. PICK new : new = ui.win[w].job.done
  OBVIOUS
<1>5. PICK manifest : manifest = [d \in Doc |-> IF new[d] # NoEntry THEN new[d] ELSE disk.entry[d]]
  OBVIOUS
<1>6. manifest \in Manifest /\ Timed(manifest, disk.backing)
  BY <1>2, <1>3, <1>4, <1>5, DiskType, JobType DEF Manifest, Timed
<1>7. PICK result \in {"Committed", "Failed"} : JobTo(w, "Committed", result)
  BY DEF Commit
<1>8. CommandCommits(manifest, {}) \/ CommandFails(manifest, {})
  BY <1>4, <1>5 DEF Commit
<1>9. /\ disk' \in Disk /\ disk'.backing = disk.backing
      /\ Timed(disk'.entry, disk'.backing) /\ Described(disk') /\ SpentType'
  <2>1. {} \in SUBSET Doc /\ \A d \in {} : disk.body[d] = NoBody
    OBVIOUS
  <2> QED BY <1>2, <1>3, <1>6, <1>8, <2>1, CommandEnds
<1>10. PICK j \in Job : /\ ui' = JobAs(ui, w, j) /\ j.step = "Committed" /\ j.result = result
                        /\ j.kind = ui.win[w].job.kind /\ j.doc = ui.win[w].job.doc
                        /\ j.done = ui.win[w].job.done
  BY <1>2, <1>7, JobToFacts
<1>11. JobPlaced(j) /\ Timed(j.done, disk'.backing) /\ JobGrounded(j, disk') /\ j.kind = "Pass"
       /\ Untold(j)
  BY <1>2, <1>7, <1>9, <1>10 DEF JobPlaced, StepsOf, JobGrounded, Untold
<1>12. Sane(JobAs(ui, w, j), disk')
  BY <1>2, <1>9, <1>10, <1>11, JobAsSane
<1> QED BY <1>1, <1>3, <1>9, <1>10, <1>12, GhostStays, Whole

LEMMA CommitDoneInv ==
    ASSUME DraftInv, NEW w \in Window, CommitDone(w)
    PROVE  DraftInv'
<1>1. Worker(w, "Pass", "Committed") /\ disk' = disk /\ spent' = spent
  BY DEF CommitDone
<1>2. /\ Sane(ui, disk) /\ ui \in Process /\ disk \in Disk
      /\ ui.win[w].job.kind = "Pass" /\ ui.sweeper \in Window
  BY <1>1, AtWork
<1>3. GhostType /\ SpentType
  BY Parts
<1>4. CASE ui.win[w].job.result = "Committed"
  <2>1. PICK accepted : accepted = CurrentGenerations(w)
    OBVIOUS
  <2>2. PICK told : told = Adopt(ui, disk.entry)
    OBVIOUS
  <2>3. PICK adopted : adopted = [told EXCEPT !.dirty = @ \ accepted]
    OBVIOUS
  <2>4. told \in Process /\ Viewing(ui, told) /\ ViewsTrue(told, disk.entry)
    BY <1>2, <2>2, AdoptViews, DiskType
  <2>5. Sane(told, disk) /\ told.win[w].job = ui.win[w].job
    BY <1>2, <2>4, ToldSane
  <2>6. /\ adopted \in Process /\ adopted.win = told.win /\ adopted.tab = told.tab
        /\ adopted.home = told.home /\ adopted.lane = told.lane
        /\ adopted.sweeper = told.sweeper
    BY <2>3, <2>4 DEF Process
  <2>7. Sane(adopted, disk)
    BY <2>5, <2>6, QuietFields
  <2>8. ViewsTrue(adopted, disk.entry) /\ adopted.win[w].job.kind # "None"
    BY <1>2, <2>4, <2>5, <2>6 DEF ViewsTrue
  <2>9. Sane(Finish(adopted, w), disk)
    BY <2>7, <2>8, FinishSane
  <2>10. ui' = Finish(adopted, w)
         /\ ghost' = [ghost EXCEPT !.accepted = @ \cup UNION {ui.tab[d] : d \in accepted}]
    BY <1>4, <2>1, <2>2, <2>3 DEF CommitDone
  <2>11. GhostType'
    <3>1. \A d \in accepted : ui.tab[d] \in Text
      BY <1>2, <2>1 DEF CurrentGenerations, Written, Open, Process
    <3>2. ghost.accepted \cup UNION {ui.tab[d] : d \in accepted} \in Text
      BY <1>3, <3>1 DEF GhostType, Text
    <3> QED BY <1>3, <2>10, <3>2 DEF GhostType
  <2> QED BY <1>1, <1>3, <2>9, <2>10, <2>11, SpentStays, OnlyTurn
<1>5. CASE ui.win[w].job.result # "Committed"
  <2>1. PICK told : told = Reject(ui)
    OBVIOUS
  <2>2. told \in Process /\ Viewing(ui, told) /\ ViewsTrue(told, disk.entry)
    BY <1>2, <2>1, RejectViews
  <2>3. Sane(told, disk) /\ told.win[w].job = ui.win[w].job
    BY <1>2, <2>2, ToldSane
  <2>4. Sane(Finish(told, w), disk)
    BY <1>2, <2>2, <2>3, FinishSane
  <2>5. ui' = Finish(told, w) /\ ghost' = ghost
    BY <1>5, <2>1 DEF CommitDone
  <2> QED BY <1>1, <1>3, <2>4, <2>5, GhostStays, SpentStays, OnlyTurn
<1> QED BY <1>4, <1>5

-----------------------------------------------------------------------------
(* The actions of a deletion.                                               *)

LEMMA PreserveInv ==
    ASSUME DraftInv, NEW w \in Window, Preserve(w)
    PROVE  DraftInv'
<1>1. Worker(w, "Delete", "Preserve") /\ ghost' = ghost
  BY DEF Preserve
<1>2. /\ Sane(ui, disk) /\ ui \in Process /\ disk \in Disk
      /\ ui.win[w].job \in Job /\ ui.win[w].job.kind = "Delete"
      /\ ui.win[w].job.step = "Preserve"
      /\ JobPlaced(ui.win[w].job) /\ Timed(ui.win[w].job.done, disk.backing)
  BY <1>1, AtWork
<1>3. GhostType /\ SpentType /\ Timed(disk.entry, disk.backing) /\ Described(disk)
  BY Parts
<1>4. ViewsTrue(ui, disk.entry)
  BY <1>2, NothingUntold DEF Untold
<1>5. PICK d : d = ui.win[w].job.doc
  OBVIOUS
<1>6. d \in Doc
  BY <1>2, <1>5 DEF JobPlaced
<1>7. CASE /\ JobTo(w, "Body", "None") /\ spent' = spent
           /\ disk' = [disk EXCEPT !.kept = IF disk.body[d] = NoBody THEN @
                                            ELSE @ \cup disk.body[d]]
  <2>1. PICK kept : kept = IF disk.body[d] = NoBody THEN disk.kept
                           ELSE disk.kept \cup disk.body[d]
    OBVIOUS
  <2>2. kept \in Text
    BY <1>2, <1>6, <2>1, DiskType DEF Text
  <2>3. disk' = [disk EXCEPT !.kept = kept]
    BY <1>7, <2>1
  <2>4. /\ disk' \in Disk /\ disk'.backing = disk.backing /\ disk'.entry = disk.entry
        /\ disk'.body = disk.body
    BY <1>2, <2>2, <2>3 DEF Disk
  <2>5. PICK j \in Job : /\ ui' = JobAs(ui, w, j) /\ j.step = "Body"
                         /\ j.kind = ui.win[w].job.kind /\ j.doc = ui.win[w].job.doc
                         /\ j.done = ui.win[w].job.done
    BY <1>2, <1>7, JobToFacts
  <2>6. JobPlaced(j) /\ Timed(j.done, disk'.backing) /\ JobGrounded(j, disk') /\ j.kind = "Delete"
    BY <1>2, <2>4, <2>5 DEF JobPlaced, StepsOf, JobGrounded
  <2>7. Sane(JobAs(ui, w, j), disk')
    BY <1>2, <1>4, <2>4, <2>5, <2>6, JobAsSane
  <2>8. Timed(disk'.entry, disk'.backing) /\ Described(disk')
    BY <1>3, <2>4 DEF Described
  <2> QED BY <1>1, <1>3, <1>7, <2>5, <2>7, <2>8, GhostStays, SpentStays, Whole
<1>8. CASE Fails("keep") /\ JobTo(w, "Deleted", "Unkept") /\ disk' = disk
  <2>1. PICK j \in Job : /\ ui' = JobAs(ui, w, j) /\ j.step = "Deleted"
                         /\ j.kind = ui.win[w].job.kind /\ j.doc = ui.win[w].job.doc
                         /\ j.done = ui.win[w].job.done
    BY <1>2, <1>8, JobToFacts
  <2>2. JobPlaced(j) /\ Timed(j.done, disk.backing) /\ JobGrounded(j, disk) /\ j.kind = "Delete"
    BY <1>2, <2>1 DEF JobPlaced, StepsOf, JobGrounded
  <2>3. Sane(JobAs(ui, w, j), disk)
    BY <1>2, <1>4, <2>1, <2>2, JobAsSane
  <2> QED BY <1>1, <1>3, <1>8, <2>1, <2>3, GhostStays, FailsSpends, OnlyTurn
<1> QED BY <1>5, <1>7, <1>8 DEF Preserve

LEMMA DeleteBodyInv ==
    ASSUME DraftInv, NEW w \in Window, DeleteBody(w)
    PROVE  DraftInv'
<1>1. Worker(w, "Delete", "Body") /\ ghost' = ghost
  BY DEF DeleteBody
<1>2. /\ Sane(ui, disk) /\ ui \in Process /\ disk \in Disk
      /\ ui.win[w].job \in Job /\ ui.win[w].job.kind = "Delete"
      /\ ui.win[w].job.step = "Body"
      /\ JobPlaced(ui.win[w].job) /\ Timed(ui.win[w].job.done, disk.backing)
  BY <1>1, AtWork
<1>3. GhostType /\ SpentType /\ Timed(disk.entry, disk.backing) /\ Described(disk)
  BY Parts
<1>4. ViewsTrue(ui, disk.entry)
  BY <1>2, NothingUntold DEF Untold
<1>5. PICK d : d = ui.win[w].job.doc
  OBVIOUS
<1>6. d \in Doc
  BY <1>2, <1>5 DEF JobPlaced
<1>7. CASE JobTo(w, "Entry", "None") /\ spent' = spent
           /\ disk' = [disk EXCEPT !.body[d] = NoBody]
  <2>1. /\ disk' \in Disk /\ disk'.backing = disk.backing /\ disk'.entry = disk.entry
        /\ disk'.body[d] = NoBody
        /\ \A e \in Doc : e # d => disk'.body[e] = disk.body[e]
    BY <1>2, <1>6, <1>7 DEF Disk
  <2>2. PICK j \in Job : /\ ui' = JobAs(ui, w, j) /\ j.step = "Entry"
                         /\ j.kind = ui.win[w].job.kind /\ j.doc = ui.win[w].job.doc
                         /\ j.done = ui.win[w].job.done
    BY <1>2, <1>7, JobToFacts
  <2>3. JobPlaced(j) /\ Timed(j.done, disk'.backing) /\ JobGrounded(j, disk') /\ j.kind = "Delete"
    BY <1>2, <1>5, <2>1, <2>2 DEF JobPlaced, StepsOf, JobGrounded
  <2>4. Sane(JobAs(ui, w, j), disk')
    BY <1>2, <1>4, <2>1, <2>2, <2>3, JobAsSane
  <2>5. Timed(disk'.entry, disk'.backing) /\ Described(disk')
    BY <1>3, <2>1 DEF Described, FileBacked
  <2> QED BY <1>1, <1>3, <1>7, <2>2, <2>4, <2>5, GhostStays, SpentStays, Whole
<1>8. CASE Fails("delete") /\ JobTo(w, "Deleted", "BodyLeft") /\ disk' = disk
  <2>1. PICK j \in Job : /\ ui' = JobAs(ui, w, j) /\ j.step = "Deleted"
                         /\ j.kind = ui.win[w].job.kind /\ j.doc = ui.win[w].job.doc
                         /\ j.done = ui.win[w].job.done
    BY <1>2, <1>8, JobToFacts
  <2>2. JobPlaced(j) /\ Timed(j.done, disk.backing) /\ JobGrounded(j, disk) /\ j.kind = "Delete"
    BY <1>2, <2>1 DEF JobPlaced, StepsOf, JobGrounded
  <2>3. Sane(JobAs(ui, w, j), disk)
    BY <1>2, <1>4, <2>1, <2>2, JobAsSane
  <2> QED BY <1>1, <1>3, <1>8, <2>1, <2>3, GhostStays, FailsSpends, OnlyTurn
<1> QED BY <1>5, <1>7, <1>8 DEF DeleteBody

LEMMA RemoveEntryInv ==
    ASSUME DraftInv, NEW w \in Window, RemoveEntry(w)
    PROVE  DraftInv'
<1>1. Worker(w, "Delete", "Entry") /\ ghost' = ghost
  BY DEF RemoveEntry
<1>2. /\ Sane(ui, disk) /\ ui \in Process /\ disk \in Disk
      /\ ui.win[w].job \in Job /\ ui.win[w].job.kind = "Delete"
      /\ ui.win[w].job.step = "Entry"
      /\ JobPlaced(ui.win[w].job) /\ Timed(ui.win[w].job.done, disk.backing)
      /\ JobGrounded(ui.win[w].job, disk)
  BY <1>1, AtWork
<1>3. GhostType /\ SpentType /\ Timed(disk.entry, disk.backing) /\ Described(disk)
  BY Parts
<1>4. PICK d : d = ui.win[w].job.doc
  OBVIOUS
<1>5. d \in Doc /\ disk.body[d] = NoBody
  BY <1>2, <1>4 DEF JobPlaced, JobGrounded
<1>6. PICK manifest : manifest = [disk.entry EXCEPT ![d] = NoEntry]
  OBVIOUS
<1>7. manifest \in Manifest /\ Timed(manifest, disk.backing)
  BY <1>2, <1>3, <1>5, <1>6, DiskType DEF Manifest, Timed
<1>8. PICK result \in {"Committed", "Failed"} : JobTo(w, "Deleted", result)
  BY DEF RemoveEntry
<1>9. PICK removed : removed = {d}
  OBVIOUS
<1>10. CommandCommits(manifest, removed) \/ CommandFails(manifest, removed)
  BY <1>4, <1>6, <1>9 DEF RemoveEntry
<1>11. removed \in SUBSET Doc /\ \A e \in removed : disk.body[e] = NoBody
  BY <1>5, <1>9
<1>12. /\ disk' \in Disk /\ disk'.backing = disk.backing
       /\ Timed(disk'.entry, disk'.backing) /\ Described(disk') /\ SpentType'
  BY <1>2, <1>3, <1>7, <1>10, <1>11, CommandEnds
<1>13. PICK j \in Job : /\ ui' = JobAs(ui, w, j) /\ j.step = "Deleted" /\ j.result = result
                        /\ j.kind = ui.win[w].job.kind /\ j.doc = ui.win[w].job.doc
                        /\ j.done = ui.win[w].job.done
  BY <1>2, <1>8, JobToFacts
<1>14. JobPlaced(j) /\ Timed(j.done, disk'.backing) /\ JobGrounded(j, disk') /\ j.kind = "Delete"
       /\ Untold(j)
  BY <1>2, <1>8, <1>12, <1>13 DEF JobPlaced, StepsOf, JobGrounded, Untold
<1>15. Sane(JobAs(ui, w, j), disk')
  BY <1>2, <1>12, <1>13, <1>14, JobAsSane
<1> QED BY <1>1, <1>3, <1>12, <1>13, <1>15, GhostStays, Whole

LEMMA DeleteDoneInv ==
    ASSUME DraftInv, NEW w \in Window, DeleteDone(w)
    PROVE  DraftInv'
<1>1. Worker(w, "Delete", "Deleted") /\ disk' = disk /\ ghost' = ghost /\ spent' = spent
  BY DEF DeleteDone
<1>2. /\ Sane(ui, disk) /\ ui \in Process /\ disk \in Disk
      /\ ui.win[w].job \in Job /\ ui.win[w].job.kind = "Delete"
      /\ ui.win[w].job.step = "Deleted" /\ JobPlaced(ui.win[w].job)
      /\ ui.win[w].running /\ ui.sweeper \in Window
  BY <1>1, AtWork
<1>3. GhostType /\ SpentType
  BY Parts
<1>4. PICK job : job = ui.win[w].job
  OBVIOUS
<1>5. job.doc \in Doc /\ job.kind = "Delete" /\ job.step = "Deleted"
  BY <1>2, <1>4 DEF JobPlaced
<1>6. PICK told : told = Adopt(ui, disk.entry)
  OBVIOUS
<1>7. PICK doomed : doomed = IF job.doc \in Range(ui.win[w].deletes) THEN told.win[w].doomed
                             ELSE told.win[w].doomed \ {job.doc}
  OBVIOUS
<1>8. PICK stale : stale = ui.win[w].stale \cup {job.doc}
  OBVIOUS
<1>9. PICK next : next = CASE job.result = "Committed" -> [told EXCEPT !.win[w].doomed = doomed]
                           [] job.result = "Failed" -> Reject(ui)
                           [] job.result = "Unkept" -> [ui EXCEPT !.win[w].stale = stale]
                           [] OTHER -> ui
  OBVIOUS
<1>10. ui' = Finish(next, w)
  BY <1>4, <1>6, <1>7, <1>8, <1>9 DEF DeleteDone
<1>11. Sane(next, disk) /\ ViewsTrue(next, disk.entry) /\ next.win[w].job = job
  <2>1. CASE job.result = "Committed"
    <3>1. told \in Process /\ Viewing(ui, told) /\ ViewsTrue(told, disk.entry)
      BY <1>2, <1>6, AdoptViews, DiskType
    <3>2. Sane(told, disk) /\ told.win[w].job = job /\ told.win[w].running
      BY <1>2, <1>4, <3>1, ToldSane DEF Keeps
    <3>3. told.win[w] \in WindowState /\ doomed \in SUBSET Doc
      BY <1>7, <3>1, WindowType
    <3>4. PICK x : x = [told.win[w] EXCEPT !.doomed = doomed]
      OBVIOUS
    <3>5. /\ x \in WindowState /\ x.running = told.win[w].running
          /\ x.trusted = told.win[w].trusted /\ x.known = told.win[w].known
          /\ x.restore = told.win[w].restore /\ x.job = told.win[w].job
      BY <3>3, <3>4 DEF WindowState
    <3>6. next = With(told, w, x)
      BY <1>9, <2>1, <3>4 DEF With
    <3>7. Sane(next, disk) /\ next.win[w] = x
      BY <3>2, <3>5, <3>6, StillWindow
    <3>8. \A v \in Window : Narrower(next.win[v], told.win[v])
      <4>1. \A v \in Window : v # w => next.win[v] = told.win[v]
        BY <3>1, <3>5, <3>6, PutWindow
      <4> QED BY <3>5, <3>7, <4>1, SameIsNarrower DEF Narrower
    <3>9. ViewsTrue(next, disk.entry)
      BY <3>1, <3>8, ViewsNarrow
    <3> QED BY <3>2, <3>5, <3>7, <3>9
  <2>2. CASE job.result = "Failed"
    <3>1. next = Reject(ui)
      BY <1>9, <2>2
    <3>2. next \in Process /\ Viewing(ui, next) /\ ViewsTrue(next, disk.entry)
      BY <1>2, <3>1, RejectViews
    <3> QED BY <1>2, <1>4, <3>2, ToldSane
  <2>3. CASE job.result \notin {"Committed", "Failed"}
    <3>1. ViewsTrue(ui, disk.entry)
      BY <1>2, <1>4, <2>3, NothingUntold DEF Untold
    <3>2. CASE job.result = "Unkept"
      <4>1. PICK x : x = [ui.win[w] EXCEPT !.stale = stale]
        OBVIOUS
      <4>2. ui.win[w] \in WindowState /\ stale \in SUBSET Doc
        BY <1>2, <1>5, <1>8, WindowType
      <4>3. /\ x \in WindowState /\ x.running = ui.win[w].running
            /\ x.trusted = ui.win[w].trusted /\ x.known = ui.win[w].known
            /\ x.restore = ui.win[w].restore /\ x.job = ui.win[w].job
        BY <4>1, <4>2, ZenonT(30) DEF WindowState
      <4>4. next = With(ui, w, x)
        BY <1>9, <3>2, <4>1 DEF With
      <4>5. Sane(next, disk) /\ next.win[w] = x
        <5>1. Sane(ui, disk) /\ ui.win[w].running
          BY <1>2
        <5>2. Sane(With(ui, w, x), disk) /\ With(ui, w, x).win[w] = x
          BY <4>3, <5>1, StillWindow, ZenonT(30)
        <5> QED BY <4>4, <5>2
      <4>6. \A v \in Window : Narrower(next.win[v], ui.win[v])
        <5>1. \A v \in Window : v # w => next.win[v] = ui.win[v]
          BY <1>2, <4>3, <4>4, PutWindow
        <5> QED BY <4>3, <4>5, <5>1, SameIsNarrower DEF Narrower
      <4>7. ViewsTrue(next, disk.entry)
        BY <3>1, <4>6, ViewsNarrow
      <4> QED BY <1>4, <4>3, <4>5, <4>7
    <3>3. CASE job.result # "Unkept"
      BY <1>2, <1>4, <1>9, <2>3, <3>1, <3>3
    <3> QED BY <3>2, <3>3
  <2> QED BY <2>1, <2>2, <2>3
<1>12. Sane(Finish(next, w), disk)
  BY <1>5, <1>11, FinishSane
<1> QED BY <1>1, <1>3, <1>10, <1>12, GhostStays, SpentStays, OnlyTurn

-----------------------------------------------------------------------------
(* The actions of a restore.                                                *)

\* Editors change, of running windows only.
LEMMA EditorsSane ==
    ASSUME NEW u, NEW k, Sane(u, k), NEW n \in Process, ShownIn(u, n),
           n.win = u.win, n.lane = u.lane, n.sweeper = u.sweeper
    PROVE  Sane(n, k)
<1>1. OnlyRunning(n)
  <2>1. \A d \in Doc : n.tab[d] # Closed => n.home[d] \in Window /\ n.win[n.home[d]].running
    BY DEF ShownIn
  <2> QED BY <2>1 DEF Sane, OnlyRunning
<1>2. Orderly(n, k)
  BY DEF Sane, Orderly
<1>3. ViewsFollow(n, k)
  <2>1. ASSUME NEW m, ViewsTrue(u, m)
        PROVE  ViewsTrue(n, m)
    BY <2>1 DEF ViewsTrue
  <2> QED BY <2>1 DEF Sane, ViewsFollow, SweepUntold
<1> QED BY <1>1, <1>2, <1>3 DEF Sane

\* A window with a restore is running.
LEMMA RestoringRuns ==
    ASSUME DraftInv, NEW w \in Window, NEW d \in Doc, Stage(w, d) # "None"
    PROVE  /\ Sane(ui, disk) /\ ui \in Process /\ disk \in Disk /\ GhostType /\ SpentType
           /\ ui.win[w] \in WindowState /\ ui.win[w].restore[d] \in Restore
           /\ ui.win[w].running
<1>1. Sane(ui, disk) /\ GhostType /\ SpentType
  BY Parts
<1>2. ui \in Process /\ disk \in Disk
  BY <1>1 DEF Sane
<1>3. ui.win[w].running
  BY <1>1 DEF Sane, OnlyRunning, Stage
<1> QED BY <1>1, <1>2, <1>3, WindowType

LEMMA RestoreReadInv ==
    ASSUME DraftInv, NEW w \in Window, NEW d \in Doc, RestoreRead(w, d)
    PROVE  DraftInv'
<1>1. Stage(w, d) = "Queued" /\ disk' = disk /\ ghost' = ghost
  BY DEF RestoreRead
<1>2. /\ Sane(ui, disk) /\ ui \in Process /\ disk \in Disk /\ GhostType /\ SpentType
      /\ ui.win[w].restore[d] \in Restore /\ ui.win[w].running
  BY <1>1, RestoringRuns
<1>3. PICK entry : entry = ui.win[w].restore[d].entry
  OBVIOUS
<1>4. PICK found \in {Found(d, entry), ReadFailed} :
          /\ ui' = [ui EXCEPT !.win[w].restore[d] = [@ EXCEPT !.stage = "Read", !.found = found]]
          /\ SpentType'
  BY <1>2, <1>3, FailsSpends, SpentStays DEF RestoreRead
<1>5. found \in {NoBody, Stale, ReadFailed} \cup Text
  BY <1>2, <1>4, DiskType DEF Found
<1>6. PICK r : r = [ui.win[w].restore[d] EXCEPT !.stage = "Read", !.found = found]
  OBVIOUS
<1>7. r \in Restore /\ r.stage = "Read"
  BY <1>2, <1>5, <1>6 DEF Restore
<1>8. ui' = RestoreAs(ui, w, d, r)
  BY <1>4, <1>6 DEF RestoreAs
<1>9. Sane(RestoreAs(ui, w, d, r), disk)
  BY <1>2, <1>7, RestoreAsSane
<1> QED BY <1>1, <1>2, <1>4, <1>8, <1>9, GhostStays, OnlyTurn

LEMMA RestoreDoneInv ==
    ASSUME DraftInv, NEW w \in Window, NEW d \in Doc, RestoreDone(w, d)
    PROVE  DraftInv'
<1>1. Stage(w, d) = "Read" /\ disk' = disk /\ ghost' = ghost /\ spent' = spent
  BY DEF RestoreDone
<1>2. /\ Sane(ui, disk) /\ ui \in Process /\ disk \in Disk /\ GhostType /\ SpentType
      /\ ui.win[w].restore[d] \in Restore /\ ui.win[w].running
  BY <1>1, RestoringRuns
<1>3. PICK found : found = ui.win[w].restore[d].found
  OBVIOUS
<1>4. found \in {NoBody, Stale, ReadFailed} \cup Text
  BY <1>2, <1>3 DEF Restore
<1>5. PICK released : released = Dropped(ui, w, d)
  OBVIOUS
<1>6. Sane(released, disk) /\ released.win[w].running
  BY <1>2, <1>5, DroppedSane DEF Keeps
<1>7. PICK marked : marked = [released EXCEPT !.win[w].stale = @ \cup {d}]
  OBVIOUS
<1>8. Sane(marked, disk) /\ marked.win[w].running
  <2>1. released.win[w] \in WindowState
    BY <1>6, WindowType DEF Sane
  <2>2. PICK x : x = [released.win[w] EXCEPT !.stale = @ \cup {d}]
    OBVIOUS
  <2>3. /\ x \in WindowState /\ x.running = released.win[w].running
        /\ x.trusted = released.win[w].trusted /\ x.known = released.win[w].known
        /\ x.restore = released.win[w].restore /\ x.job = released.win[w].job
    BY <2>1, <2>2, ZenonT(30) DEF WindowState
  <2>4. marked = With(released, w, x)
    BY <1>7, <2>2 DEF With
  <2>5. Sane(With(released, w, x), disk) /\ With(released, w, x).win[w] = x
    BY <1>6, <2>3, StillWindow, ZenonT(30)
  <2> QED BY <1>6, <2>3, <2>4, <2>5
<1>9. Sane(DeleteDraft(marked, w, d), disk)
  BY <1>8, DeleteDraftSane
<1>10. Sane(RestoreTo(ui, w, d, "Copying"), disk)
  BY <1>2, RestoreToSane
<1>11. found \in Text => Sane(RestoreTo(ui, w, d, "Installing"), disk)
  BY <1>2, <1>3, RestoreToSane
<1>12. ui' = IF found = NoBody \/ ~Open(ui, d) \/ ~EntryCurrent(w, d) THEN released
             ELSE IF ui.tab[d] # {} \/ found = ReadFailed THEN RestoreTo(ui, w, d, "Copying")
             ELSE IF found = Stale THEN DeleteDraft(marked, w, d)
             ELSE RestoreTo(ui, w, d, "Installing")
  BY <1>3, <1>5, <1>7 DEF RestoreDone
<1>13. Sane(ui', disk)
  BY <1>4, <1>6, <1>9, <1>10, <1>11, <1>12
<1> QED BY <1>1, <1>2, <1>13, GhostStays, SpentStays, OnlyTurn

LEMMA InstallDoneInv ==
    ASSUME DraftInv, NEW w \in Window, NEW d \in Doc, InstallDone(w, d)
    PROVE  DraftInv'
<1>1. Stage(w, d) = "Installing" /\ disk' = disk /\ ghost' = ghost
  BY DEF InstallDone
<1>2. /\ Sane(ui, disk) /\ ui \in Process /\ disk \in Disk /\ GhostType /\ SpentType
      /\ ui.win[w].restore[d] \in Restore /\ ui.win[w].running
  BY <1>1, RestoringRuns
<1>3. PICK body : body = ui.win[w].restore[d].found
  OBVIOUS
<1>4. body \in Text
  BY <1>1, <1>2, <1>3, RestoresSane DEF Stage
<1>5. PICK dropped : dropped = Dropped(ui, w, d)
  OBVIOUS
<1>6. Sane(dropped, disk) /\ Keeps(ui, dropped) /\ dropped \in Process
  BY <1>2, <1>5, DroppedSane DEF Sane
<1>7. PICK shown : shown = [dropped EXCEPT !.tab[d] = body, !.dirty = @ \cup {d}]
  OBVIOUS
<1>8. PICK cancelled : cancelled = IF EntryCurrent(w, d) THEN RestoreTo(ui, w, d, "Copying")
                                   ELSE dropped
  OBVIOUS
<1>9. Sane(cancelled, disk)
  BY <1>2, <1>6, <1>8, RestoreToSane
<1>10. ASSUME Open(ui, d)
       PROVE  Sane(shown, disk)
  <2>1. /\ shown \in Process /\ shown.win = dropped.win /\ shown.home = dropped.home
        /\ shown.lane = dropped.lane /\ shown.sweeper = dropped.sweeper
        /\ \A e \in Doc : e # d => shown.tab[e] = dropped.tab[e]
    BY <1>4, <1>6, <1>7 DEF Process
  <2>2. dropped.tab[d] # Closed
    BY <1>6, <1>10 DEF Open, Keeps
  <2>3. ShownIn(dropped, shown)
    BY <1>6, <2>1, <2>2 DEF Sane, OnlyRunning, ShownIn
  <2> QED BY <1>6, <2>1, <2>3, EditorsSane
<1>11. ui' \in {shown, cancelled} /\ (ui' = shown => Open(ui, d) \/ shown = cancelled)
       /\ SpentType'
  <2>1. CASE ui' = (IF TicketCurrent(w, d) THEN shown ELSE cancelled) /\ spent' = spent
    BY <1>2, <2>1, SpentStays DEF TicketCurrent
  <2>2. CASE Fails("install") /\ ui' = cancelled
    BY <1>2, <2>2, FailsSpends
  <2> QED BY <1>3, <1>5, <1>7, <1>8, <2>1, <2>2 DEF InstallDone
<1>12. Sane(ui', disk)
  BY <1>9, <1>10, <1>11
<1> QED BY <1>1, <1>2, <1>11, <1>12, GhostStays, OnlyTurn

LEMMA CopyUnrestoredInv ==
    ASSUME DraftInv, NEW w \in Window, NEW d \in Doc, CopyUnrestored(w, d)
    PROVE  DraftInv'
<1>1. Stage(w, d) = "Copying" /\ ghost' = ghost
  BY DEF CopyUnrestored
<1>2. /\ Sane(ui, disk) /\ ui \in Process /\ disk \in Disk /\ GhostType /\ SpentType
      /\ ui.win[w].restore[d] \in Restore /\ ui.win[w].running
  BY <1>1, RestoringRuns
<1>3. Timed(disk.entry, disk.backing) /\ Described(disk)
  BY Parts
<1>4. CASE /\ ui' = Dropped(ui, w, d) /\ spent' = spent
           /\ disk' = [disk EXCEPT !.kept = IF disk.body[d] = NoBody THEN @
                                            ELSE @ \cup disk.body[d]]
  <2>1. PICK kept : kept = IF disk.body[d] = NoBody THEN disk.kept
                           ELSE disk.kept \cup disk.body[d]
    OBVIOUS
  <2>2. kept \in Text
    BY <1>2, <2>1, DiskType DEF Text
  <2>3. disk' = [disk EXCEPT !.kept = kept]
    BY <1>4, <2>1
  <2>4. /\ disk' \in Disk /\ disk'.backing = disk.backing /\ disk'.entry = disk.entry
        /\ disk'.body = disk.body
    BY <1>2, <2>2, <2>3 DEF Disk
  <2>5. \A e \in Doc : disk.backing[e] <= disk'.backing[e]
    BY <1>2, <2>4, DiskType
  <2>6. Sane(Dropped(ui, w, d), disk)
    BY <1>2, DroppedSane
  <2>7. Sane(Dropped(ui, w, d), disk') /\ Timed(disk'.entry, disk'.backing) /\ Described(disk')
    BY <1>3, <2>4, <2>5, <2>6, DiskAside
  <2> QED BY <1>1, <1>2, <1>4, <2>7, GhostStays, SpentStays, Whole
<1>5. CASE Fails("keep") /\ ui' = RestoreTo(ui, w, d, "Retry") /\ disk' = disk
  <2>1. Sane(RestoreTo(ui, w, d, "Retry"), disk)
    BY <1>2, RestoreToSane
  <2> QED BY <1>1, <1>2, <1>5, <2>1, GhostStays, FailsSpends, OnlyTurn
<1> QED BY <1>4, <1>5 DEF CopyUnrestored

-----------------------------------------------------------------------------
(* Orphan cleanup, timers and wakeups.                                      *)

LEMMA StartSweepInv ==
    ASSUME DraftInv, NEW w \in Window, StartSweep(w)
    PROVE  DraftInv'
<1>1. ui.sweeper = w /\ ~Sweeping(ui, w) /\ ~Busy(ui, w) /\ disk' = disk /\ ghost' = ghost
      /\ spent' = spent
  BY DEF StartSweep, MayTakeLane
<1>2. Sane(ui, disk) /\ GhostType /\ SpentType
  BY Parts
<1>3. ui \in Process /\ ui.win[w] \in WindowState
  BY <1>2, WindowType DEF Sane
<1>4. ui.win[w].running /\ ui.lane = Nobody
  BY <1>1, <1>2, NotBusy, SentinelAssumption DEF Sane, OnlyRunning
<1>5. PICK j : j = [IdleJob EXCEPT !.kind = "Sweep", !.step = "Sweep"]
  OBVIOUS
<1>6. /\ j \in Job /\ j.kind = "Sweep" /\ j.step = "Sweep" /\ j.doc = NoDoc
      /\ j.done = NoManifest
  BY <1>5, IdleTypes DEF Job, IdleJob
<1>7. JobPlaced(j) /\ Timed(j.done, disk.backing) /\ JobGrounded(j, disk)
  BY <1>6, SentinelAssumption DEF JobPlaced, StepsOf, Timed, NoManifest, JobGrounded
<1>8. PICK x : x = [ui.win[w] EXCEPT !.job = j]
  OBVIOUS
<1>9. /\ x \in WindowState /\ x.running = ui.win[w].running
      /\ x.trusted = ui.win[w].trusted /\ x.known = ui.win[w].known
      /\ x.restore = ui.win[w].restore /\ x.job = j
  BY <1>3, <1>6, <1>8 DEF WindowState
<1>10. PICK m : m = With(Taken(ui, w), w, x)
  OBVIOUS
<1>11. Sane(m, disk)
  BY <1>2, <1>4, <1>6, <1>7, <1>9, <1>10, WorkWindow
<1>12. /\ ui' \in Process /\ ui'.win = m.win /\ ui'.tab = m.tab /\ ui'.home = m.home
       /\ ui'.lane = m.lane /\ ui'.sweeper = m.sweeper
  <2>1. ui' = [m EXCEPT !.armed = FALSE]
    <3>1. ui' = [ui EXCEPT !.armed = FALSE, !.lane = w, !.win[w].job = j]
      BY <1>5 DEF StartSweep
    <3> QED BY <1>3, <1>8, <1>10, <3>1 DEF With, Taken, Process, WindowState
  <2> QED BY <1>11, <2>1 DEF Sane, Process
<1>13. Sane(ui', disk)
  BY <1>11, <1>12, QuietFields
<1> QED BY <1>1, <1>2, <1>13, GhostStays, SpentStays, OnlyTurn

LEMMA SweepInv ==
    ASSUME DraftInv, NEW w \in Window, Sweep(w)
    PROVE  DraftInv'
<1>1. Worker(w, "Sweep", "Sweep") /\ ghost' = ghost /\ spent' = spent
  BY DEF Sweep
<1>2. /\ Sane(ui, disk) /\ ui \in Process /\ disk \in Disk
      /\ ui.win[w].job \in Job /\ ui.win[w].job.kind = "Sweep"
      /\ ui.win[w].job.step = "Sweep" /\ JobPlaced(ui.win[w].job)
  BY <1>1, AtWork
<1>3. GhostType /\ SpentType /\ Timed(disk.entry, disk.backing) /\ Described(disk)
  BY Parts
<1>4. ViewsTrue(ui, disk.entry)
  BY <1>2, NothingUntold DEF Untold
<1>5. PICK bodies : bodies = [d \in Doc |-> IF d \in Orphans THEN NoBody ELSE disk.body[d]]
  OBVIOUS
<1>6. PICK entries : entries = [d \in Doc |-> IF d \in MissingBody THEN NoEntry ELSE disk.entry[d]]
  OBVIOUS
<1>7. PICK done : done = [d \in Doc |-> IF d \in MissingBody THEN disk.entry[d] ELSE NoEntry]
  OBVIOUS
<1>8. disk' = [disk EXCEPT !.body = bodies, !.entry = entries]
  BY <1>5, <1>6 DEF Sweep
<1>9. /\ bodies \in [Doc -> {NoBody} \cup Text] /\ entries \in Manifest /\ done \in Manifest
  BY <1>2, <1>5, <1>6, <1>7, DiskType DEF Manifest
<1>10. /\ disk' \in Disk /\ disk'.backing = disk.backing /\ disk'.entry = entries
       /\ disk'.body = bodies
  BY <1>2, <1>8, <1>9 DEF Disk
<1>11. Timed(entries, disk.backing) /\ Timed(done, disk.backing)
  BY <1>3, <1>6, <1>7 DEF Timed
<1>12. Described(disk')
  BY <1>3, <1>5, <1>6, <1>10 DEF Described, FileBacked, MissingBody
<1>13. Before(disk', done) = disk.entry
  <2>1. \A d \in Doc : (IF entries[d] = NoEntry THEN done[d] ELSE entries[d]) = disk.entry[d]
    BY <1>6, <1>7 DEF MissingBody
  <2>2. disk.entry = [d \in Doc |-> disk.entry[d]]
    BY <1>2, DiskType DEF Manifest
  <2> QED BY <1>10, <2>1, <2>2 DEF Before
<1>14. PICK j : j = [ui.win[w].job EXCEPT !.step = "Swept", !.done = done]
  OBVIOUS
<1>15. ui' = JobAs(ui, w, j)
  BY <1>7, <1>14 DEF Sweep, JobAs
<1>16. /\ j \in Job /\ j.kind = "Sweep" /\ j.step = "Swept" /\ j.doc = ui.win[w].job.doc
       /\ j.done = done
  BY <1>2, <1>9, <1>14 DEF Job
<1>17. JobPlaced(j) /\ Timed(j.done, disk'.backing) /\ JobGrounded(j, disk')
  BY <1>2, <1>10, <1>11, <1>16 DEF JobPlaced, StepsOf, JobGrounded
<1>18. ViewsTrue(ui, Before(disk', j.done))
  BY <1>4, <1>13, <1>16
<1>19. Sane(JobAs(ui, w, j), disk')
  BY <1>2, <1>10, <1>16, <1>17, <1>18, JobAsSane
<1> QED BY <1>1, <1>3, <1>10, <1>11, <1>12, <1>15, <1>19, GhostStays, SpentStays, Whole

LEMMA SweepDoneInv ==
    ASSUME DraftInv, NEW w \in Window, SweepDone(w)
    PROVE  DraftInv'
<1>1. Worker(w, "Sweep", "Swept") /\ disk' = disk /\ ghost' = ghost /\ spent' = spent
  BY DEF SweepDone
<1>2. /\ Sane(ui, disk) /\ ui \in Process /\ disk \in Disk
      /\ ui.win[w].job \in Job /\ ui.win[w].job.kind = "Sweep"
      /\ ui.win[w].job.step = "Swept"
  BY <1>1, AtWork
<1>3. GhostType /\ SpentType
  BY Parts
<1>4. PICK removed : removed = ui.win[w].job.done
  OBVIOUS
<1> DEFINE told(v) == [ui.win[v] EXCEPT !.known = Less(ui.win[v].known, removed)]
           win == [v \in Window |-> told(v)]
<1>5. PICK n : n = [ui EXCEPT !.win = win]
  OBVIOUS
<1>6. ui' = Finish(n, w)
  BY <1>4, <1>5 DEF SweepDone
<1>7. ASSUME NEW v \in Window
      PROVE  /\ told(v) \in WindowState /\ told(v).running = ui.win[v].running
             /\ told(v).trusted = ui.win[v].trusted
             /\ told(v).job = ui.win[v].job /\ told(v).restore = ui.win[v].restore
             /\ \A d \in Doc : told(v).known[d] = IF ui.win[v].known[d] = removed[d] THEN NoEntry
                                                  ELSE ui.win[v].known[d]
  <2>1. ui.win[v] \in WindowState /\ ui.win[v].known \in Manifest
    BY <1>2, WindowType
  <2>2. PICK known : known = Less(ui.win[v].known, removed)
    OBVIOUS
  <2>3. /\ known \in Manifest
        /\ \A d \in Doc : known[d] = IF ui.win[v].known[d] = removed[d] THEN NoEntry
                                     ELSE ui.win[v].known[d]
    BY <2>1, <2>2 DEF Less, Manifest
  <2> QED BY <2>1, <2>2, <2>3 DEF WindowState
<1>8. win \in [Window -> WindowState] /\ \A v \in Window : win[v] = told(v)
  BY <1>7
<1> HIDE DEF told, win
<1>9. /\ n \in Process /\ n.win = win /\ n.tab = ui.tab /\ n.home = ui.home /\ n.lane = ui.lane
      /\ n.sweeper = ui.sweeper
  BY <1>2, <1>5, <1>8 DEF Process
<1>10. Viewing(ui, n)
  BY <1>7, <1>8, <1>9 DEF Viewing
<1>11. ViewsTrue(n, disk.entry)
  <2>1. \A v \in Window : Narrower(n.win[v], ui.win[v])
    BY <1>7, <1>8, <1>9 DEF Narrower
  <2>2. CASE ViewsTrue(ui, disk.entry)
    BY <2>1, <2>2, ViewsNarrow
  <2>3. CASE ~ViewsTrue(ui, disk.entry)
    <3>1. \A v \in Window : v # w => ui.win[v].job.step = "None"
      BY <1>2, HeldLane
    <3>2. SweepUntold(ui, disk, w)
      BY <1>2, <2>3, <3>1 DEF Sane, ViewsFollow, Untold, SweepUntold
    <3>3. ASSUME NEW v \in Window, n.win[v].running, n.win[v].trusted, NEW d \in Doc
          PROVE  n.win[v].known[d] \in {NoEntry, disk.entry[d]}
      <4>1. ui.win[v].running /\ ui.win[v].trusted
        BY <1>7, <1>8, <1>9, <3>3
      <4>2. ui.win[v].known[d] \in {NoEntry, IF disk.entry[d] = NoEntry THEN removed[d]
                                             ELSE disk.entry[d]}
        BY <1>4, <3>2, <4>1 DEF SweepUntold, ViewsTrue
      <4>3. n.win[v].known[d] = IF ui.win[v].known[d] = removed[d] THEN NoEntry
                                ELSE ui.win[v].known[d]
        BY <1>7, <1>8, <1>9
      <4> QED BY <4>2, <4>3
    <3> QED BY <3>3 DEF ViewsTrue
  <2> QED BY <2>2, <2>3
<1>12. Sane(n, disk) /\ n.win[w].job.kind # "None"
  BY <1>2, <1>9, <1>10, <1>11, ToldSane
<1>13. Sane(Finish(n, w), disk)
  BY <1>11, <1>12, FinishSane
<1> QED BY <1>1, <1>3, <1>6, <1>13, GhostStays, SpentStays, OnlyTurn

LEMMA AutosaveTickInv ==
    ASSUME DraftInv, NEW w \in Window, AutosaveTick(w)
    PROVE  DraftInv'
<1>1. /\ ui.win[w].running /\ ui' = Tick(ui, w) /\ disk' = disk /\ ghost' = ghost
      /\ spent' = spent
  BY DEF AutosaveTick, Running
<1>2. Sane(ui, disk) /\ GhostType /\ SpentType
  BY Parts
<1>3. Sane(Tick(ui, w), disk)
  BY <1>1, <1>2, TickSane
<1> QED BY <1>1, <1>2, <1>3, GhostStays, SpentStays, OnlyTurn

\* A nonempty set of naturals has a least element.
LEMMA LeastNatural ==
    ASSUME NEW T \in SUBSET Nat, T # {}
    PROVE  \E n \in T : \A m \in T : n <= m
<1> DEFINE R == OpToRel(<, Nat)
<1>1. \E x \in T : \A y \in T : ~ (<<y, x>> \in R)
  BY NatLessThanWellFounded, WFMin, Zenon
<1>2. \A x, y \in Nat : x < y => <<x, y>> \in R
  BY DEF OpToRel
<1> HIDE DEF R
<1>3. PICK n \in T : \A y \in T : ~ (<<y, n>> \in R)
  BY <1>1
<1>4. ASSUME NEW m \in T
      PROVE  n <= m
  <2>1. m \in Nat /\ n \in Nat /\ ~ (<<m, n>> \in R)
    BY <1>3
  <2>2. ~ (m < n)
    BY <1>2, <2>1
  <2> QED BY <2>1, <2>2
<1> QED BY <1>3, <1>4

\* The turns of a wakeup are what their recursive definition says.
LEMMA TurnsDef ==
    ASSUME NEW u, NEW order \in Seq(Window)
    PROVE  /\ Turns(u, order)[0] = u
           /\ \A i \in 1 .. Len(order) : Turns(u, order)[i] = Turn(Turns(u, order)[i - 1], order[i])
<1> DEFINE Is(g, k) == g = [i \in 0 .. k |-> IF i = 0 THEN u ELSE Turn(g[i - 1], order[i])]
           T == {k \in 0 .. Len(order) : ~ \E g : Is(g, k)}
<1>1. /\ Len(order) \in Nat /\ T \in SUBSET Nat
      /\ \A k \in T : k \in 0 .. Len(order) /\ ~ \E g : Is(g, k)
      /\ \A k \in 0 .. Len(order) : k \notin T => \E g : Is(g, k)
  OBVIOUS
<1> HIDE DEF T
<1>2. T = {}
  <2> SUFFICES ASSUME T # {} PROVE FALSE
    OBVIOUS
  <2>1. PICK k \in T : \A m \in T : k <= m
    BY <1>1, LeastNatural
  <2>2. CASE k = 0
    <3>1. Is([i \in 0 .. 0 |-> u], 0)
      OBVIOUS
    <3> QED BY <1>1, <2>1, <2>2, <3>1
  <2>3. CASE k # 0
    <3>1. k - 1 \in 0 .. Len(order) /\ k - 1 \notin T /\ k \in 1 .. Len(order)
      BY <1>1, <2>1, <2>3
    <3>2. PICK g : Is(g, k - 1)
      BY <1>1, <3>1
    <3> DEFINE h == [i \in 0 .. k |-> IF i = k THEN Turn(g[k - 1], order[k]) ELSE g[i]]
    <3>3. Is(h, k)
      <4>1. \A i \in 0 .. k - 1 : g[i] = IF i = 0 THEN u ELSE Turn(g[i - 1], order[i])
        BY <3>2
      <4> QED BY <3>1, <4>1
    <3> QED BY <1>1, <2>1, <3>3
  <2> QED BY <2>2, <2>3
<1>3. Is(Turns(u, order), Len(order))
  <2>1. \E g : Is(g, Len(order))
    BY <1>1, <1>2
  <2> QED BY <2>1 DEF Turns
<1> QED BY <1>1, <1>3

LEMMA TurnsSane ==
    ASSUME NEW u, NEW k, Sane(u, k), NEW order \in Seq(Window)
    PROVE  \A i \in 0 .. Len(order) : Sane(Turns(u, order)[i], k)
<1> DEFINE T == {i \in 0 .. Len(order) : ~Sane(Turns(u, order)[i], k)}
<1>1. Len(order) \in Nat /\ T \in SUBSET Nat
  OBVIOUS
<1> SUFFICES ASSUME T # {} PROVE FALSE
  OBVIOUS
<1>2. PICK i \in T : \A m \in T : i <= m
  BY <1>1, LeastNatural
<1>3. i # 0
  BY <1>2, TurnsDef
<1>4. i - 1 \in 0 .. Len(order) /\ i - 1 \notin T /\ i \in 1 .. Len(order)
  BY <1>1, <1>2, <1>3
<1>5. PICK before : before = Turns(u, order)[i - 1]
  OBVIOUS
<1>6. Sane(before, k) /\ order[i] \in Window
  BY <1>4, <1>5
<1>7. Sane(Turn(before, order[i]), k)
  BY <1>6, DriveSane DEF Turn
<1> QED BY <1>2, <1>4, <1>5, <1>7, TurnsDef

\* A wakeup's turns are those of windows, finitely many.
LEMMA OrdersAreSequences ==
    ASSUME NEW order \in SetToSeqs(Window)
    PROVE  order \in Seq(Window)
<1>1. Cardinality(Window) \in Nat
  BY WindowAssumption, FS_CardinalityType
<1> QED BY <1>1 DEF SetToSeqs

LEMMA WakeInv ==
    ASSUME DraftInv, Wake
    PROVE  DraftInv'
<1>1. disk' = disk /\ ghost' = ghost /\ spent' = spent
  BY DEF Wake
<1>2. PICK n : n = [ui EXCEPT !.wake = FALSE]
  OBVIOUS
<1>3. PICK order \in SetToSeqs(Window) : ui' = Turns(n, order)[Len(order)]
  BY <1>2 DEF Wake
<1>4. Sane(ui, disk) /\ GhostType /\ SpentType
  BY Parts
<1>5. /\ n \in Process /\ n.win = ui.win /\ n.tab = ui.tab /\ n.home = ui.home
      /\ n.lane = ui.lane /\ n.sweeper = ui.sweeper
  BY <1>2, <1>4 DEF Sane, Process
<1>6. Sane(n, disk)
  BY <1>4, <1>5, QuietFields
<1>7. order \in Seq(Window)
  BY <1>3, OrdersAreSequences
<1>8. Len(order) \in 0 .. Len(order)
  BY <1>7
<1>9. Sane(Turns(n, order)[Len(order)], disk)
  BY <1>6, <1>7, <1>8, TurnsSane
<1> QED BY <1>1, <1>3, <1>4, <1>9, GhostStays, SpentStays, OnlyTurn

-----------------------------------------------------------------------------
(* The user and the world.                                                  *)

LEMMA OpenEditor ==
    ASSUME DraftInv, NEW d \in Doc, Open(ui, d)
    PROVE  /\ Sane(ui, disk) /\ ui \in Process /\ disk \in Disk
           /\ ui.home[d] \in Window /\ ui.win[ui.home[d]].running /\ ui.tab[d] \in Text
<1>1. Sane(ui, disk)
  BY Parts
<1> QED BY <1>1 DEF Sane, OnlyRunning, Open, Process

\* The editor of d holds another text, and other editors are dirty.
Holding(u, d, text, dirty) == [u EXCEPT !.tab[d] = text, !.dirty = dirty]

\* An editor a running window shows gets a text, or is closed.
LEMMA TextSane ==
    ASSUME NEW u, NEW k, Sane(u, k), NEW d \in Doc, NEW text \in {Closed} \cup Text,
           text # Closed => u.tab[d] # Closed, NEW dirty \in SUBSET Doc
    PROVE  Sane(Holding(u, d, text, dirty), k) /\ Holding(u, d, text, dirty).win = u.win
<1>1. PICK n : n = Holding(u, d, text, dirty)
  OBVIOUS
<1>2. /\ n \in Process /\ n.win = u.win /\ n.home = u.home /\ n.lane = u.lane
      /\ n.sweeper = u.sweeper /\ n.tab[d] = text
      /\ \A e \in Doc : e # d => n.tab[e] = u.tab[e]
  BY <1>1 DEF Sane, Process, Holding
<1>3. ShownIn(u, n)
  BY <1>2 DEF Sane, OnlyRunning, ShownIn
<1>4. Sane(n, k)
  BY <1>2, <1>3, EditorsSane
<1> QED BY <1>1, <1>2, <1>4

LEMMA EditInv ==
    ASSUME DraftInv, NEW d \in Doc, Edit(d)
    PROVE  DraftInv'
<1>1. disk' = disk /\ ghost' = ghost /\ Open(ui, d) /\ spent.edits < bounds.edits
  BY DEF Edit
<1>2. PICK w : w = ui.home[d]
  OBVIOUS
<1>3. /\ Sane(ui, disk) /\ ui \in Process /\ w \in Window /\ ui.win[w].running
      /\ ui.tab[d] \in Text
  BY <1>1, <1>2, OpenEditor
<1>4. GhostType /\ SpentType
  BY Parts
<1>5. PICK b \in BOOLEAN : b <=> ui.win[w].pending
            \/ (IF d \notin ui.dirty THEN Busy(ui, w) ELSE Mutating(ui, w))
  OBVIOUS
<1>6. spent' = [spent EXCEPT !.edits = spent.edits + 1]
  BY DEF Edit
<1>7. SpentType'
  BY <1>4, <1>6 DEF SpentType
<1>8. spent.edits + 1 \in Work
  <2>1. spent.edits \in Nat /\ bounds.edits \in Nat
    BY <1>4, BoundsFacts DEF SpentType
  <2> QED BY <1>1, <1>4, <2>1, BoundsFacts
<1>9. PICK text : text = ui.tab[d] \cup {spent.edits + 1}
  OBVIOUS
<1>10. text \in Text
  BY <1>3, <1>8, <1>9 DEF Text
<1>11. PICK dirty : dirty = ui.dirty \cup {d}
  OBVIOUS
<1>12. text \in {Closed} \cup Text /\ dirty \in SUBSET Doc /\ ui.tab[d] # Closed
  BY <1>1, <1>3, <1>10, <1>11 DEF Process, Open
<1>13. PICK n : n = Holding(ui, d, text, dirty)
  OBVIOUS
<1>14. Sane(n, disk) /\ n.win[w] = ui.win[w]
  <2>1. Sane(Holding(ui, d, text, dirty), disk) /\ Holding(ui, d, text, dirty).win = ui.win
    BY <1>3, <1>12, TextSane
  <2> QED BY <1>3, <1>13, <2>1
<1>15. b \in BOOLEAN /\ n.win[w].running
  BY <1>3, <1>5, <1>14
<1>16. Sane(With(n, w, Remembers(n.win[w], b)), disk)
  BY <1>3, <1>14, <1>15, PendingSane
<1>17. ui' = With(n, w, Remembers(n.win[w], b))
  <2>1. ui' = [ui EXCEPT !.tab[d] = text, !.dirty = dirty,
                         !.win[w].pending = ui.win[w].pending
                             \/ (IF d \notin ui.dirty THEN Busy(ui, w) ELSE Mutating(ui, w))]
    BY <1>2, <1>9, <1>11 DEF Edit
  <2>2. (ui.win[w].pending \/ (IF d \notin ui.dirty THEN Busy(ui, w) ELSE Mutating(ui, w))) = b
    BY <1>5
  <2>3. ui' = [ui EXCEPT !.tab[d] = text, !.dirty = dirty, !.win[w].pending = b]
    BY <2>1, <2>2
  <2>4. [ui EXCEPT !.tab[d] = text, !.dirty = dirty, !.win[w].pending = b]
        = [n EXCEPT !.win[w].pending = b]
    BY <1>3, <1>13 DEF Process, Holding
  <2> QED BY <2>3, <2>4 DEF With, Remembers
<1> QED BY <1>1, <1>4, <1>7, <1>16, <1>17, GhostStays, OnlyTurn

\* The disk once d's file has its next version.
Touched(k, d) == [k EXCEPT !.backing[d] = @ + 1]

LEMMA NextVersion ==
    ASSUME NEW u, NEW k, Sane(u, k), Timed(k.entry, k.backing), Described(k), NEW d \in Doc,
           NEW j, j = Touched(k, d)
    PROVE  Sane(u, j) /\ Timed(j.entry, j.backing) /\ Described(j)
<1>1. k \in Disk /\ k.backing \in [Doc -> Nat]
  BY DiskType DEF Sane
<1>2. j \in Disk /\ j.entry = k.entry /\ j.body = k.body
      /\ j.backing = [k.backing EXCEPT ![d] = @ + 1]
  BY <1>1 DEF Disk, Touched
<1>3. \A e \in Doc : k.backing[e] <= j.backing[e]
  BY <1>1, <1>2
<1>4. Sane(u, j) /\ (Timed(k.entry, k.backing) => Timed(j.entry, j.backing))
      /\ (Described(k) => Described(j))
  <2>1. j \in Disk /\ j.entry = k.entry /\ j.body = k.body
    BY <1>2
  <2> QED BY <1>3, <2>1, DiskAside
<1> QED BY <1>4

LEMMA SaveInv ==
    ASSUME DraftInv, NEW d \in Doc, Save(d)
    PROVE  DraftInv'
<1>1. Open(ui, d) /\ spent' = spent /\ disk' = Touched(disk, d)
      /\ ghost' = [ghost EXCEPT !.saved = @ \cup ui.tab[d]]
  BY DEF Save, Modified, Touched
<1>2. PICK w : w = ui.home[d]
  OBVIOUS
<1>3. /\ Sane(ui, disk) /\ ui \in Process /\ w \in Window /\ ui.win[w].running
      /\ ui.tab[d] \in Text
  BY <1>1, <1>2, OpenEditor
<1>4. GhostType /\ SpentType /\ Timed(disk.entry, disk.backing) /\ Described(disk)
  BY Parts
<1>5. PICK dirty : dirty = ui.dirty
  OBVIOUS
<1>6. {} \in {Closed} \cup Text /\ dirty \in SUBSET Doc /\ ui.tab[d] # Closed
  BY <1>1, <1>3, <1>5 DEF Text, Process, Open
<1>7. PICK n : n = Holding(ui, d, {}, dirty)
  OBVIOUS
<1>8. n = [ui EXCEPT !.tab[d] = {}]
  BY <1>3, <1>5, <1>7 DEF Process, Holding
<1>9. Sane(n, disk) /\ n.win[w] = ui.win[w]
  <2>1. Sane(Holding(ui, d, {}, dirty), disk) /\ Holding(ui, d, {}, dirty).win = ui.win
    BY <1>3, <1>6, TextSane
  <2> QED BY <1>3, <1>7, <2>1
<1>10. Sane(DeleteDraft(n, w, d), disk)
  BY <1>3, <1>9, DeleteDraftSane
<1>11. ui' = DeleteDraft(n, w, d)
  BY <1>2, <1>8 DEF Save
<1>12. Sane(ui', disk') /\ Timed(disk'.entry, disk'.backing) /\ Described(disk')
  BY <1>1, <1>4, <1>10, <1>11, NextVersion
<1>13. GhostType'
  BY <1>1, <1>3, <1>4 DEF GhostType, Text
<1> QED BY <1>1, <1>4, <1>12, <1>13, SpentStays, Whole

LEMMA DiscardInv ==
    ASSUME DraftInv, NEW d \in Doc, Discard(d)
    PROVE  DraftInv'
<1>1. Open(ui, d) /\ spent' = spent /\ disk' = disk
      /\ ghost' = [ghost EXCEPT !.discarded = @ \cup ui.tab[d]]
  BY DEF Discard, Modified
<1>2. PICK w : w = ui.home[d]
  OBVIOUS
<1>3. /\ Sane(ui, disk) /\ ui \in Process /\ w \in Window /\ ui.win[w].running
      /\ ui.tab[d] \in Text
  BY <1>1, <1>2, OpenEditor
<1>4. GhostType /\ SpentType
  BY Parts
<1>5. PICK m : m = DeleteDraft(ui, w, d)
  OBVIOUS
<1>6. Sane(m, disk) /\ m.tab = ui.tab /\ m \in Process
  BY <1>3, <1>5, DeleteDraftSane DEF Keeps, Sane
<1>7. PICK dirty : dirty = m.dirty
  OBVIOUS
<1>8. {} \in {Closed} \cup Text /\ dirty \in SUBSET Doc /\ m.tab[d] # Closed
  BY <1>1, <1>6, <1>7 DEF Text, Process, Open
<1>9. PICK n : n = Holding(m, d, {}, dirty)
  OBVIOUS
<1>10. n = [m EXCEPT !.tab[d] = {}]
  BY <1>6, <1>7, <1>9 DEF Process, Holding
<1>11. Sane(n, disk)
  BY <1>6, <1>8, <1>9, TextSane
<1>12. ui' = n
  BY <1>2, <1>5, <1>10 DEF Discard
<1>13. GhostType'
  BY <1>1, <1>3, <1>4 DEF GhostType, Text
<1> QED BY <1>1, <1>4, <1>11, <1>12, <1>13, SpentStays, OnlyTurn

LEMMA CloseTabInv ==
    ASSUME DraftInv, NEW d \in Doc, CloseTab(d)
    PROVE  DraftInv'
<1>1. Open(ui, d) /\ spent' = spent /\ disk' = disk
      /\ ghost' = [ghost EXCEPT !.discarded = @ \cup ui.tab[d]]
  BY DEF CloseTab
<1>2. PICK w : w = ui.home[d]
  OBVIOUS
<1>3. /\ Sane(ui, disk) /\ ui \in Process /\ w \in Window /\ ui.win[w].running
      /\ ui.tab[d] \in Text
  BY <1>1, <1>2, OpenEditor
<1>4. GhostType /\ SpentType
  BY Parts
<1>5. PICK m : m = IF Modified(ui, d) THEN DeleteDraft(ui, w, d) ELSE ui
  OBVIOUS
<1>6. Sane(m, disk) /\ m \in Process
  BY <1>3, <1>5, DeleteDraftSane DEF Sane
<1>7. PICK dirty : dirty = m.dirty \ {d}
  OBVIOUS
<1>8. Closed \in {Closed} \cup Text /\ dirty \in SUBSET Doc
  BY <1>6, <1>7 DEF Process
<1>9. PICK n : n = Holding(m, d, Closed, dirty)
  OBVIOUS
<1>10. Sane(n, disk)
  BY <1>6, <1>8, <1>9, TextSane
<1>11. ui' = n
  BY <1>2, <1>5, <1>7, <1>9 DEF CloseTab, Holding
<1>12. GhostType'
  BY <1>1, <1>3, <1>4 DEF GhostType, Text
<1> QED BY <1>1, <1>4, <1>10, <1>11, <1>12, SpentStays, OnlyTurn

LEMMA OpenFileInv ==
    ASSUME DraftInv, NEW w \in Window, NEW d \in Doc, OpenFile(w, d)
    PROVE  DraftInv'
<1>1. ui.win[w].running /\ ui' = Show(ui, w, d) /\ disk' = disk /\ ghost' = ghost
      /\ spent' = spent
  BY DEF OpenFile, Running
<1>2. Sane(ui, disk) /\ GhostType /\ SpentType
  BY Parts
<1>3. ui \in Process
  BY <1>2 DEF Sane
<1>4. PICK shown : shown = [ui EXCEPT !.tab[d] = {}, !.home[d] = w, !.dirty = @ \ {d}]
  OBVIOUS
<1>5. {} \in Text
  BY DEF Text
<1>6. /\ shown \in Process /\ shown.win = ui.win /\ shown.lane = ui.lane
      /\ shown.sweeper = ui.sweeper /\ shown.home[d] = w
      /\ \A e \in Doc : e # d => shown.tab[e] = ui.tab[e] /\ shown.home[e] = ui.home[e]
  BY <1>3, <1>4, <1>5 DEF Process
<1>7. ShownIn(ui, shown)
  BY <1>1, <1>2, <1>6 DEF Sane, OnlyRunning, ShownIn
<1>8. Sane(shown, disk)
  BY <1>2, <1>6, <1>7, EditorsSane
<1>9. PICK claimed : claimed = IF d \in FileBacked /\ ~OwnedElsewhere(ui, w, d)
                               THEN [shown EXCEPT !.claim[d] = w] ELSE shown
  OBVIOUS
<1>10. Sane(claimed, disk) /\ claimed.win = ui.win
  <2>1. PICK taken : taken = [shown EXCEPT !.claim[d] = w]
    OBVIOUS
  <2>2. /\ taken \in Process /\ taken.win = shown.win /\ taken.tab = shown.tab
        /\ taken.home = shown.home /\ taken.lane = shown.lane /\ taken.sweeper = shown.sweeper
    BY <1>6, <2>1 DEF Process
  <2>3. Sane(taken, disk)
    BY <1>8, <2>2, QuietFields
  <2> QED BY <1>6, <1>8, <1>9, <2>1, <2>2, <2>3
<1>11. PICK queued : queued = [stage |-> "Queued", entry |-> ui.win[w].known[d], found |-> NoBody]
  OBVIOUS
<1>12. queued \in Restore /\ queued.stage = "Queued"
  BY <1>3, <1>11, WindowType DEF Restore, Manifest
<1>13. Sane(RestoreAs(claimed, w, d, queued), disk)
  BY <1>1, <1>10, <1>12, RestoreAsSane
<1>14. Show(ui, w, d) \in {claimed, RestoreAs(claimed, w, d, queued)}
  BY <1>4, <1>9, <1>11 DEF Show, RestoreAs
<1>15. Sane(ui', disk)
  BY <1>1, <1>10, <1>13, <1>14
<1> QED BY <1>1, <1>2, <1>15, GhostStays, SpentStays, OnlyTurn

LEMMA NewTabInv ==
    ASSUME DraftInv, NEW w \in Window, NEW d \in Doc, NewTab(w, d)
    PROVE  DraftInv'
<1>1. ui.win[w].running /\ ui' = [ui EXCEPT !.tab[d] = {}, !.home[d] = w] /\ disk' = disk
      /\ ghost' = ghost /\ spent' = spent
  BY DEF NewTab, Running
<1>2. Sane(ui, disk) /\ GhostType /\ SpentType
  BY Parts
<1>3. {} \in Text /\ ui \in Process
  BY <1>2 DEF Text, Sane
<1>4. /\ ui' \in Process /\ ui'.win = ui.win /\ ui'.lane = ui.lane
      /\ ui'.sweeper = ui.sweeper /\ ui'.home[d] = w
      /\ \A e \in Doc : e # d => ui'.tab[e] = ui.tab[e] /\ ui'.home[e] = ui.home[e]
  BY <1>1, <1>3 DEF Process
<1>5. ShownIn(ui, ui')
  BY <1>1, <1>2, <1>4 DEF Sane, OnlyRunning, ShownIn
<1>6. Sane(ui', disk)
  BY <1>2, <1>4, <1>5, EditorsSane
<1> QED BY <1>1, <1>2, <1>6, GhostStays, SpentStays, OnlyTurn

LEMMA MoveTabInv ==
    ASSUME DraftInv, NEW w \in Window, NEW d \in Doc, MoveTab(d, w)
    PROVE  DraftInv'
<1>1. ui.win[w].running /\ ui' = [ui EXCEPT !.home[d] = w] /\ disk' = disk
      /\ ghost' = ghost /\ spent' = [spent EXCEPT !.moves = @ + 1]
  BY DEF MoveTab, Running
<1>2. Sane(ui, disk) /\ GhostType /\ SpentType
  BY Parts
<1>3. ui \in Process
  BY <1>2 DEF Sane
<1>4. /\ ui' \in Process /\ ui'.win = ui.win /\ ui'.lane = ui.lane /\ ui'.tab = ui.tab
      /\ ui'.sweeper = ui.sweeper /\ ui'.home[d] = w
      /\ \A e \in Doc : e # d => ui'.home[e] = ui.home[e]
  BY <1>1, <1>3 DEF Process
<1>5. ShownIn(ui, ui')
  BY <1>1, <1>2, <1>4 DEF Sane, OnlyRunning, ShownIn
<1>6. Sane(ui', disk)
  BY <1>2, <1>4, <1>5, EditorsSane
<1>7. SpentType'
  BY <1>1, <1>2 DEF SpentType
<1> QED BY <1>1, <1>2, <1>6, <1>7, GhostStays, OnlyTurn

LEMMA ExternalChangeInv ==
    ASSUME DraftInv, NEW d \in Doc, ExternalChange(d)
    PROVE  DraftInv'
<1>1. disk' = Touched(disk, d) /\ ui' = ui /\ ghost' = ghost /\ spent' = spent
  BY DEF ExternalChange, Touched
<1>2. Sane(ui, disk) /\ GhostType /\ SpentType /\ Timed(disk.entry, disk.backing)
      /\ Described(disk)
  BY Parts
<1>3. Sane(ui, disk') /\ Timed(disk'.entry, disk'.backing) /\ Described(disk')
  BY <1>1, <1>2, NextVersion
<1> QED BY <1>1, <1>2, <1>3, GhostStays, SpentStays, Whole

-----------------------------------------------------------------------------
(* Launch, further windows, crash.                                          *)

LEMMA NoProcessSane ==
    ASSUME NEW k \in Disk
    PROVE  Sane(NoProcess, k)
<1>1. NoProcess \in Process
  BY IdleTypes
<1>2. /\ \A d \in Doc : NoProcess.tab[d] = Closed
      /\ \A w \in Window : NoProcess.win[w] = ShutWindow
      /\ NoProcess.lane = Nobody /\ NoProcess.sweeper = Nobody
  BY DEF NoProcess
<1>3. /\ ~ShutWindow.running /\ ShutWindow.job = IdleJob
      /\ \A d \in Doc : ShutWindow.restore[d].stage = "None"
  BY DEF ShutWindow, NoRestore
<1>4. /\ IdleJob.kind = "None" /\ JobPlaced(IdleJob) /\ Timed(IdleJob.done, k.backing)
      /\ JobGrounded(IdleJob, k)
  BY SentinelAssumption DEF IdleJob, JobPlaced, StepsOf, Timed, NoManifest, JobGrounded
<1>5. OnlyRunning(NoProcess)
  BY <1>2, <1>3, <1>4 DEF OnlyRunning
<1>6. Orderly(NoProcess, k)
  BY <1>2, <1>3, <1>4, SentinelAssumption DEF Orderly
<1>7. ViewsFollow(NoProcess, k)
  BY <1>2, <1>3 DEF ViewsFollow, ViewsTrue
<1> QED BY <1>1, <1>2, <1>3, <1>4, <1>5, <1>6, <1>7 DEF Sane

\* A window that knows a manifest and queues restores of the session's drafts.
Opened(known, trusted, restore) ==
    [ShutWindow EXCEPT !.running = TRUE, !.known = known, !.trusted = trusted,
                       !.restore = restore]

LEMMA OpenedType ==
    ASSUME NEW known \in Manifest, NEW trusted \in BOOLEAN, NEW restore \in [Doc -> Restore]
    PROVE  /\ Opened(known, trusted, restore) \in WindowState
           /\ Opened(known, trusted, restore).running
           /\ Opened(known, trusted, restore).known = known
           /\ Opened(known, trusted, restore).trusted = trusted
           /\ Opened(known, trusted, restore).restore = restore
           /\ Opened(known, trusted, restore).job = IdleJob
BY IdleTypes DEF Opened, WindowState, ShutWindow

\* A process of one window, whose trusted view is what the manifest says.
LEMMA FirstWindowSane ==
    ASSUME NEW k \in Disk, NEW w \in Window, NEW known \in Manifest, NEW trusted \in BOOLEAN,
           trusted => known = k.entry,
           NEW restore \in [Doc -> Restore],
           \A d \in Doc : restore[d].stage # "Installing",
           NEW n \in Process,
           n.win = [v \in Window |-> IF v = w THEN Opened(known, trusted, restore)
                                     ELSE ShutWindow],
           \A d \in Doc : n.tab[d] # Closed => n.home[d] = w,
           n.lane = Nobody, n.sweeper = w
    PROVE  Sane(n, k)
<1>1. PICK x : x = Opened(known, trusted, restore)
  OBVIOUS
<1>2. /\ x.running /\ x.known = known /\ x.trusted = trusted /\ x.restore = restore
      /\ x.job = IdleJob
  BY <1>1, OpenedType
<1>3. n.win[w] = x /\ \A v \in Window : v # w => n.win[v] = ShutWindow
  BY <1>1
<1>4. /\ ~ShutWindow.running /\ ShutWindow.job = IdleJob
      /\ \A d \in Doc : ShutWindow.restore[d].stage = "None"
  BY DEF ShutWindow, NoRestore
<1>5. /\ IdleJob.kind = "None" /\ JobPlaced(IdleJob) /\ Timed(IdleJob.done, k.backing)
      /\ JobGrounded(IdleJob, k)
  BY SentinelAssumption DEF IdleJob, JobPlaced, StepsOf, Timed, NoManifest, JobGrounded
<1>6. \A v \in Window : n.win[v].job = IdleJob
  BY <1>2, <1>3, <1>4
<1>7. OnlyRunning(n)
  <2>1. \A d \in Doc : n.tab[d] # Closed => n.home[d] \in Window /\ n.win[n.home[d]].running
    BY <1>2, <1>3
  <2>2. \A v \in Window : ~n.win[v].running =>
            n.win[v].job.kind = "None" /\ \A d \in Doc : n.win[v].restore[d].stage = "None"
    BY <1>2, <1>3, <1>4, <1>5
  <2>3. n.sweeper # Nobody /\ n.win[n.sweeper].running
    BY <1>2, <1>3, SentinelAssumption
  <2> QED BY <2>1, <2>2, <2>3 DEF OnlyRunning
<1>8. Orderly(n, k)
  <2>1. \A v \in Window, d \in Doc : n.win[v].restore[d].stage # "Installing"
    BY <1>2, <1>3, <1>4
  <2> QED BY <1>5, <1>6, <2>1, SentinelAssumption DEF Orderly
<1>9. ViewsFollow(n, k)
  BY <1>2, <1>3, <1>4 DEF ViewsFollow, ViewsTrue
<1> QED BY <1>5, <1>6, <1>7, <1>8, <1>9 DEF Sane

\* A launch describes every file's body.
LEMMA LaunchReconciles ==
    ASSUME disk \in Disk, Timed(disk.entry, disk.backing), NEW session,
           NEW full, full = Reconciled(disk.entry, {}, session)
    PROVE  /\ full \in Disk /\ full.backing = disk.backing /\ Timed(full.entry, full.backing)
           /\ \A d \in FileBacked : full.body[d] # NoBody => full.entry[d] # NoEntry
<1>1. PICK none \in SUBSET Doc : none = {}
  OBVIOUS
<1>2. PICK m \in Manifest : m = disk.entry
  BY DiskType
<1>3. full = Reconciled(m, none, session)
  BY <1>1, <1>2
<1>4. m \in Manifest /\ Timed(m, disk.backing) /\ none \in SUBSET Doc
  BY <1>1, <1>2
<1>5. /\ full \in Disk /\ full.backing = disk.backing /\ Timed(full.entry, full.backing)
      /\ \A d \in Doc : /\ m[d] # NoEntry => full.entry[d] = m[d]
                        /\ full.body[d] \in {NoBody, disk.body[d]}
      /\ \A d \in FileBacked \ none : full.body[d] # NoBody => full.entry[d] # NoEntry
  BY <1>3, <1>4, ReconciledFacts
<1> QED BY <1>1, <1>5

LEMMA LaunchInv ==
    ASSUME DraftInv, NEW w \in Window, NEW session \in SUBSET bounds.docs, Launch(w, session)
    PROVE  DraftInv'
<1>1. ghost' = ghost
  BY DEF Launch
<1>2. Sane(ui, disk) /\ GhostType /\ SpentType /\ Timed(disk.entry, disk.backing)
      /\ Described(disk)
  BY Parts
<1>3. disk \in Disk /\ session \in SUBSET Doc
  BY <1>2, BoundsFacts DEF Sane
<1>4. PICK full : full = Reconciled(disk.entry, {}, session)
  OBVIOUS
<1>5. /\ full \in Disk /\ full.backing = disk.backing /\ Timed(full.entry, full.backing)
      /\ \A d \in FileBacked : full.body[d] # NoBody => full.entry[d] # NoEntry
  BY <1>2, <1>3, <1>4, LaunchReconciles
<1>6. PICK stale : stale = {d \in session : StaleAtLaunch(d, full.entry)}
  OBVIOUS
<1>7. PICK kept : kept = full.kept \cup
          UNION {full.body[d] : d \in stale \ {d \in stale : full.body[d] = NoBody}}
  OBVIOUS
<1>8. PICK bodies : bodies = [d \in Doc |-> IF d \in stale THEN NoBody ELSE full.body[d]]
  OBVIOUS
<1>9. PICK entries : entries = [d \in Doc |-> IF d \in stale THEN NoEntry ELSE full.entry[d]]
  OBVIOUS
<1>10. PICK retire : retire = [full EXCEPT !.kept = kept, !.body = bodies, !.entry = entries]
  OBVIOUS
<1>11. stale \subseteq Doc
  BY <1>3, <1>6
<1>12. kept \in Text
  <2>1. \A d \in stale \ {d \in stale : full.body[d] = NoBody} : full.body[d] \in Text
    BY <1>5, <1>11, DiskType
  <2> QED BY <1>5, <1>7, <2>1, DiskType DEF Text
<1>13. bodies \in [Doc -> {NoBody} \cup Text] /\ entries \in Manifest
  BY <1>5, <1>8, <1>9, DiskType DEF Manifest
<1>14. /\ retire \in Disk /\ retire.entry = entries /\ retire.body = bodies
       /\ retire.backing = full.backing
  BY <1>5, <1>10, <1>12, <1>13 DEF Disk
<1>15. Timed(retire.entry, retire.backing) /\ Described(retire)
  BY <1>5, <1>8, <1>9, <1>14 DEF Timed, Described, FileBacked
<1> DEFINE queued(known) == [d \in Doc |->
               IF d \in session /\ known[d] # NoEntry
               THEN [stage |-> "Queued", entry |-> known[d], found |-> NoBody] ELSE NoRestore]
           process(known, trusted) ==
               [NoProcess EXCEPT
                   !.tab = [d \in Doc |-> IF d \in session THEN {} ELSE Closed],
                   !.home = [d \in Doc |-> IF d \in session THEN w ELSE Nobody],
                   !.claim = [d \in Doc |-> IF d \in session \cap FileBacked THEN w ELSE Nobody],
                   !.win[w] = Opened(known, trusted, queued(known)),
                   !.sweeper = w, !.armed = trusted]
<1>16. ASSUME NEW known \in Manifest, NEW trusted \in BOOLEAN, NEW k \in Disk,
              trusted => known = k.entry
       PROVE  Sane(process(known, trusted), k)
  <2>1. PICK restore : restore = queued(known)
    OBVIOUS
  <2>2. ASSUME NEW d \in Doc
        PROVE  restore[d] \in Restore /\ restore[d].stage # "Installing"
    <3>1. PICK r : r = [stage |-> "Queued", entry |-> known[d], found |-> NoBody]
      OBVIOUS
    <3>2. r \in Restore /\ r.stage = "Queued"
      BY <3>1 DEF Restore, Manifest
    <3>3. NoRestore \in Restore /\ NoRestore.stage = "None"
      BY IdleTypes DEF NoRestore
    <3>4. restore[d] \in {r, NoRestore}
      BY <2>1, <3>1
    <3> QED BY <3>2, <3>3, <3>4
  <2>3. restore \in [Doc -> Restore] /\ \A d \in Doc : restore[d].stage # "Installing"
    <3>1. restore = [d \in Doc |-> restore[d]]
      BY <2>1
    <3> QED BY <2>2, <3>1
  <2>4. PICK x : x = Opened(known, trusted, restore)
    OBVIOUS
  <2>5. x \in WindowState
    BY <2>3, <2>4, OpenedType
  <2>6. PICK tab : tab = [d \in Doc |-> IF d \in session THEN {} ELSE Closed]
    OBVIOUS
  <2>7. PICK home : home = [d \in Doc |-> IF d \in session THEN w ELSE Nobody]
    OBVIOUS
  <2>8. PICK claim : claim = [d \in Doc |-> IF d \in session \cap FileBacked THEN w ELSE Nobody]
    OBVIOUS
  <2>9. /\ tab \in [Doc -> {Closed} \cup Text] /\ home \in [Doc -> {Nobody} \cup Window]
        /\ claim \in [Doc -> {Nobody} \cup Window]
        /\ \A d \in Doc : tab[d] # Closed => home[d] = w
    BY <2>6, <2>7, <2>8 DEF Text
  <2>10. PICK win : win = [v \in Window |-> IF v = w THEN x ELSE ShutWindow]
    OBVIOUS
  <2>11. win \in [Window -> WindowState]
    BY <2>5, <2>10, IdleTypes
  <2>12. PICK n : n = process(known, trusted)
    OBVIOUS
  <2>13. n = [NoProcess EXCEPT !.tab = tab, !.home = home, !.claim = claim, !.win = win,
                               !.sweeper = w, !.armed = trusted]
    <3>1. n = [NoProcess EXCEPT !.tab = tab, !.home = home, !.claim = claim, !.win[w] = x,
                               !.sweeper = w, !.armed = trusted]
      BY <2>1, <2>4, <2>6, <2>7, <2>8, <2>12
    <3>2. win = [NoProcess.win EXCEPT ![w] = x]
      BY <2>10 DEF NoProcess
    <3> QED BY <3>1, <3>2
  <2>14. /\ n \in Process /\ n.tab = tab /\ n.home = home /\ n.win = win /\ n.lane = Nobody
         /\ n.sweeper = w
    <3>1. NoProcess \in Process /\ NoProcess.lane = Nobody
      BY IdleTypes DEF NoProcess
    <3> QED BY <2>9, <2>11, <2>13, <3>1 DEF Process
  <2>15. n.win = [v \in Window |-> IF v = w THEN Opened(known, trusted, restore)
                                   ELSE ShutWindow]
    BY <2>4, <2>10, <2>14
  <2>16. \A d \in Doc : n.tab[d] # Closed => n.home[d] = w
    BY <2>9, <2>14
  <2>17. Sane(n, k)
    BY <1>16, <2>3, <2>14, <2>15, <2>16, FirstWindowSane
  <2> QED BY <2>12, <2>17
<1> HIDE DEF queued
<1>17. \/ disk' = retire /\ ui' = process(retire.entry, TRUE) /\ spent' = spent
       \/ Fails("manifest") /\ disk' = disk /\ ui' = process(disk.entry, FALSE)
  BY <1>4, <1>6, <1>7, <1>8, <1>9, <1>10 DEF Launch, Opened, queued
<1> HIDE DEF process
<1>18. CASE disk' = retire /\ ui' = process(retire.entry, TRUE) /\ spent' = spent
  <2>1. Sane(process(retire.entry, TRUE), retire)
    BY <1>13, <1>14, <1>16
  <2> QED BY <1>1, <1>2, <1>15, <1>18, <2>1, GhostStays, SpentStays, Whole
<1>19. CASE Fails("manifest") /\ disk' = disk /\ ui' = process(disk.entry, FALSE)
  <2>1. Sane(process(disk.entry, FALSE), disk)
    BY <1>3, <1>16, DiskType
  <2> QED BY <1>1, <1>2, <1>19, <2>1, GhostStays, FailsSpends, OnlyTurn
<1> QED BY <1>17, <1>18, <1>19

LEMMA OpenWindowInv ==
    ASSUME DraftInv, NEW w \in Window, OpenWindow(w)
    PROVE  DraftInv'
<1>1. disk' = disk /\ ghost' = ghost /\ spent' = spent /\ ~ui.win[w].running
  BY DEF OpenWindow, Running
<1>2. Sane(ui, disk) /\ GhostType /\ SpentType
  BY Parts
<1>3. PICK from \in Window :
          /\ ui.win[from].running
          /\ ui' = [ui EXCEPT !.win[w] = [ShutWindow EXCEPT !.running = TRUE,
                        !.known = ui.win[from].known, !.trusted = ui.win[from].trusted]]
  BY DEF OpenWindow, Running
<1>4. ui \in Process /\ ui.win[from] \in WindowState
  BY <1>2, WindowType DEF Sane
<1>5. PICK x : x = [ShutWindow EXCEPT !.running = TRUE,
                        !.known = ui.win[from].known, !.trusted = ui.win[from].trusted]
  OBVIOUS
<1>6. /\ x \in WindowState /\ x.running /\ x.known = ui.win[from].known
      /\ x.trusted = ui.win[from].trusted /\ x.job = IdleJob
      /\ \A d \in Doc : x.restore[d].stage = "None"
  <2>1. x \in WindowState
    BY <1>4, <1>5, IdleTypes DEF WindowState
  <2> QED BY <1>5, <2>1 DEF ShutWindow, NoRestore
<1>7. PICK n : n = With(ui, w, x)
  OBVIOUS
<1>8. /\ n \in Process /\ n.win[w] = x /\ \A v \in Window : v # w => n.win[v] = ui.win[v]
      /\ n.tab = ui.tab /\ n.home = ui.home /\ n.lane = ui.lane /\ n.sweeper = ui.sweeper
  <2>1. /\ With(ui, w, x) \in Process /\ With(ui, w, x).win[w] = x
        /\ \A v \in Window : v # w => With(ui, w, x).win[v] = ui.win[v]
        /\ With(ui, w, x).tab = ui.tab /\ With(ui, w, x).home = ui.home
        /\ With(ui, w, x).lane = ui.lane /\ With(ui, w, x).sweeper = ui.sweeper
    BY <1>4, <1>6, PutWindow
  <2> QED BY <1>7, <2>1
<1>9. ui' = n
  BY <1>3, <1>5, <1>7 DEF With
<1>10. /\ IdleJob.kind = "None" /\ IdleJob.step = "None" /\ JobPlaced(IdleJob)
       /\ Timed(IdleJob.done, disk.backing) /\ JobGrounded(IdleJob, disk)
  BY SentinelAssumption DEF IdleJob, JobPlaced, StepsOf, Timed, NoManifest, JobGrounded
<1>11. ui.win[w].job.kind = "None" /\ ui.win[w].job.step = "None"
  BY <1>1, <1>2 DEF Sane, OnlyRunning, Orderly, JobPlaced, StepsOf
<1>12. OnlyRunning(n)
  <2>1. \A d \in Doc : n.tab[d] # Closed => n.home[d] \in Window /\ n.win[n.home[d]].running
    BY <1>2, <1>6, <1>8 DEF Sane, OnlyRunning
  <2>2. \A v \in Window : ~n.win[v].running =>
            n.win[v].job.kind = "None" /\ \A d \in Doc : n.win[v].restore[d].stage = "None"
    BY <1>2, <1>6, <1>8 DEF Sane, OnlyRunning
  <2>3. n.sweeper \in Window /\ n.win[n.sweeper].running
    BY <1>2, <1>3, <1>4, <1>6, <1>8 DEF Sane, OnlyRunning, Process
  <2> QED BY <2>1, <2>2, <2>3, SentinelAssumption DEF OnlyRunning
<1>13. Orderly(n, disk)
  BY <1>2, <1>6, <1>8, <1>10, <1>11 DEF Sane, Orderly
<1>14. ASSUME NEW m, ViewsTrue(ui, m)
       PROVE  ViewsTrue(n, m)
  BY <1>3, <1>6, <1>8, <1>14 DEF ViewsTrue
<1>15. ViewsFollow(n, disk)
  <2>1. CASE ViewsTrue(ui, disk.entry)
    BY <1>14, <2>1 DEF ViewsFollow
  <2>2. ASSUME NEW v \in Window, Untold(ui.win[v].job)
        PROVE  ViewsFollow(n, disk)
    BY <1>8, <1>11, <2>2 DEF Untold, ViewsFollow
  <2>3. ASSUME NEW v \in Window, SweepUntold(ui, disk, v)
        PROVE  ViewsFollow(n, disk)
    <3>1. v # w /\ n.win[v] = ui.win[v]
      BY <1>8, <1>11, <2>3 DEF SweepUntold
    <3> QED BY <1>14, <2>3, <3>1 DEF SweepUntold, ViewsFollow
  <2> QED BY <1>2, <2>1, <2>2, <2>3 DEF Sane, ViewsFollow
<1>16. \A v \in Window : JobGrounded(n.win[v].job, disk)
  BY <1>2, <1>6, <1>8, <1>10 DEF Sane
<1>17. Sane(n, disk)
  BY <1>2, <1>8, <1>12, <1>13, <1>15, <1>16 DEF Sane
<1> QED BY <1>1, <1>2, <1>9, <1>17, GhostStays, SpentStays, OnlyTurn

LEMMA CrashInv ==
    ASSUME DraftInv, Crash
    PROVE  DraftInv'
<1>1. /\ ui' = NoProcess /\ disk' = disk /\ ghost' = ghost
      /\ spent' = [spent EXCEPT !.crashes = @ + 1]
  BY DEF Crash
<1>2. Sane(ui, disk) /\ GhostType /\ SpentType
  BY Parts
<1>3. Sane(NoProcess, disk)
  BY <1>2, NoProcessSane DEF Sane
<1>4. SpentType'
  BY <1>1, <1>2 DEF SpentType
<1> QED BY <1>1, <1>2, <1>3, <1>4, GhostStays, OnlyTurn

-----------------------------------------------------------------------------
(* The invariant.                                                           *)

\* The program starts with no process, over drafts that the manifest describes.
LEMMA InitInv == Init => DraftInv
<1> SUFFICES ASSUME Init
             PROVE  DraftInv
  OBVIOUS
<1>1. SpentType
  BY DEF Init, SpentType
<1>2. bounds.prior \in SUBSET Doc
  BY <1>1, BoundsFacts
<1>3. PICK prior \in SUBSET Doc : prior = bounds.prior
  BY <1>2
<1>4. PICK entries : entries = [d \in Doc |-> IF d \in prior THEN [mtime |-> 0, text |-> {d}]
                                              ELSE NoEntry]
  OBVIOUS
<1>5. PICK bodies : bodies = [d \in Doc |-> IF d \in prior THEN {d} ELSE NoBody]
  OBVIOUS
<1>6. disk = [entry |-> entries, body |-> bodies, backing |-> [d \in Doc |-> 0], kept |-> {}]
  BY <1>3, <1>4, <1>5 DEF Init
<1>7. ASSUME NEW d \in Doc
      PROVE  /\ {d} \in Text /\ entries[d] \in {NoEntry} \cup Entry
             /\ entries[d] # NoEntry => entries[d].mtime = 0
             /\ bodies[d] # NoBody => entries[d] # NoEntry
             /\ bodies[d] \in {NoBody} \cup Text
  <2>1. {d} \in Text
    BY DEF Text, Work
  <2>2. PICK e : e = [mtime |-> 0, text |-> {d}]
    OBVIOUS
  <2>3. e \in Entry /\ e # NoEntry
    BY <2>1, <2>2, EntryType
  <2>4. e.mtime = 0
    BY <2>2
  <2>5. entries[d] = IF d \in prior THEN e ELSE NoEntry
    BY <1>4, <2>2
  <2>6. bodies[d] = IF d \in prior THEN {d} ELSE NoBody
    BY <1>5
  <2> QED BY <2>1, <2>3, <2>4, <2>5, <2>6
<1>8. entries \in Manifest /\ bodies \in [Doc -> {NoBody} \cup Text]
  <2>1. entries = [d \in Doc |-> entries[d]] /\ bodies = [d \in Doc |-> bodies[d]]
    BY <1>4, <1>5
  <2> QED BY <1>7, <2>1 DEF Manifest
<1>9. disk \in Disk
  BY <1>6, <1>8 DEF Disk, Text
<1>10. Timed(disk.entry, disk.backing) /\ Described(disk)
  <2>1. 0 \in 0 .. 0
    OBVIOUS
  <2> QED BY <1>6, <1>7, <2>1 DEF Timed, Described, FileBacked
<1>11. Sane(ui, disk)
  BY <1>9, NoProcessSane DEF Init
<1>12. GhostType
  <2>1. ghost = [accepted |-> prior, saved |-> {}, discarded |-> {}]
    BY <1>3 DEF Init
  <2>2. prior \in Text /\ {} \in Text
    BY <1>3 DEF Text, Work
  <2> QED BY <2>1, <2>2 DEF GhostType
<1> QED BY <1>1, <1>10, <1>11, <1>12 DEF DraftInv, TypeOK, Sane, GhostType, SpentType

LEMMA PassInv ==
    ASSUME DraftInv, NEW w \in Window, PassStep(w)
    PROVE  DraftInv'
<1>1. CASE Register(w)
  BY <1>1, RegisterInv
<1>2. CASE RegisterDone(w)
  BY <1>2, RegisterDoneInv
<1>3. ASSUME NEW d \in Doc, Capture(w, d)
      PROVE  DraftInv'
  BY <1>3, CaptureInv
<1>4. CASE WriteBody(w)
  BY <1>4, WriteBodyInv
<1>5. CASE EndCapture(w)
  BY <1>5, EndCaptureInv
<1>6. CASE Commit(w)
  BY <1>6, CommitInv
<1>7. CASE CommitDone(w)
  BY <1>7, CommitDoneInv
<1> QED BY <1>1, <1>2, <1>3, <1>4, <1>5, <1>6, <1>7 DEF PassStep

LEMMA UserInv ==
    ASSUME DraftInv, UserStep
    PROVE  DraftInv'
<1>1. ASSUME NEW d \in Doc, Edit(d) \/ Save(d) \/ Discard(d) \/ CloseTab(d) \/ ExternalChange(d)
      PROVE  DraftInv'
  BY <1>1, EditInv, SaveInv, DiscardInv, CloseTabInv, ExternalChangeInv
<1>2. ASSUME NEW w \in Window, NEW d \in Doc, OpenFile(w, d) \/ NewTab(w, d) \/ MoveTab(d, w)
      PROVE  DraftInv'
  BY <1>2, OpenFileInv, NewTabInv, MoveTabInv
<1> QED BY <1>1, <1>2 DEF UserStep

\* Every step of the windows, of the workers, of the user and of the world keeps
\* the invariant.
LEMMA NextInv == DraftInv /\ [Next]_vars => DraftInv'
<1> SUFFICES ASSUME DraftInv, [Next]_vars
             PROVE  DraftInv'
  OBVIOUS
<1>1. ASSUME NEW w \in Window, DeleteStep(w)
      PROVE  DraftInv'
  BY <1>1, PreserveInv, DeleteBodyInv, RemoveEntryInv, DeleteDoneInv DEF DeleteStep
<1>2. ASSUME NEW w \in Window, SweepStep(w)
      PROVE  DraftInv'
  BY <1>2, StartSweepInv, SweepInv, SweepDoneInv DEF SweepStep
<1>3. ASSUME NEW w \in Window, NEW d \in Doc, RestoreStep(w, d)
      PROVE  DraftInv'
  BY <1>3, RestoreReadInv, RestoreDoneInv, InstallDoneInv, CopyUnrestoredInv DEF RestoreStep
<1>4. ASSUME NEW w \in Window, NEW session \in SUBSET bounds.docs, Launch(w, session)
      PROVE  DraftInv'
  BY <1>4, LaunchInv
<1>5. CASE UNCHANGED vars
  BY <1>5 DEF DraftInv, vars, TypeOK, bounds
<1> QED BY <1>1, <1>2, <1>3, <1>4, <1>5, PassInv, AutosaveTickInv, UserInv, WakeInv,
           OpenWindowInv, CrashInv DEF Next

\* The inductive invariant holds in every state of every behaviour: one holder of the
\* lane, whose work is in its place; trusted views that say what the manifest says
\* unless the answer of a command is on its way; bodies that are described.
THEOREM DraftInvariant == Spec => []DraftInv
<1> QED BY InitInv, NextInv, PTL DEF Spec

\* Every variable has its type, and no entry bears a version its file has not had.
THEOREM DraftTypes == Spec => []TypeOK
<1>1. DraftInv => TypeOK
  BY DEF DraftInv
<1> QED BY <1>1, DraftInvariant, PTL

\* The journal lane has one holder, the one window whose journal work is in flight:
\* no interleaving of passes, deletions, cleanups and wakeups runs two at once.
THEOREM OneWorker == Spec => []OneJournalWorker
<1>1. DraftInv => OneJournalWorker
  BY DEF DraftInv, Orderly, OneJournalWorker
<1> QED BY <1>1, DraftInvariant, PTL

\* However registrations, writes, deletions, cleanup, failures and crashes interleave,
\* a file's draft body on disk is described by the manifest.
THEOREM EveryBodyDescribed == Spec => []BodiesDescribed
<1>1. DraftInv => BodiesDescribed
  BY DEF DraftInv, Described, BodiesDescribed
<1> QED BY <1>1, DraftInvariant, PTL

\* With no journal work in flight, what a trusted window knows of a draft is what
\* the manifest on disk says of it.
ViewsCurrent == ui.lane = Nobody => ViewsTrue(ui, disk.entry)

\* With no journal work in flight, no window trusts an entry that the manifest on disk
\* does not have: whatever it skips registering or would restore is there, after any
\* failed command, cleanup, further window or crash.
THEOREM ViewsAreCurrent == Spec => []ViewsCurrent
<1>1. DraftInv => ViewsCurrent
  BY Parts, FreeLane DEF ViewsCurrent
<1> QED BY <1>1, DraftInvariant, PTL
=============================================================================
