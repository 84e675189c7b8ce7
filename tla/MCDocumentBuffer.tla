--------------------------- MODULE MCDocumentBuffer ---------------------------
(* Bounds of DocumentBuffer for TLC. *)
EXTENDS DocumentBuffer

\* Pieces of a body; how often the user types, looks away or back, reloads,
\* renames, asks to restore, saves; evictions; calls that fail.
Bounds(size, typed, looks, reloads, renames, evicts, restores, saves, faults) ==
    [size |-> size, typed |-> typed, looks |-> looks, reloads |-> reloads,
     renames |-> renames, evicts |-> evicts, restores |-> restores, saves |-> saves,
     faults |-> faults, opening |-> FALSE]

\* A tab is evicted and looked at again; it is opened while a restore or a
\* reload waits, with a save or two; it is restored and saved; its small body
\* goes through everything; its large one is evicted while it saves.
MCBufferWorlds ==
    { Bounds(2, 1, 2, 1, 0, 1, 0, 0, 1),
      [Bounds(2, 1, 0, 1, 1, 0, 0, 1, 1) EXCEPT !.opening = TRUE],
      [Bounds(2, 1, 0, 2, 1, 0, 0, 1, 0) EXCEPT !.opening = TRUE],
      Bounds(2, 1, 0, 0, 1, 0, 1, 1, 1),
      Bounds(2, 1, 0, 0, 1, 0, 1, 2, 0),
      Bounds(1, 1, 2, 1, 1, 1, 1, 1, 0),
      Bounds(2, 1, 2, 0, 0, 1, 1, 1, 0) }
\* A tab is evicted and reloaded, and nothing fails.
MCReloadedWorlds == { Bounds(2, 0, 1, 1, 0, 1, 0, 0, 0) }
===============================================================================
