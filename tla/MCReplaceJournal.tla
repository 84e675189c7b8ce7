-------------------------- MODULE MCReplaceJournal --------------------------
(* Instances of ReplaceJournal for TLC. *)
EXTENDS ReplaceJournal

\* Files are interchangeable.
FileSymmetry == Permutations(File)
=============================================================================
