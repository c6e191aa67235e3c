-------------------------- MODULE MCCleanupJournal --------------------------
(* Instances of CleanupJournal for TLC. *)
EXTENDS CleanupJournal, TLC

CONSTANTS p1, p2

MCWorktrees == {1, 2}
MCAppliers == {p1, p2}

\* The processes run the same code: they may be exchanged.
Exchange == Permutations(MCAppliers)
=============================================================================
