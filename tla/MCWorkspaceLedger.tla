------------------------- MODULE MCWorkspaceLedger -------------------------
(* WorkspaceLedger with two callers and one legacy writer.                 *)
EXTENDS WorkspaceLedger, TLC
CONSTANTS c1, c2, w1
MCCallers == {c1, c2}
MCWriters == {w1}
MCSymmetry == Permutations(MCCallers)
=============================================================================
