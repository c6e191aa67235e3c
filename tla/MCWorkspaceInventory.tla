------------------------- MODULE MCWorkspaceInventory -------------------------
EXTENDS WorkspaceInventory

\* 1 is the base, 2 the main line, 3 work on the side, 4 the merge of both and 5
\* the same work rewritten onto the main line.
MCCommits == 1..5
MCParents == <<{}, {1}, {1}, {2, 3}, {2}>>
MCTree == <<1, 2, 3, 4, 3>>

MCReceipts ==
  {[strategy |-> s, accepted |-> 3, recorded |-> r, tree |-> t, recovery |-> {3}] :
     s \in LandingStrategy, r \in {NoCommit, 2, 4, 5}, t \in BOOLEAN}
=============================================================================
