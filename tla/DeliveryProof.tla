---------------------------- MODULE DeliveryProof ----------------------------
(***************************************************************************)
(* The proof of a delivery receipt (prove_delivery_receipt in               *)
(* crates/meshloop-engine/src/workspace/delivery.rs): whether the commit a  *)
(* receipt names has reached its destination ref, from read-only questions  *)
(* to git.  A receipt is only a claim; the verdict is a set of reasons, and *)
(* the empty set is a pass.                                                 *)
(***************************************************************************)
EXTENDS Naturals, FiniteSets

CONSTANTS
  Commits,   \* the commits of the repository, parents before children
  Parents,   \* commit -> its parents
  Tree       \* commit -> the content it records

NoCommit == 0

ASSUME CommitsAssumption ==
  /\ Commits \subseteq Nat \ {NoCommit} /\ IsFiniteSet(Commits)
  /\ DOMAIN Parents = Commits /\ DOMAIN Tree = Commits
  /\ \A c \in Commits : Parents[c] \subseteq {p \in Commits : p < c}

LandingStrategy == {"fast-forward", "merge", "rewrite"}

DeliveryReason == {"accepted-not-landed", "missing-recovery-object", "planner-dirty",
                   "rewritten-destination", "stale-destination", "unreadable-ref"}

\* recorded: the commit the destination was expected to name; tree: whether the
\* receipt also carries the accepted tree; recovery: objects to be kept.
DeliveryReceipt ==
  [strategy : LandingStrategy, accepted : Commits, recorded : Commits \cup {NoCommit},
   tree : BOOLEAN, recovery : SUBSET Commits]

\* The commits that c contains: the smallest set with c and the parents of its members.
Ancestors ==
  LET closed(S) == \A d \in S : Parents[d] \subseteq S
  IN [c \in Commits |->
        {a \in Commits : \A S \in SUBSET Commits : c \in S /\ closed(S) => a \in S}]

\* merge-base --is-ancestor and the walk over the objects.
is_ancestor(a, c) == a \in Ancestors[c]

tree_reachable(a, c) == \E b \in Ancestors[c] : Tree[b] = Tree[a]

\* recorded_destination names another commit than the ref does now.
Mismatch(r, tip) == r.recorded # NoCommit /\ r.recorded # tip

\* git answers about commits it still has; any other outcome is an error.
ask(gone, commits, reasons) == IF commits \cap gone = {} THEN reasons ELSE {"unreadable-ref"}

note_fast_forward(r, tip, gone) ==
  ask(gone, {r.accepted},
      IF is_ancestor(r.accepted, tip) THEN {}
      ELSE IF Mismatch(r, tip) THEN {"rewritten-destination"} ELSE {"accepted-not-landed"})

\* The tip is the merge itself, or, when the ref has moved on, contains it.
note_merge(r, tip, gone) ==
  IF Cardinality(Parents[tip]) >= 2 /\ r.accepted \in Parents[tip] THEN {}
  ELSE IF ~Mismatch(r, tip) THEN {"accepted-not-landed"}
  ELSE ask(gone, {r.accepted},
           IF is_ancestor(r.accepted, tip) THEN {} ELSE {"rewritten-destination"})

\* The accepted commit, or its tree when the rewrite changed its id.
contained(r, c) == is_ancestor(r.accepted, c) \/ (r.tree /\ tree_reachable(r.accepted, c))

note_rewrite(r, gone) ==
  IF r.recorded = NoCommit THEN {"rewritten-destination"}
  ELSE ask(gone, {r.accepted, r.recorded},
           IF contained(r, r.recorded) THEN {} ELSE {"rewritten-destination"})

note_recovery(r, gone) ==
  IF r.recovery \cap gone = {} THEN {} ELSE {"missing-recovery-object"}

note_landing(r, tip, gone) ==
  IF r.strategy = "rewrite" THEN note_rewrite(r, gone)
  ELSE IF r.strategy = "merge" THEN note_merge(r, tip, gone)
  ELSE note_fast_forward(r, tip, gone)

\* Mutant: a ref that moved since the receipt was written is not reported.
prove_unrecorded(r, tip, gone, dirty) ==
  (IF tip = NoCommit THEN {"unreadable-ref"} ELSE note_landing(r, tip, gone))
  \cup note_recovery(r, gone) \cup (IF dirty THEN {"planner-dirty"} ELSE {})

\* tip: what the ref resolved to, or NoCommit; dirty: the planner's worktree.
prove_delivery_receipt(r, tip, gone, dirty) ==
  (IF tip = NoCommit THEN {"unreadable-ref"}
   ELSE note_landing(r, tip, gone)
        \cup (IF Mismatch(r, tip) THEN {"stale-destination"} ELSE {}))
  \cup note_recovery(r, gone) \cup (IF dirty THEN {"planner-dirty"} ELSE {})
=============================================================================
