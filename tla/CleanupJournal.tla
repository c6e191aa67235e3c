---------------------------- MODULE CleanupJournal ----------------------------
(***************************************************************************)
(* `meshloop workspace apply --cleanup --digest` (apply_cleanup in          *)
(* crates/meshloop-adapters/src/workspace/cleanup.rs): the digest-bound    *)
(* removal of worktrees, with a journal row before and after every git     *)
(* removal, a repository fence, and recovery from what the journal says.   *)
(*                                                                         *)
(* The facts about a worktree are one of Kinds; a digest is the facts it   *)
(* was computed from (sha256 taken as injective), so the key and the saved *)
(* before-token of a journal row are determined by digest and worktree.    *)
(* Appliers are processes: two of them may apply, and a user may edit the  *)
(* worktrees, at any moment.                                               *)
(***************************************************************************)
EXTENDS Naturals, FiniteSets

CONSTANTS
  Worktrees,    \* inventory entries owned by the ledger, by position
  Appliers,     \* processes that run apply_cleanup
  GitFaults,    \* whether `git worktree remove` may fail by itself
  MaxPlans,     \* bound: previews the operator keeps
  MaxApplies,   \* bound: calls of apply_cleanup
  MaxCrashes,   \* bound: deaths of an applier
  MaxDrift      \* bound: changes made by others

ASSUME WorktreesAssumption == Worktrees \subseteq Nat /\ IsFiniteSet(Worktrees)
ASSUME BoundsAssumption ==
  /\ GitFaults \in BOOLEAN
  /\ MaxPlans \in Nat /\ MaxApplies \in Nat /\ MaxCrashes \in Nat /\ MaxDrift \in Nat

\* What the inventory and git say of a worktree.  landed: registered, clean,
\* its HEAD reachable from the retained commit.  moved: the same at another
\* commit.  dirty: tracked or untracked changes.  held: a blocker that git does
\* not know (ignored files, a commit nothing retains, a live process, unclear
\* ownership).  unlisted: a directory that git does not list.  prunable: listed
\* without a directory.
Kinds == {"landed", "moved", "dirty", "held", "unlisted", "prunable", "missing"}

NoProcess == "none"
ASSUME AppliersAssumption == NoProcess \notin Appliers

VARIABLES
  wt,        \* worktree -> its kind
  retained,  \* the commit of the checkout's HEAD
  plans,     \* digests the operator has been shown
  journal,   \* cleanup_journal: <<digest, worktree, step>>
  fence,     \* the process that holds the repository fence
  \* each applier
  pc, plan, seen, todo, recon, mark, status,
  \* history and bounds
  overlap,   \* some apply began while another was under way
  applies, crashes, drift, faults

process == <<pc, plan, seen, todo, recon, mark, status>>
counts == <<overlap, applies, crashes, drift, faults>>
vars == <<wt, retained, plans, journal, fence, process, counts>>

Digest == [retained : Nat, rows : [Worktrees -> Kinds]]
Steps == {"intent", "completed", "blocked"}
Pcs == {"idle", "reconcile", "acquire", "next", "remove", "record"}
Statuses == {"none", "blocked", "recovery-required", "refused", "git-remove-failed",
             "completed"}

Facts == [retained |-> retained, rows |-> wt]
NoDigest == [retained |-> 0, rows |-> [w \in Worktrees |-> "missing"]]

present(w) == wt[w] \notin {"missing", "prunable"}
registered(w) == wt[w] \notin {"missing", "unlisted"}

\* reasons_for is empty.
Eligible(kind) == kind \in {"landed", "moved"}

-----------------------------------------------------------------------------
(* The operator and the world. *)

\* `workspace preview --cleanup` prints the digest of the facts.
Preview ==
  /\ Cardinality(plans) < MaxPlans
  /\ plans' = plans \cup {Facts}
  /\ UNCHANGED <<wt, retained, journal, fence, process, counts>>

\* Edits, commits, cleanups and removals by hand, a worktree made anew.
UserChanges(w) ==
  /\ drift < MaxDrift /\ drift' = drift + 1
  /\ wt' \in {[wt EXCEPT ![w] = k] : k \in Kinds \ {wt[w]}}
  /\ UNCHANGED <<retained, plans, journal, fence, process, overlap, applies, crashes, faults>>

\* HEAD of the checkout moves on; what was reachable stays reachable.
HeadMoves ==
  /\ drift < MaxDrift /\ drift' = drift + 1
  /\ retained' = retained + 1
  /\ UNCHANGED <<wt, plans, journal, fence, process, overlap, applies, crashes, faults>>

-----------------------------------------------------------------------------
(* apply_cleanup. *)

StepsOf(d, w) == {s \in Steps : <<d, w, s>> \in journal}
Journaled(d) == {w \in Worktrees : StepsOf(d, w) # {}}

\* The grouped SELECT: blocked before completed before intent.
JournalStep(d, w) ==
  IF "blocked" \in StepsOf(d, w) THEN "blocked"
  ELSE IF "completed" \in StepsOf(d, w) THEN "completed" ELSE "intent"

write(d, w, step) == journal' = journal \cup {<<d, w, step>>}

NoLocals(p) ==
  /\ plan' = [plan EXCEPT ![p] = NoDigest] /\ seen' = [seen EXCEPT ![p] = NoDigest]
  /\ todo' = [todo EXCEPT ![p] = {}] /\ recon' = [recon EXCEPT ![p] = {}]
  /\ mark' = [mark EXCEPT ![p] = 0]

\* The call returns; the lease is dropped with it.
Return(p, s) ==
  /\ pc' = [pc EXCEPT ![p] = "idle"]
  /\ status' = [status EXCEPT ![p] = s]
  /\ NoLocals(p)
  /\ fence' = IF fence = p THEN NoProcess ELSE fence

\* The preview at the head of apply_cleanup, outside the fence.  only: every
\* candidate, or the one maintenance selected.
Apply(p, d, only) ==
  /\ pc[p] = "idle" /\ applies < MaxApplies /\ applies' = applies + 1
  /\ pc' = [pc EXCEPT ![p] = "reconcile"]
  /\ plan' = [plan EXCEPT ![p] = d] /\ seen' = [seen EXCEPT ![p] = Facts]
  /\ todo' = [todo EXCEPT ![p] = only]
  /\ status' = [status EXCEPT ![p] = "none"]
  /\ overlap' = (overlap \/ \E q \in Appliers : q # p /\ pc[q] # "idle")
  /\ UNCHANGED <<wt, retained, plans, journal, fence, recon, mark, crashes, drift, faults>>

\* A journal row that the state of its worktree contradicts.
Contradicted(p, d, w) ==
  \/ JournalStep(d, w) = "blocked"
  \/ present(w) # registered(w)
  \/ JournalStep(d, w) = "completed" /\ present(w)
  \/ present(w) /\ seen[p].rows[w] # d.rows[w]

\* Mutant: the facts are compared as they are, without the removals made.
NothingRemoved(d) == {}

\* Mutant: a journaled removal is taken for done without a look at the disk.
TrustJournal(d) == Journaled(d)

\* Worktrees a former apply of this digest removed.
Removed(d) == {w \in Journaled(d) : ~present(w)}

\* The facts with the removed worktrees put back.
Bound(p, d) ==
  [retained |-> seen[p].retained,
   rows |-> [w \in Worktrees |-> IF w \in Removed(d) THEN d.rows[w] ELSE seen[p].rows[w]]]

Reconcile(p) ==
  LET d == plan[p]
      eligible == {w \in todo[p] : Eligible(d.rows[w])}
  IN /\ pc[p] = "reconcile"
     /\ \/ /\ \E w \in Journaled(d) : Contradicted(p, d, w)
           /\ Return(p, "recovery-required")
        \/ /\ \A w \in Journaled(d) : ~Contradicted(p, d, w)
           /\ Bound(p, d) # d
           /\ Return(p, IF Journaled(d) = {} THEN "blocked" ELSE "recovery-required")
        \/ /\ \A w \in Journaled(d) : ~Contradicted(p, d, w)
           /\ Bound(p, d) = d
           /\ IF eligible = {}
                THEN Return(p, "blocked")
                ELSE /\ pc' = [pc EXCEPT ![p] = "acquire"]
                     /\ todo' = [todo EXCEPT ![p] = eligible]
                     /\ recon' = [recon EXCEPT ![p] = Removed(d)]
                     /\ UNCHANGED <<fence, plan, seen, mark, status>>
     /\ UNCHANGED <<wt, retained, plans, journal, counts>>

\* Mutant: the lock on the registry file is not looked at.
FenceIgnored == TRUE

FenceFree == fence = NoProcess

\* The fence is a try_lock on the registry file: held means refused.
Acquire(p) ==
  /\ pc[p] = "acquire"
  /\ IF FenceFree
       THEN /\ fence' = p /\ pc' = [pc EXCEPT ![p] = "next"]
            /\ UNCHANGED <<plan, seen, todo, recon, mark, status>>
       ELSE Return(p, "refused")
  /\ UNCHANGED <<wt, retained, plans, journal, counts>>

IsFirst(w, S) == w \in S /\ \A v \in S : w <= v

\* The candidate is as the digest says, under the fence.
Valid(p, w) == wt[w] = plan[p].rows[w] /\ Eligible(wt[w]) /\ registered(w)

\* Reconciled: complete the stored row.  Otherwise revalidate, then either
\* block the plan or write the intent.
Candidate(p, w) ==
  /\ pc[p] = "next" /\ IsFirst(w, todo[p])
  /\ \/ /\ w \in recon[p]
        /\ write(plan[p], w, "completed")
        /\ todo' = [todo EXCEPT ![p] = @ \ {w}]
        /\ UNCHANGED <<fence, pc, plan, seen, recon, mark, status>>
     \/ /\ w \notin recon[p] /\ ~Valid(p, w)
        /\ write(plan[p], w, "blocked")
        /\ Return(p, "recovery-required")
     \/ /\ w \notin recon[p] /\ Valid(p, w)
        /\ write(plan[p], w, "intent")
        /\ pc' = [pc EXCEPT ![p] = "remove"] /\ mark' = [mark EXCEPT ![p] = drift]
        /\ UNCHANGED <<fence, plan, seen, todo, recon, status>>
  /\ UNCHANGED <<wt, retained, plans, counts>>

\* Mutant: `git worktree remove --force`.
ForcedRemoval(kind) == kind \notin {"unlisted", "missing"}

\* `git worktree remove` without --force: refuses changes and what it does
\* not list; what holds a worktree otherwise, or a directory that is already
\* gone, does not stop it.
GitRemoves(kind) == kind \notin {"dirty", "unlisted", "missing"}

Remove(p, w) ==
  /\ pc[p] = "remove" /\ IsFirst(w, todo[p])
  /\ \/ /\ GitRemoves(wt[w])
        /\ wt' = [wt EXCEPT ![w] = "missing"]
        /\ pc' = [pc EXCEPT ![p] = "record"]
        /\ UNCHANGED <<journal, fence, plan, seen, todo, recon, mark, status, faults>>
     \/ /\ \/ ~GitRemoves(wt[w]) /\ UNCHANGED <<wt, faults>>
           \/ \* refused (a lock, a hook), or ended by the timeout half-way
              /\ GitFaults /\ faults' = faults + 1
              /\ wt' \in {wt} \cup {[wt EXCEPT ![w] = k] :
                                      k \in IF GitRemoves(wt[w]) THEN {"dirty", "prunable"}
                                                                 ELSE {}}
        /\ write(plan[p], w, "blocked")
        /\ Return(p, "git-remove-failed")
  /\ UNCHANGED <<retained, plans, overlap, applies, crashes, drift>>

Record(p, w) ==
  /\ pc[p] = "record" /\ IsFirst(w, todo[p])
  /\ write(plan[p], w, "completed")
  /\ todo' = [todo EXCEPT ![p] = @ \ {w}] /\ pc' = [pc EXCEPT ![p] = "next"]
  /\ UNCHANGED <<wt, retained, plans, fence, plan, seen, recon, mark, status, counts>>

Finish(p) ==
  /\ pc[p] = "next" /\ todo[p] = {}
  /\ Return(p, "completed")
  /\ UNCHANGED <<wt, retained, plans, journal, counts>>

\* The process dies, or CleanupFault stops it; the lock goes with it.
Crash(p) ==
  /\ pc[p] # "idle" /\ crashes < MaxCrashes /\ crashes' = crashes + 1
  /\ Return(p, "none")
  /\ UNCHANGED <<wt, retained, plans, journal, overlap, applies, drift, faults>>

-----------------------------------------------------------------------------
Init ==
  /\ wt \in [Worktrees -> {"landed", "dirty"}] /\ retained = 0
  /\ plans = {} /\ journal = {} /\ fence = NoProcess
  /\ pc = [p \in Appliers |-> "idle"]
  /\ plan = [p \in Appliers |-> NoDigest] /\ seen = [p \in Appliers |-> NoDigest]
  /\ todo = [p \in Appliers |-> {}] /\ recon = [p \in Appliers |-> {}]
  /\ mark = [p \in Appliers |-> 0] /\ status = [p \in Appliers |-> "none"]
  /\ overlap = FALSE
  /\ applies = 0 /\ crashes = 0 /\ drift = 0 /\ faults = 0

World == Preview \/ HeadMoves \/ \E w \in Worktrees : UserChanges(w)

Applying(p) ==
  \/ Reconcile(p) \/ Acquire(p) \/ Finish(p)
  \/ \E w \in Worktrees : Candidate(p, w) \/ Remove(p, w) \/ Record(p, w)

Begin(p) ==
  \E d \in plans : Apply(p, d, Worktrees) \/ \E w \in Worktrees : Apply(p, d, {w})

Next == World \/ \E p \in Appliers : Begin(p) \/ Applying(p) \/ Crash(p)

Spec == Init /\ [][Next]_vars

-----------------------------------------------------------------------------
Fenced(p) == pc[p] \in {"next", "remove", "record"}

\* Types, and the fence: it is held exactly by the process that is past
\* Acquire, so every early return has given it back.
TypeOK ==
  /\ wt \in [Worktrees -> Kinds] /\ retained \in Nat
  /\ plans \subseteq Digest /\ journal \subseteq Digest \X Worktrees \X Steps
  /\ fence \in Appliers \cup {NoProcess}
  /\ pc \in [Appliers -> Pcs]
  /\ plan \in [Appliers -> Digest] /\ seen \in [Appliers -> Digest]
  /\ todo \in [Appliers -> SUBSET Worktrees] /\ recon \in [Appliers -> SUBSET Worktrees]
  /\ mark \in [Appliers -> Nat] /\ status \in [Appliers -> Statuses]
  /\ overlap \in BOOLEAN
  /\ applies \in Nat /\ crashes \in Nat /\ drift \in Nat /\ faults \in Nat
  /\ \A p \in Appliers : Fenced(p) <=> fence = p

\* Between its intent and its removal only an outside change can make a
\* candidate other than the digest says: no other apply gets at it.
FencedRemoval ==
  \A p \in Appliers, w \in Worktrees :
    pc[p] = "remove" /\ mark[p] = drift /\ IsFirst(w, todo[p]) =>
      wt[w] = plan[p].rows[w] /\ Eligible(wt[w])

\* Unless others touch the worktrees, the journal and the disk agree across
\* any crash: what is recorded as completed is gone, and what is gone has an
\* intent of a digest under which it was eligible.
JournalMatchesDisk ==
  drift = 0 =>
    /\ \A r \in journal : r[3] = "completed" => wt[r[2]] = "missing"
    /\ \A w \in Worktrees : wt[w] = "missing" =>
         \E d \in plans : <<d, w, "intent">> \in journal /\ Eligible(d.rows[w])

\* Uncommitted work is never lost to a cleanup, whenever it was written: a
\* dirty worktree disappears only by somebody else's hand.
DirtSurvives ==
  [][\A w \in Worktrees : wt[w] = "dirty" /\ wt'[w] \in {"missing", "prunable"} =>
       drift' # drift]_vars

\* No lost process makes a digest useless: with one apply at a time, git that
\* works and nobody else at the worktrees, every re-apply of a digest goes
\* through, however often the one before it died.
CrashAloneRecovers ==
  drift = 0 /\ faults = 0 /\ ~overlap /\ Cardinality(plans) = 1 =>
    /\ \A p \in Appliers : status[p] # "recovery-required"
    /\ \A r \in journal : r[3] # "blocked"
=============================================================================
