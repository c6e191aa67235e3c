---------------------------- MODULE RepairSession ----------------------------
(***************************************************************************)
(* The verification of one attempt: verify_attempt of run_loop.rs with the  *)
(* repair loop it drives from the decisions of converge.rs, and the         *)
(* verification a restarted driver does instead when it finds the attempt   *)
(* orphaned.  RunLoop sees all of this as one nondeterministic verdict;     *)
(* here the verdict is tied to the commits of the attempt's worktree.       *)
(*                                                                         *)
(* A lattice is the set of its diagnostic atoms and stands for its own      *)
(* fingerprint.  A revision is a number, 0 the tip of the branch when       *)
(* verification starts.  Whether the check command passes and what it       *)
(* prints are independent: a command may print error lines and exit 0.      *)
(***************************************************************************)
EXTENDS Naturals, Sequences, FiniteSets

CONSTANTS
  Atoms,        \* diagnostic atoms the check can report
  Severity,     \* atom -> its severity
  Allowed,      \* atoms whose code is in ATOM_ALLOWLIST
  MaxRounds,    \* RepairBudget.max_rounds
  Command,      \* a verify_command is configured
  Micro,        \* the run loop has a micro_repair (the CLI sets None)
  CommitFaults, \* `git add` or `git commit` may fail
  Crashes       \* the driver may die or give up with an error

Severities == {"syntax", "type", "test", "error", "warning"}

ASSUME AtomsAssumption ==
  IsFiniteSet(Atoms) /\ Severity \in [Atoms -> Severities] /\ Allowed \subseteq Atoms
ASSUME BudgetAssumption == MaxRounds \in Nat \ {0}
ASSUME ModeAssumption ==
  Command \in BOOLEAN /\ Micro \in BOOLEAN /\ CommitFaults \in BOOLEAN /\ Crashes \in BOOLEAN

VARIABLES
  phase,   \* where verify_attempt is
  head,    \* tip of the attempt's branch
  revs,    \* revisions made so far
  dirty,   \* the worktree has edits that are not in head
  cur,     \* lattice and rows of the last check that was kept
  rev,     \* current_revision
  hist,    \* RepairSession.rounds
  action,  \* the action to carry out next
  before,  \* lattice the next edit has to improve on
  passed,  \* the verdict
  heavy,   \* harness invocations made to repair
  check    \* what the last check really ran on, and its result (history)

vars == <<phase, head, revs, dirty, cur, rev, hist, action, before, passed, heavy, check>>

Phases == {"start", "observe", "act", "micro", "undo", "heavy", "orphan", "done"}
RepairActions == {"Accept", "Continue", "Rollback", "Stop"}

-----------------------------------------------------------------------------
(* The diagnostic lattice. *)

count(l, s) == Cardinality({a \in l : Severity[a] = s})
blocking(l) == Cardinality({a \in l : Severity[a] # "warning"})
progress(l) ==
  <<count(l, "syntax"), count(l, "type"), count(l, "test"), count(l, "error"), blocking(l)>>

Less(p, q) == \E i \in 1..5 : p[i] < q[i] /\ \A j \in 1..(i - 1) : p[j] = q[j]

compare(previous, next) ==
  IF previous = next THEN "Equal"
  ELSE IF Less(progress(next), progress(previous)) THEN "Improves"
  ELSE "Regresses"

syntax_regressed(previous, next) == count(next, "syntax") > count(previous, "syntax")

\* micro_repair_eligible, for scores inside the window.
micro_repair_eligible(l) ==
  /\ count(l, "syntax") = 0 /\ blocking(l) # 0
  /\ \A a \in l : Severity[a] # "warning" => a \in Allowed

-----------------------------------------------------------------------------
(* RepairSession::observe and decide. *)

Repeated(h, l) == \E i \in 1..Len(h) : h[i].lat = l

\* Mutant: the observation being decided is not counted.
SpentExclusive(h) == Len(h) >= MaxRounds

Spent(h) == Len(h) + 1 >= MaxRounds

AfterPrevious(previous, l) ==
  IF syntax_regressed(previous, l) THEN "Rollback"
  ELSE IF compare(previous, l) = "Improves" THEN "Continue"
  ELSE IF compare(previous, l) = "Equal" THEN "Stop"
  ELSE "Rollback"

decide(h, l) ==
  IF Repeated(h, l) THEN "Stop"
  ELSE IF blocking(l) = 0 THEN "Accept"
  ELSE IF Spent(h) THEN "Stop"
  ELSE IF h = <<>> THEN "Continue"
  ELSE AfterPrevious(h[Len(h)].lat, l)

observe(l, r) ==
  /\ action' = decide(hist, l)
  /\ hist' = Append(hist, [lat |-> l, rev |-> r])

-----------------------------------------------------------------------------
(* The worktree and the checks. *)

\* commit_all: HEAD as it is when there is nothing to commit.
commit_all ==
  /\ dirty' = FALSE
  /\ \/ UNCHANGED <<head, revs>>
     \/ head' = revs + 1 /\ revs' = revs + 1

\* reset_hard: untracked files survive it.
reset_hard(r) ==
  /\ head' = r
  /\ dirty' \in {FALSE, dirty}
  /\ UNCHANGED revs

\* run_deterministic_checks: without a command, or when it cannot be run, there
\* is no lattice; a command that could not be run fails.
Reports ==
  {r \in [lat : SUBSET Atoms, parsed : BOOLEAN, ok : BOOLEAN] :
     /\ r.parsed => Command
     /\ ~r.parsed => r.lat = {}
     /\ Command /\ ~r.parsed => ~r.ok}

run_deterministic_checks(r, committed) ==
  check' = [rev |-> head', dirty |-> dirty', ok |-> r.ok, committed |-> committed]

-----------------------------------------------------------------------------
(* verify_attempt. *)

Init ==
  /\ phase = "start"
  /\ head = 0 /\ revs = 0 /\ dirty = TRUE
  /\ cur = [lat |-> {}, parsed |-> FALSE, ok |-> FALSE]
  /\ rev = 0
  /\ hist = <<>> /\ action = "Stop" /\ before = {}
  /\ passed = FALSE
  /\ heavy = 0
  /\ check = [rev |-> 0, dirty |-> TRUE, ok |-> FALSE, committed |-> FALSE]

\* The first commit and check; a repair session only for a failed check that
\* left a lattice.
FirstCheck ==
  /\ phase = "start"
  /\ commit_all
  /\ \E r \in Reports :
       /\ run_deterministic_checks(r, TRUE)
       /\ cur' = r
       /\ passed' = r.ok
       /\ phase' = IF ~r.ok /\ r.parsed THEN "observe" ELSE "done"
  /\ rev' = head'
  /\ UNCHANGED <<hist, action, before, heavy>>

Observe ==
  /\ phase = "observe"
  /\ observe(cur.lat, rev)
  /\ phase' = "act"
  /\ UNCHANGED <<head, revs, dirty, cur, rev, before, passed, heavy, check>>

\* Mutant: no blocking diagnostic is as good as a passing check.
AcceptLattice ==
  /\ phase = "act" /\ action = "Accept"
  /\ passed' = TRUE
  /\ phase' = "done"
  /\ UNCHANGED <<head, revs, dirty, cur, rev, hist, action, before, heavy, check>>

\* The lattice decides that the loop ends, the rows decide the verdict.
Accept ==
  /\ phase = "act" /\ action = "Accept"
  /\ passed' = cur.ok
  /\ phase' = "done"
  /\ UNCHANGED <<head, revs, dirty, cur, rev, hist, action, before, heavy, check>>

Stop ==
  /\ phase = "act" /\ action = "Stop"
  /\ phase' = "done"
  /\ UNCHANGED <<head, revs, dirty, cur, rev, hist, action, before, passed, heavy, check>>

Continue ==
  /\ phase = "act" /\ action = "Continue"
  /\ before' = cur.lat
  /\ phase' = "micro"
  /\ UNCHANGED <<head, revs, dirty, cur, rev, hist, action, passed, heavy, check>>

\* The record the decision compared with: the one before the last.
Previous == hist[Len(hist) - 1]

\* Mutant: the diagnostics of the regression are kept for the next prompt.
RollbackTreeOnly ==
  /\ phase = "act" /\ action = "Rollback"
  /\ reset_hard(Previous.rev)
  /\ rev' = Previous.rev
  /\ before' = cur.lat
  /\ phase' = "micro"
  /\ UNCHANGED <<cur, hist, action, passed, heavy, check>>

\* The tree, the revision and the diagnostics go back; lat and rows do not.
Rollback ==
  /\ phase = "act" /\ action = "Rollback"
  /\ reset_hard(Previous.rev)
  /\ rev' = Previous.rev
  /\ before' = Previous.lat
  /\ phase' = "micro"
  /\ UNCHANGED <<cur, hist, action, passed, heavy, check>>

\* reset_hard fails: the loop breaks.
RollbackFails ==
  /\ phase = "act" /\ action = "Rollback"
  /\ phase' = "done"
  /\ UNCHANGED <<head, revs, dirty, cur, rev, hist, action, before, passed, heavy, check>>

-----------------------------------------------------------------------------
(* consider_micro_repair: one closed edit before the harness is asked. *)

\* No micro_repair, no score in the window, or the actuator declined.
MicroSkipped ==
  /\ phase = "micro"
  /\ phase' = "heavy"
  /\ UNCHANGED <<head, revs, dirty, cur, rev, hist, action, before, passed, heavy, check>>

MicroApplies == phase = "micro" /\ Micro /\ micro_repair_eligible(before)

\* The edit was applied but it could not be committed, or could not be checked.
MicroUnavailable ==
  /\ MicroApplies
  /\ phase' = "undo"
  /\ \/ CommitFaults /\ dirty' = TRUE /\ UNCHANGED <<head, revs>>
     \/ commit_all
  /\ UNCHANGED <<cur, rev, hist, action, before, passed, heavy, check>>

\* Every applied edit is observed; it is kept only when phi improved, and its
\* action is carried out only when it is kept.
MicroChecked ==
  /\ MicroApplies
  /\ commit_all
  /\ \E r \in {q \in Reports : q.parsed} :
       /\ run_deterministic_checks(r, TRUE)
       /\ observe(r.lat, head')
       /\ IF compare(before, r.lat) = "Improves"
            THEN cur' = r /\ rev' = head' /\ phase' = "act"
            ELSE phase' = "undo" /\ UNCHANGED <<cur, rev>>
  /\ UNCHANGED <<before, passed, heavy>>

\* Mutant: the rejected edit stays in the worktree.
MicroUndoForgotten ==
  /\ phase = "undo"
  /\ phase' = "heavy"
  /\ UNCHANGED <<head, revs, dirty, cur, rev, hist, action, before, passed, heavy, check>>

\* reset_micro_edit.
MicroUndo ==
  /\ phase = "undo"
  /\ reset_hard(rev)
  /\ phase' = "heavy"
  /\ UNCHANGED <<cur, rev, hist, action, before, passed, heavy, check>>

MicroUndoFails ==
  /\ phase = "undo"
  /\ phase' = "done"
  /\ UNCHANGED <<head, revs, dirty, cur, rev, hist, action, before, passed, heavy, check>>

-----------------------------------------------------------------------------
(* dispatch_repair_round. *)

HeavyChecked ==
  /\ phase = "heavy"
  /\ heavy' = heavy + 1
  /\ commit_all
  /\ \E r \in Reports :
       /\ run_deterministic_checks(r, TRUE)
       /\ cur' = r
       /\ phase' = IF r.parsed THEN "observe" ELSE "done"
  /\ rev' = head'
  /\ UNCHANGED <<hist, action, before, passed>>

\* The invocation, the collection, the commit or the check failed: the round
\* returns None, with whatever it has done to the worktree.
HeavyFails ==
  /\ phase = "heavy"
  /\ heavy' = heavy + 1
  /\ \/ dirty' \in {dirty, TRUE} /\ UNCHANGED <<head, revs>>
     \/ commit_all
  /\ phase' = "done"
  /\ UNCHANGED <<cur, rev, hist, action, before, passed, check>>

-----------------------------------------------------------------------------
(* The driver dies, and a later one finishes the orphaned verification.      *)

\* An error that leaves verify_attempt through `?` (the first commit or check,
\* a row that cannot be recorded) ends the driver the same way.  In the middle
\* of a micro-repair, of a repair round or of the first commit the worktree may
\* hold edits that no commit has.
Crash ==
  /\ Crashes
  /\ phase \notin {"orphan", "done"}
  /\ phase' = "orphan"
  /\ dirty' \in IF phase \in {"start", "micro", "heavy"} THEN BOOLEAN ELSE {dirty}
  /\ hist' = <<>>
  /\ UNCHANGED <<head, revs, cur, rev, action, before, passed, heavy, check>>

\* finish_orphaned_verification: one check of what is there.  The result of
\* commit_all is dropped, HEAD is read afterwards.
OrphanCheck ==
  /\ phase = "orphan"
  /\ \E r \in Reports :
       /\ \/ commit_all /\ run_deterministic_checks(r, TRUE)
          \/ /\ CommitFaults /\ UNCHANGED <<head, revs, dirty>>
             /\ run_deterministic_checks(r, FALSE)
       /\ cur' = r
       /\ passed' = r.ok
  /\ rev' = head'
  /\ phase' = "done"
  /\ UNCHANGED <<hist, action, before, heavy>>

-----------------------------------------------------------------------------
Repair ==
  \/ FirstCheck \/ Observe \/ Accept \/ Stop \/ Continue \/ Rollback \/ RollbackFails
  \/ MicroSkipped \/ MicroUnavailable \/ MicroChecked \/ MicroUndo \/ MicroUndoFails
  \/ HeavyChecked \/ HeavyFails

Next == Repair \/ Crash \/ OrphanCheck

Spec == Init /\ [][Next]_vars

-----------------------------------------------------------------------------
TypeOK ==
  /\ phase \in Phases
  /\ head \in Nat /\ rev \in Nat /\ revs \in Nat
  /\ dirty \in BOOLEAN
  /\ cur \in [lat : SUBSET Atoms, parsed : BOOLEAN, ok : BOOLEAN]
  /\ hist \in Seq([lat : SUBSET Atoms, rev : Nat])
  /\ Len(hist) <= MaxRounds + 1
  /\ action \in RepairActions
  /\ before \in SUBSET Atoms
  /\ passed \in BOOLEAN
  /\ heavy \in Nat
  /\ check \in [rev : Nat, dirty : BOOLEAN, ok : BOOLEAN, committed : BOOLEAN]

\* What the verdict passes is what gets merged: the last check passed, and it
\* ran on exactly the tree the branch of the attempt points at, through repair,
\* rollback, crash and orphaned verification.  The one exception is a restarted
\* driver whose commit fails: it drops the error and checks edits the branch
\* does not have.
VerdictIsAboutHead ==
  passed => check.ok /\ check.rev = head /\ (check.committed => ~check.dirty)

\* The session never works on another tree than the one it believes it is on:
\* when the harness is asked again, and when a result is observed, the branch
\* is at current_revision, whatever was rolled back or undone before.
TreeMatchesSession ==
  phase \in {"observe", "act", "micro", "heavy"} => head = rev

\* The lattice the harness is told to improve on is that of the tree it gets.
PromptMatchesTree ==
  phase = "heavy" =>
    \E i \in 1..Len(hist) : hist[i].rev = head /\ hist[i].lat = before

\* The harness is asked at most max_rounds - 1 more times, however many edits
\* are tried in between.
HarnessBudget == heavy <= MaxRounds - 1
=============================================================================
