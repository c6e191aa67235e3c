--------------------------- MODULE Attempt_proofs ---------------------------
(***************************************************************************)
(* Proofs about an attempt: the harness it is routed to, and the repair    *)
(* session that checks what the harness left.                              *)
(***************************************************************************)
EXTENDS RepairSession, Routing, FiniteSetTheorems, WellFoundedInduction, TLAPS

-----------------------------------------------------------------------------
(* The repair session                                                      *)

Records == [lat : SUBSET Atoms, rev : Nat]

\* Where the loop is fixes how many observations and harness rounds it has had.
Rounds ==
  /\ HarnessBudget
  /\ phase = "start" => hist = <<>> /\ heavy = 0
  /\ phase = "observe" => heavy <= Len(hist) /\ Len(hist) <= MaxRounds
  /\ phase = "act" =>
       /\ heavy < Len(hist)
       /\ action \in {"Continue", "Rollback"} => Len(hist) < MaxRounds
       /\ action = "Rollback" => Len(hist) > 1
  /\ phase \in {"micro", "undo", "heavy"} =>
       heavy < Len(hist) /\ heavy + 1 < MaxRounds /\ Len(hist) <= MaxRounds
  /\ phase = "micro" => Len(hist) < MaxRounds

\* The record of the tree at current_revision is in the history: the last one
\* while its action is pending, the one `before` came from while an edit is made.
Known ==
  /\ phase = "act" => hist[Len(hist)].rev = rev /\ hist[Len(hist)].lat = cur.lat
  /\ phase \in {"micro", "undo", "heavy"} =>
       \E i \in 1..Len(hist) : hist[i].rev = rev /\ hist[i].lat = before

IInv == TypeOK /\ Rounds /\ TreeMatchesSession /\ Known

\* A decision to go on leaves room for one more observation, and a rollback has
\* a record to go back to.
LEMMA DecideFacts ==
  ASSUME NEW h \in Seq(Records), NEW l \in SUBSET Atoms
  PROVE  /\ decide(h, l) \in RepairActions
         /\ decide(h, l) \in {"Continue", "Rollback"} => Len(h) + 1 < MaxRounds
         /\ decide(h, l) = "Rollback" => Len(h) > 0
<1>1. Len(h) \in Nat /\ MaxRounds \in Nat
  BY BudgetAssumption
<1>2. h # <<>> => Len(h) > 0
  OBVIOUS
<1>3. AfterPrevious(h[Len(h)].lat, l) \in {"Continue", "Stop", "Rollback"}
  BY DEF AfterPrevious
<1> QED
  BY <1>1, <1>2, <1>3 DEF decide, Spent, RepairActions

\* A decision that counts one observation more than there were.
LEMMA ObserveFacts ==
  ASSUME hist \in Seq(Records), NEW l \in SUBSET Atoms, NEW r \in Nat, observe(l, r)
  PROVE  /\ hist' \in Seq(Records) /\ action' \in RepairActions
         /\ Len(hist') = Len(hist) + 1 /\ Len(hist) \in Nat
         /\ hist'[Len(hist')] = [lat |-> l, rev |-> r]
         /\ \A i \in 1..Len(hist) : hist'[i] = hist[i]
         /\ action' \in {"Continue", "Rollback"} => Len(hist') < MaxRounds
         /\ action' = "Rollback" => Len(hist') > 1
<1>1. [lat |-> l, rev |-> r] \in Records
  BY DEF Records
<1>2. /\ hist' \in Seq(Records) /\ Len(hist') = Len(hist) + 1 /\ Len(hist) \in Nat
      /\ hist'[Len(hist')] = [lat |-> l, rev |-> r]
      /\ \A i \in 1..Len(hist) : hist'[i] = hist[i]
  BY <1>1 DEF observe
<1>3. action' = decide(hist, l)
  BY DEF observe
<1> QED
  BY <1>2, <1>3, DecideFacts

-----------------------------------------------------------------------------
(* The worktree operations keep its types. *)

\* commit_all leaves a clean tree at a revision.
LEMMA CommitFacts ==
  ASSUME TypeOK, commit_all
  PROVE  head' \in Nat /\ revs' \in Nat /\ dirty' = FALSE
BY DEF TypeOK, commit_all

\* reset_hard moves the head and leaves the rest well typed.
LEMMA ResetFacts ==
  ASSUME TypeOK, NEW r \in Nat, reset_hard(r)
  PROVE  head' = r /\ head' \in Nat /\ revs' \in Nat /\ dirty' \in BOOLEAN
BY DEF TypeOK, reset_hard

\* A check is remembered with the tree it ran on.
LEMMA CheckFacts ==
  ASSUME NEW r \in Reports, NEW c \in BOOLEAN, run_deterministic_checks(r, c),
         head' \in Nat, dirty' \in BOOLEAN
  PROVE  /\ check' \in [rev : Nat, dirty : BOOLEAN, ok : BOOLEAN, committed : BOOLEAN]
         /\ r \in [lat : SUBSET Atoms, parsed : BOOLEAN, ok : BOOLEAN]
         /\ check'.rev = head' /\ check'.dirty = dirty' /\ check'.ok = r.ok
         /\ check'.committed = c
BY DEF Reports, run_deterministic_checks

-----------------------------------------------------------------------------
\* The invariant holds when verification starts.
LEMMA InitInv == Init => IInv
<1> SUFFICES ASSUME Init PROVE IInv
  OBVIOUS
<1>0. hist = <<>> /\ <<>> \in Seq([lat : SUBSET Atoms, rev : Nat]) /\ Len(<<>>) = 0
  BY DEF Init
<1>a. /\ {} \in SUBSET Atoms
      /\ cur \in [lat : SUBSET Atoms, parsed : BOOLEAN, ok : BOOLEAN]
      /\ check \in [rev : Nat, dirty : BOOLEAN, ok : BOOLEAN, committed : BOOLEAN]
  BY DEF Init
<1>b. hist \in Seq([lat : SUBSET Atoms, rev : Nat]) /\ Len(hist) <= MaxRounds + 1
  BY <1>0, BudgetAssumption
<1>1. TypeOK
  BY <1>a, <1>b DEF Init, TypeOK, Phases, RepairActions
<1>2. Rounds /\ TreeMatchesSession /\ Known
  BY BudgetAssumption DEF Init, Rounds, HarnessBudget, TreeMatchesSession, Known
<1> QED
  BY <1>1, <1>2 DEF IInv

\* Every step of the loop, of a crash and of an orphaned verification keeps it.
LEMMA NextInv ==
  ASSUME IInv, [Next]_vars
  PROVE  IInv'
<1> USE BudgetAssumption
<1>0. TypeOK /\ Rounds /\ TreeMatchesSession /\ Known /\ hist \in Seq(Records) /\ Len(hist) \in Nat
  BY DEF IInv, TypeOK, Records
<1>1. CASE FirstCheck
  <2>1. head' \in Nat /\ revs' \in Nat /\ dirty' = FALSE
    BY <1>0, <1>1, CommitFacts DEF FirstCheck
  <2>2. PICK r \in Reports : /\ run_deterministic_checks(r, TRUE) /\ cur' = r /\ passed' = r.ok
                             /\ phase' = IF ~r.ok /\ r.parsed THEN "observe" ELSE "done"
    BY <1>1 DEF FirstCheck
  <2>3. /\ check' \in [rev : Nat, dirty : BOOLEAN, ok : BOOLEAN, committed : BOOLEAN]
        /\ r \in [lat : SUBSET Atoms, parsed : BOOLEAN, ok : BOOLEAN]
    BY <2>1, <2>2, CheckFacts
  <2>4. TypeOK'
    BY <1>0, <1>1, <2>1, <2>2, <2>3 DEF FirstCheck, TypeOK, Phases
  <2>5. Rounds' /\ TreeMatchesSession' /\ Known'
    BY <1>0, <1>1, <2>2 DEF FirstCheck, TypeOK, Rounds, HarnessBudget, TreeMatchesSession, Known
  <2> QED
    BY <2>4, <2>5 DEF IInv
<1>2. CASE Observe
  <2>1. cur.lat \in SUBSET Atoms /\ rev \in Nat /\ observe(cur.lat, rev)
    BY <1>0, <1>2 DEF TypeOK, Observe
  <2>2. /\ hist' \in Seq(Records) /\ action' \in RepairActions
        /\ Len(hist') = Len(hist) + 1 /\ Len(hist) \in Nat
        /\ hist'[Len(hist')] = [lat |-> cur.lat, rev |-> rev]
        /\ action' \in {"Continue", "Rollback"} => Len(hist') < MaxRounds
        /\ action' = "Rollback" => Len(hist') > 1
    BY <1>0, <2>1, ObserveFacts
  <2>3. TypeOK'
    BY <1>0, <1>2, <2>2 DEF Observe, TypeOK, Phases, Rounds, Records
  <2>4. Rounds'
    BY <1>0, <1>2, <2>2 DEF Observe, TypeOK, Rounds, HarnessBudget
  <2>5. TreeMatchesSession' /\ Known'
    BY <1>0, <1>2, <2>2 DEF Observe, TypeOK, TreeMatchesSession, Known
  <2> QED
    BY <2>3, <2>4, <2>5 DEF IInv
<1>3. CASE Accept \/ Stop \/ Continue \/ RollbackFails \/ MicroSkipped \/ MicroUndoFails
  <2>1. TypeOK'
    BY <1>0, <1>3 DEF Accept, Stop, Continue, RollbackFails, MicroSkipped, MicroUndoFails,
                     TypeOK, Phases
  <2>2. Rounds'
    BY <1>0, <1>3 DEF Accept, Stop, Continue, RollbackFails, MicroSkipped, MicroUndoFails,
                     TypeOK, Rounds, HarnessBudget
  <2>3. TreeMatchesSession' /\ Known'
    <3>1. CASE Accept \/ Stop \/ RollbackFails \/ MicroUndoFails
      BY <3>1 DEF Accept, Stop, RollbackFails, MicroUndoFails, TreeMatchesSession, Known
    <3>2. CASE Continue
      <4>1. Len(hist) \in 1..Len(hist)
        BY <1>0, <3>2 DEF Rounds, Continue, TypeOK
      <4> QED
        BY <1>0, <3>2, <4>1 DEF Continue, TreeMatchesSession, Known
    <3>3. CASE MicroSkipped
      BY <1>0, <3>3 DEF MicroSkipped, TreeMatchesSession, Known
    <3> QED
      BY <1>3, <3>1, <3>2, <3>3
  <2> QED
    BY <2>1, <2>2, <2>3 DEF IInv
<1>4. CASE Rollback
  <2>1. Len(hist) - 1 \in 1..Len(hist) /\ Previous \in Records
    BY <1>0, <1>4 DEF Rounds, Rollback, Previous
  <2>2. Previous.rev \in Nat /\ Previous.lat \in SUBSET Atoms
    BY <2>1 DEF Records
  <2>3. head' = Previous.rev /\ head' \in Nat /\ revs' \in Nat /\ dirty' \in BOOLEAN
    BY <1>0, <1>4, <2>2, ResetFacts DEF Rollback
  <2>4. TypeOK'
    BY <1>0, <1>4, <2>2, <2>3 DEF Rollback, TypeOK, Phases
  <2>5. Rounds'
    BY <1>0, <1>4 DEF Rollback, TypeOK, Rounds, HarnessBudget
  <2>6. TreeMatchesSession' /\ Known'
    BY <1>0, <1>4, <2>1, <2>3 DEF Rollback, TreeMatchesSession, Known, Previous
  <2> QED
    BY <2>4, <2>5, <2>6 DEF IInv
<1>5. CASE MicroUnavailable
  <2>1. head' \in Nat /\ revs' \in Nat /\ dirty' \in BOOLEAN
    BY <1>0, <1>5, CommitFacts DEF MicroUnavailable, TypeOK
  <2>2. TypeOK'
    BY <1>0, <1>5, <2>1 DEF MicroUnavailable, TypeOK, Phases
  <2>3. Rounds'
    BY <1>0, <1>5 DEF MicroUnavailable, MicroApplies, TypeOK, Rounds, HarnessBudget
  <2>4. TreeMatchesSession' /\ Known'
    BY <1>0, <1>5 DEF MicroUnavailable, MicroApplies, TreeMatchesSession, Known
  <2> QED
    BY <2>2, <2>3, <2>4 DEF IInv
<1>6. CASE MicroChecked
  <2>1. head' \in Nat /\ revs' \in Nat /\ dirty' = FALSE
    BY <1>0, <1>6, CommitFacts DEF MicroChecked
  <2>2. PICK r \in Reports :
          /\ run_deterministic_checks(r, TRUE) /\ observe(r.lat, head')
          /\ \/ cur' = r /\ rev' = head' /\ phase' = "act"
             \/ phase' = "undo" /\ UNCHANGED <<cur, rev>>
    BY <1>6 DEF MicroChecked
  <2>3. /\ check' \in [rev : Nat, dirty : BOOLEAN, ok : BOOLEAN, committed : BOOLEAN]
        /\ r \in [lat : SUBSET Atoms, parsed : BOOLEAN, ok : BOOLEAN]
    BY <2>1, <2>2, CheckFacts
  <2>4. /\ hist' \in Seq(Records) /\ action' \in RepairActions
        /\ Len(hist') = Len(hist) + 1 /\ Len(hist) \in Nat
        /\ hist'[Len(hist')] = [lat |-> r.lat, rev |-> head']
        /\ \A i \in 1..Len(hist) : hist'[i] = hist[i]
        /\ action' \in {"Continue", "Rollback"} => Len(hist') < MaxRounds
        /\ action' = "Rollback" => Len(hist') > 1
    BY <1>0, <2>1, <2>2, <2>3, ObserveFacts
  <2>5. TypeOK'
    <3>1. Len(hist') <= MaxRounds + 1
      BY <1>0, <1>6, <2>4 DEF MicroChecked, MicroApplies, Rounds
    <3>2. /\ cur' \in [lat : SUBSET Atoms, parsed : BOOLEAN, ok : BOOLEAN]
          /\ rev' \in Nat /\ phase' \in Phases
      BY <1>0, <2>1, <2>2, <2>3 DEF TypeOK, Phases
    <3>3. before' \in SUBSET Atoms /\ passed' \in BOOLEAN /\ heavy' \in Nat
      BY <1>0, <1>6 DEF MicroChecked, TypeOK
    <3> QED
      BY <2>1, <2>3, <2>4, <3>1, <3>2, <3>3 DEF TypeOK, Records
  <2>6. Rounds'
    BY <1>0, <1>6, <2>2, <2>4 DEF MicroChecked, MicroApplies, TypeOK, Rounds, HarnessBudget
  <2>7. TreeMatchesSession'
    BY <1>0, <1>6, <2>2 DEF MicroChecked, TreeMatchesSession
  <2>8. Known'
    <3>1. PICK i \in 1..Len(hist) : hist[i].rev = rev /\ hist[i].lat = before
      BY <1>0, <1>6 DEF MicroChecked, MicroApplies, Known
    <3>2. i \in 1..Len(hist') /\ hist'[i] = hist[i] /\ before' = before
      BY <1>6, <2>4, <3>1 DEF MicroChecked
    <3> QED
      BY <2>2, <2>4, <3>1, <3>2 DEF Known
  <2> QED
    BY <2>5, <2>6, <2>7, <2>8 DEF IInv
<1>7. CASE MicroUndo
  <2>1. head' = rev /\ head' \in Nat /\ revs' \in Nat /\ dirty' \in BOOLEAN
    BY <1>0, <1>7, ResetFacts DEF MicroUndo, TypeOK
  <2>2. TypeOK'
    BY <1>0, <1>7, <2>1 DEF MicroUndo, TypeOK, Phases
  <2>3. Rounds' /\ TreeMatchesSession' /\ Known'
    BY <1>0, <1>7, <2>1 DEF MicroUndo, TypeOK, Rounds, HarnessBudget, TreeMatchesSession, Known
  <2> QED
    BY <2>2, <2>3 DEF IInv
<1>8. CASE HeavyChecked
  <2>1. head' \in Nat /\ revs' \in Nat /\ dirty' = FALSE
    BY <1>0, <1>8, CommitFacts DEF HeavyChecked
  <2>2. PICK r \in Reports : /\ run_deterministic_checks(r, TRUE) /\ cur' = r
                             /\ phase' = IF r.parsed THEN "observe" ELSE "done"
    BY <1>8 DEF HeavyChecked
  <2>3. /\ check' \in [rev : Nat, dirty : BOOLEAN, ok : BOOLEAN, committed : BOOLEAN]
        /\ r \in [lat : SUBSET Atoms, parsed : BOOLEAN, ok : BOOLEAN]
    BY <2>1, <2>2, CheckFacts
  <2>4. TypeOK'
    <3>1. cur' \in [lat : SUBSET Atoms, parsed : BOOLEAN, ok : BOOLEAN] /\ phase' \in Phases
      BY <2>2, <2>3 DEF Phases
    <3>2. heavy' \in Nat
      BY <1>0, <1>8 DEF HeavyChecked, TypeOK
    <3>3. /\ before' \in SUBSET Atoms /\ passed' \in BOOLEAN /\ action' \in RepairActions
          /\ rev' = head' /\ hist' = hist
      BY <1>0, <1>8 DEF HeavyChecked, TypeOK
    <3> QED
      BY <1>0, <2>1, <2>3, <3>1, <3>2, <3>3 DEF TypeOK
  <2>5. Rounds' /\ TreeMatchesSession' /\ Known'
    BY <1>0, <1>8, <2>2 DEF HeavyChecked, TypeOK, Rounds, HarnessBudget, TreeMatchesSession, Known
  <2> QED
    BY <2>4, <2>5 DEF IInv
<1>9. CASE HeavyFails
  <2>1. head' \in Nat /\ revs' \in Nat /\ dirty' \in BOOLEAN
    BY <1>0, <1>9, CommitFacts DEF HeavyFails, TypeOK
  <2>2. TypeOK'
    BY <1>0, <1>9, <2>1 DEF HeavyFails, TypeOK, Phases
  <2>3. Rounds' /\ TreeMatchesSession' /\ Known'
    BY <1>0, <1>9 DEF HeavyFails, TypeOK, Rounds, HarnessBudget, TreeMatchesSession, Known
  <2> QED
    BY <2>2, <2>3 DEF IInv
<1>10. CASE Crash
  <2>1. TypeOK'
    BY <1>0, <1>10 DEF Crash, TypeOK, Phases
  <2>2. Rounds' /\ TreeMatchesSession' /\ Known'
    BY <1>0, <1>10 DEF Crash, TypeOK, Rounds, HarnessBudget, TreeMatchesSession, Known
  <2> QED
    BY <2>1, <2>2 DEF IInv
<1>11. CASE OrphanCheck
  <2>1. head' \in Nat /\ revs' \in Nat /\ dirty' \in BOOLEAN
    BY <1>0, <1>11, CommitFacts DEF OrphanCheck, TypeOK
  <2>2. PICK r \in Reports : /\ \E c \in BOOLEAN : run_deterministic_checks(r, c)
                             /\ cur' = r /\ passed' = r.ok
    BY <1>11 DEF OrphanCheck
  <2>3. /\ check' \in [rev : Nat, dirty : BOOLEAN, ok : BOOLEAN, committed : BOOLEAN]
        /\ r \in [lat : SUBSET Atoms, parsed : BOOLEAN, ok : BOOLEAN]
    BY <2>1, <2>2, CheckFacts
  <2>4. TypeOK'
    BY <1>0, <1>11, <2>1, <2>2, <2>3 DEF OrphanCheck, TypeOK, Phases
  <2>5. Rounds' /\ TreeMatchesSession' /\ Known'
    BY <1>0, <1>11 DEF OrphanCheck, Rounds, HarnessBudget, TreeMatchesSession, Known
  <2> QED
    BY <2>4, <2>5 DEF IInv
<1>12. CASE UNCHANGED vars
  BY <1>0, <1>12 DEF vars, IInv, TypeOK, Rounds, HarnessBudget, TreeMatchesSession, Known
<1> QED
  BY <1>1, <1>2, <1>3, <1>4, <1>5, <1>6, <1>7, <1>8, <1>9, <1>10, <1>11, <1>12 DEF Next, Repair

-----------------------------------------------------------------------------
\* The inductive invariant of the repair loop: types, how far each phase is
\* through its budget, the tree, and the record the next prompt is made from.
THEOREM RepairInvariant == Spec => []IInv
<1>1. IInv /\ [Next]_vars => IInv'
  BY NextInv
<1> QED
  BY <1>1, InitInv, PTL DEF Spec

\* Every reachable state of the repair loop is type correct, and no session
\* makes more than one observation over max_rounds.
THEOREM RepairTypeCorrect == Spec => []TypeOK
<1>1. IInv => TypeOK
  BY DEF IInv
<1> QED
  BY <1>1, RepairInvariant, PTL

\* Whatever is rolled back, undone or lost, the branch is at current_revision
\* whenever a result is observed or an edit is asked for.
THEOREM TreeTheorem == Spec => []TreeMatchesSession
<1>1. IInv => TreeMatchesSession
  BY DEF IInv
<1> QED
  BY <1>1, RepairInvariant, PTL

\* The lattice in the repair prompt is that of the tree the harness gets.
THEOREM PromptTheorem == Spec => []PromptMatchesTree
<1>1. IInv => PromptMatchesTree
  BY DEF IInv, TreeMatchesSession, Known, PromptMatchesTree
<1> QED
  BY <1>1, RepairInvariant, PTL

\* For every max_rounds, the harness is asked at most max_rounds - 1 more times.
THEOREM BudgetTheorem == Spec => []HarnessBudget
<1>1. IInv => HarnessBudget
  BY DEF IInv, Rounds
<1> QED
  BY <1>1, RepairInvariant, PTL

-----------------------------------------------------------------------------
\* While a result is pending, the last check ran on the committed head and the
\* rows are its rows; a verdict is only ever given at the end.
Verdict ==
  /\ phase \in {"observe", "act"} =>
       check.rev = head /\ ~check.dirty /\ check.ok = cur.ok
  /\ passed => phase = "done"
  /\ VerdictIsAboutHead

\* A passing verdict is about exactly the tree at the head of the branch,
\* micro-repairs, rollbacks, crashes and orphaned verifications included,
\* unless a restarted driver's commit failed and its error was dropped.
THEOREM VerdictTheorem == Spec => []VerdictIsAboutHead
<1>1. Init => Verdict
  BY DEF Init, Verdict, VerdictIsAboutHead
<1>2. IInv /\ Verdict /\ [Next]_vars => Verdict'
  <2> SUFFICES ASSUME IInv, Verdict, [Next]_vars PROVE Verdict'
    OBVIOUS
  <2>0. TypeOK
    BY DEF IInv
  <2>1. CASE FirstCheck
    <3>1. head' \in Nat /\ dirty' = FALSE
      BY <2>0, <2>1, CommitFacts DEF FirstCheck
    <3>2. PICK r \in Reports : run_deterministic_checks(r, TRUE) /\ cur' = r /\ passed' = r.ok
                               /\ phase' = IF ~r.ok /\ r.parsed THEN "observe" ELSE "done"
      BY <2>1 DEF FirstCheck
    <3>3. check'.rev = head' /\ check'.dirty = dirty' /\ check'.ok = r.ok
      BY <3>1, <3>2, CheckFacts
    <3> QED
      BY <3>1, <3>2, <3>3 DEF Verdict, VerdictIsAboutHead
  <2>2. CASE \/ Observe \/ Accept \/ Stop \/ Continue \/ RollbackFails
             \/ MicroSkipped \/ MicroUndoFails
    BY <2>2 DEF Observe, Accept, Stop, Continue, RollbackFails, MicroSkipped,
                MicroUndoFails, Verdict, VerdictIsAboutHead
  <2>3. CASE Rollback \/ MicroUnavailable \/ MicroUndo \/ HeavyFails \/ Crash
    <3>1. phase # "done" /\ phase' \notin {"observe", "act"} /\ passed' = passed
      BY <2>3 DEF Rollback, MicroUnavailable, MicroApplies, MicroUndo, HeavyFails, Crash
    <3> QED
      BY <3>1 DEF Verdict, VerdictIsAboutHead
  <2>4. CASE MicroChecked
    <3>1. head' \in Nat /\ dirty' = FALSE
      BY <2>0, <2>4, CommitFacts DEF MicroChecked
    <3>2. PICK r \in Reports : /\ run_deterministic_checks(r, TRUE)
                               /\ cur' = r \/ phase' = "undo"
      BY <2>4 DEF MicroChecked
    <3>3. check'.rev = head' /\ check'.dirty = dirty' /\ check'.ok = r.ok
      BY <3>1, <3>2, CheckFacts
    <3>4. ~passed /\ passed' = passed
      BY <2>4 DEF MicroChecked, MicroApplies, Verdict
    <3> QED
      BY <3>1, <3>2, <3>3, <3>4 DEF Verdict, VerdictIsAboutHead
  <2>5. CASE HeavyChecked
    <3>1. head' \in Nat /\ dirty' = FALSE
      BY <2>0, <2>5, CommitFacts DEF HeavyChecked
    <3>2. PICK r \in Reports : run_deterministic_checks(r, TRUE) /\ cur' = r
      BY <2>5 DEF HeavyChecked
    <3>3. check'.rev = head' /\ check'.dirty = dirty' /\ check'.ok = r.ok
      BY <3>1, <3>2, CheckFacts
    <3>4. ~passed /\ passed' = passed
      BY <2>5 DEF HeavyChecked, Verdict
    <3> QED
      BY <3>1, <3>2, <3>3, <3>4 DEF Verdict, VerdictIsAboutHead
  <2>6. CASE OrphanCheck
    <3>1. phase' = "done" /\ head' \in Nat /\ dirty' \in BOOLEAN
      BY <2>0, <2>6, CommitFacts DEF OrphanCheck, TypeOK
    <3>2. PICK r \in Reports :
            /\ \/ commit_all /\ run_deterministic_checks(r, TRUE)
               \/ run_deterministic_checks(r, FALSE)
            /\ passed' = r.ok
      BY <2>6 DEF OrphanCheck
    <3>3. CASE commit_all /\ run_deterministic_checks(r, TRUE)
      <4>1. dirty' = FALSE
        BY <2>0, <3>3, CommitFacts
      <4>2. check'.rev = head' /\ check'.dirty = dirty' /\ check'.ok = r.ok
        BY <3>1, <3>3, CheckFacts
      <4> QED
        BY <3>1, <3>2, <4>1, <4>2 DEF Verdict, VerdictIsAboutHead
    <3>4. CASE run_deterministic_checks(r, FALSE)
      <4>1. check'.rev = head' /\ check'.ok = r.ok /\ check'.committed = FALSE
        BY <3>1, <3>4, CheckFacts
      <4> QED
        BY <3>1, <3>2, <4>1 DEF Verdict, VerdictIsAboutHead
    <3> QED
      BY <3>2, <3>3, <3>4
  <2>7. CASE UNCHANGED vars
    BY <2>7 DEF vars, Verdict, VerdictIsAboutHead
  <2> QED
    BY <2>1, <2>2, <2>3, <2>4, <2>5, <2>6, <2>7 DEF Next, Repair
<1>3. Verdict => VerdictIsAboutHead
  BY DEF Verdict
<1> QED
  BY <1>1, <1>2, <1>3, RepairInvariant, PTL DEF Spec

-----------------------------------------------------------------------------
(* Routing                                                                 *)

-----------------------------------------------------------------------------
(* The inductive invariant *)

Row == [breaker : {"Closed", "Open"}, opened_at : Nat, cooldown : Nat]
Counts == [success : Nat, failure : Nat]
Answers == [kind : {"none", "fault", "exhausted", "counted", "passed", "failed"},
            after : Nat, at : Nat]
Places == {"start", "select", "dispatch", "invoke", "collect", "poll", "quota",
           "save", "opened", "resave", "count", "fail", "verify", "repair",
           "recheck", "append", "idle", "gone", "absent"}
TaskStates == {"Ready", "Running", "Verifying", "Failed", "Passed"}

(* The places at which an actor holds a candidate.                         *)
Holding == {"dispatch", "invoke", "collect", "poll", "quota", "save", "opened",
            "resave", "count", "fail", "verify", "repair", "recheck", "append"}

(* What the variables range over: what all share, what the drivers do to   *)
(* their tasks, what an actor remembers, and the history.                  *)
SharedTyped ==
  /\ config \in Configs /\ load(config) /\ now \in 0 .. MaxTime
  /\ quota \in [Harnesses -> Row]
  /\ feedback \in [Harnesses -> [Tiers -> Counts]]
TasksTyped ==
  /\ task \in [Drivers -> TaskStates] /\ rows \in [Drivers -> Seq(Harnesses)]
  /\ pc \in [Actors -> Places]
LocalTyped ==
  /\ snap \in [Actors -> [Harnesses -> Row]]
  /\ selected \in [Actors -> SUBSET Harnesses]
  /\ cand \in [Actors -> Harnesses \cup {None}]
  /\ err \in [Actors -> Answers]
  /\ seen \in [Actors -> [Harnesses -> Nat]]
HistoryTyped ==
  /\ due \in [Harnesses -> Nat]
  /\ settled \in [Harnesses -> [Tiers -> Nat]]
  /\ faults \in Nat /\ deaths \in Nat

Typed == SharedTyped /\ TasksTyped /\ LocalTyped /\ HistoryTyped

(* A row of the quota table or of a snapshot honours the end e of a        *)
(* cooldown, if there is one to honour: half a second may be lost.         *)
Promises(q, e) == e > 0 => q.breaker = "Open" /\ End(q) + 1 >= e

(* The rows kept, and the rows an actor is about to select by.             *)
Kept ==
  \A h \in Harnesses :
    quota[h].opened_at <= now /\ (~Recording(h) => Promises(quota[h], due[h]))
Loaded(a) ==
  pc[a] = "select" => \A h \in Harnesses : Promises(snap[a][h], seen[a][h])

(* The row a driver is about to save lasts as long as the harness asked:   *)
(* it is opened when it is taken down, which is after the answer.          *)
Answered(d) ==
  \A h \in Harnesses : TakesDown(d, h) =>
    due[h] <= err[d].after + IF pc[d] \in {"save", "resave"} THEN err[d].at ELSE now

(* The candidate an actor works with, and the answer it is working off.    *)
Held(a) ==
  /\ pc[a] \in Holding => cand[a] \in Harnesses
  /\ pc[a] \in {"dispatch", "invoke", "collect"} => cand[a] \in selected[a]
  /\ pc[a] \in {"save", "resave"} => err[a].kind = "exhausted" /\ err[a].at <= now
  /\ pc[a] = "count" => err[a].kind = "counted"

Waited(a) == pc[a] \in {"dispatch", "invoke"} => now + 1 >= seen[a][cand[a]]

AtWork(a) == Loaded(a) /\ Held(a) /\ Waited(a)

(* A ready task has a row left to write, and a driver on its way to one    *)
(* has a ready task; with a worker at work the row is there.               *)
Retried(d) ==
  /\ Len(rows[d]) <= MaxRetries \/ Len(rows[d]) = 1
  /\ task[d] = "Ready" => Len(rows[d]) < MaxRetries \/ rows[d] = <<>>
  /\ pc[d] \in {"select", "dispatch"} => task[d] = "Ready"
  /\ task[d] = "Verifying" \/ pc[d] \in {"invoke", "collect", "poll"} => rows[d] # <<>>

(* The drivers with a result of one count that is not logged yet.          *)
Awaited(h, t) == {d \in Drivers : Pending(d) /\ cand[d] = h /\ Tier(d) = t}

RoutingInv ==
  /\ Typed /\ Kept /\ CountedOnce
  /\ \A a \in Actors : AtWork(a)
  /\ \A d \in Drivers : Retried(d) /\ Answered(d)

-----------------------------------------------------------------------------
\* A set of naturals that is not empty has a least element.
LEMMA LeastNatural ==
  ASSUME NEW T \in SUBSET Nat, T # {}
  PROVE  \E x \in T : \A y \in T : x <= y
<1> DEFINE R == {ss \in Nat \X Nat : ss[1] < ss[2]}
<1>1. IsWellFoundedOn(R, Nat)
  BY NatLessThanWellFounded DEF OpToRel
<1>2. \A x, y \in Nat : <<y, x>> \in R <=> y < x
  OBVIOUS
<1> HIDE DEF R
<1>3. PICK x \in T : \A y \in T : <<y, x>> \notin R
  BY <1>1, WFMin
<1>4. ASSUME NEW y \in T PROVE x <= y
  <2>1. x \in Nat /\ y \in Nat
    OBVIOUS
  <2>2. ~(y < x)
    BY <1>2, <1>3, <2>1
  <2> QED BY <2>1, <2>2
<1> QED
  BY <1>4

\* A finite set that is strictly ordered has a first element.
LEMMA FirstOfOrder ==
  ASSUME NEW S, IsFiniteSet(S), S # {}, NEW R,
         \A x, y \in S : x # y => <<x, y>> \in R \/ <<y, x>> \in R,
         \A x, y, z \in S : <<x, y>> \in R /\ <<y, z>> \in R => <<x, z>> \in R
  PROVE  \E x \in S : \A y \in S \ {x} : <<x, y>> \in R
<1> DEFINE First(T) == \E x \in T : \A y \in T \ {x} : <<x, y>> \in R
           Sizes == {Cardinality(T) : T \in {U \in SUBSET S : U # {} /\ ~First(U)}}
<1>1. \A T \in SUBSET S : IsFiniteSet(T) /\ Cardinality(T) \in Nat
  BY FS_Subset, FS_CardinalityType
<1>2. SUFFICES ASSUME Sizes # {} PROVE FALSE
  OBVIOUS
<1>3. Sizes \in SUBSET Nat
  BY <1>1
<1>4. PICK n \in Sizes : \A m \in Sizes : n <= m
  BY <1>2, <1>3, LeastNatural
<1>5. PICK T \in SUBSET S : T # {} /\ ~First(T) /\ Cardinality(T) = n
  BY <1>4
<1>6. PICK x \in T : TRUE
  BY <1>5
<1>7. Cardinality(T \ {x}) = Cardinality(T) - 1
  BY <1>1, <1>6, FS_RemoveElement
<1>8. T \ {x} \in SUBSET S /\ Cardinality(T \ {x}) \notin Sizes
  <2>1. n \in Nat /\ Cardinality(T \ {x}) = n - 1 /\ n - 1 < n
    BY <1>1, <1>5, <1>7
  <2>2. n - 1 \notin Sizes
    BY <1>4, <2>1
  <2> QED BY <2>1, <2>2
<1>9. T \ {x} = {} \/ First(T \ {x})
  BY <1>8
<1>10. CASE T \ {x} = {}
  BY <1>5, <1>6, <1>10
<1>11. CASE First(T \ {x})
  <2>1. PICK y \in T \ {x} : \A z \in (T \ {x}) \ {y} : <<y, z>> \in R
    BY <1>11
  <2>2. CASE <<y, x>> \in R
    BY <1>5, <2>1, <2>2
  <2>3. CASE <<x, y>> \in R
    <3>1. \A z \in T \ {x} : <<x, z>> \in R
      BY <1>5, <2>1, <2>3
    <3> QED BY <1>5, <1>6, <3>1
  <2> QED BY <1>6, <2>1, <2>2, <2>3
<1> QED
  BY <1>9, <1>10, <1>11

-----------------------------------------------------------------------------
(* Rows, answers and counts *)

LEMMA RowFacts ==
  /\ Closed \in Row
  /\ \A t, r \in Nat : Stored(on_capacity_exhausted(t, r)) \in Row
<1>1. \A t \in Nat : 2 * (t \div 2) \in Nat
  OBVIOUS
<1> QED
  BY <1>1 DEF Closed, Row, Stored, on_capacity_exhausted

\* Storing whole seconds loses at most one half second.
LEMMA StoredFacts ==
  ASSUME NEW t \in Nat, NEW r \in Nat
  PROVE  LET q == Stored(on_capacity_exhausted(t, r))
         IN  q.opened_at <= t /\ \A e \in Nat : e <= t + r => Promises(q, e)
<1> DEFINE q == Stored(on_capacity_exhausted(t, r))
<1>1. 2 * (t \div 2) \in {t - 1, t}
  OBVIOUS
<1>2. q.breaker = "Open" /\ q.cooldown = r /\ q.opened_at \in {t - 1, t}
  BY <1>1 DEF Stored, on_capacity_exhausted
<1> QED
  BY <1>2 DEF Promises, End

LEMMA AnswerFacts ==
  /\ Silent \in Answers /\ Fault \in Answers /\ Errors \subseteq Answers
  /\ Answer("counted", 0) \in Answers
  /\ Answer("passed", 0) \in Answers /\ Answer("failed", 0) \in Answers
  /\ \A e \in Answers, t \in Nat : [e EXCEPT !.at = t] \in Answers
  /\ \A e \in Errors : e.kind \in {"fault", "exhausted"} /\ e.after \in Nat
BY RoutingConstants DEF Silent, Fault, Errors, Answer, Answers

\* One result is one count more, and touches no other.
LEMMA OutcomeFacts ==
  ASSUME feedback \in [Harnesses -> [Tiers -> Counts]],
         NEW h \in Harnesses, NEW t \in Tiers, NEW success \in BOOLEAN
  PROVE  /\ record_outcome(h, t, success) \in [Harnesses -> [Tiers -> Counts]]
         /\ \A g \in Harnesses, u \in Tiers :
              Pulls(record_outcome(h, t, success)[g][u]) =
                Pulls(feedback[g][u]) + IF g = h /\ u = t THEN 1 ELSE 0
<1> DEFINE row == [feedback[h] EXCEPT ![t] =
                     [success |-> @.success + IF success THEN 1 ELSE 0,
                      failure |-> @.failure + IF success THEN 0 ELSE 1]]
<1>1. record_outcome(h, t, success) = [feedback EXCEPT ![h] = row]
  BY DEF record_outcome
<1>2. row \in [Tiers -> Counts]
  BY DEF Counts
<1>3. \A u \in Tiers : Pulls(row[u]) = Pulls(feedback[h][u]) + IF u = t THEN 1 ELSE 0
  BY DEF Pulls, Counts
<1> HIDE DEF row
<1>4. record_outcome(h, t, success) \in [Harnesses -> [Tiers -> Counts]]
  BY <1>1, <1>2
<1>5. ASSUME NEW g \in Harnesses, NEW u \in Tiers
      PROVE  Pulls(record_outcome(h, t, success)[g][u]) =
               Pulls(feedback[g][u]) + IF g = h /\ u = t THEN 1 ELSE 0
  <2>1. Pulls(feedback[g][u]) \in Nat
    BY DEF Pulls, Counts
  <2>2. CASE g = h
    BY <1>1, <1>3, <2>2
  <2>3. CASE g # h
    <3>1. record_outcome(h, t, success)[g] = feedback[g]
      BY <1>1, <2>3
    <3> QED BY <2>1, <2>3, <3>1
  <2> QED BY <2>2, <2>3
<1> QED
  BY <1>4, <1>5

\* The same of a plain counter.
LEMMA IncrementFacts ==
  ASSUME NEW f \in [Harnesses -> [Tiers -> Nat]], NEW h \in Harnesses, NEW t \in Tiers
  PROVE  /\ [f EXCEPT ![h][t] = @ + 1] \in [Harnesses -> [Tiers -> Nat]]
         /\ \A g \in Harnesses, u \in Tiers :
              [f EXCEPT ![h][t] = @ + 1][g][u] = f[g][u] + IF g = h /\ u = t THEN 1 ELSE 0
<1> DEFINE row == [f[h] EXCEPT ![t] = @ + 1]
           new == [f EXCEPT ![h][t] = @ + 1]
<1>1. new = [f EXCEPT ![h] = row]
  OBVIOUS
<1>2. row \in [Tiers -> Nat] /\ \A u \in Tiers : row[u] = f[h][u] + IF u = t THEN 1 ELSE 0
  OBVIOUS
<1> HIDE DEF row, new
<1>3. new \in [Harnesses -> [Tiers -> Nat]]
  BY <1>1, <1>2
<1>4. ASSUME NEW g \in Harnesses, NEW u \in Tiers
      PROVE  new[g][u] = f[g][u] + IF g = h /\ u = t THEN 1 ELSE 0
  <2>1. f[g][u] \in Nat
    OBVIOUS
  <2>2. CASE g = h
    BY <1>1, <1>2, <2>2
  <2>3. CASE g # h
    BY <1>1, <2>1, <2>3
  <2> QED BY <2>2, <2>3
<1> QED
  BY <1>3, <1>4 DEF new

-----------------------------------------------------------------------------
(* Selection *)

\* The candidates are configured harnesses, and their places tell them apart.
LEMMA CandidatesKnown ==
  ASSUME Typed
  PROVE  /\ Candidates \in Seq(Harnesses) /\ Range(Candidates) \subseteq Harnesses
         /\ \A g \in Range(Candidates) : Place(g) \in Nat /\ Candidates[Place(g)] = g
         /\ \A a \in Actors : Pool(a) \subseteq Range(Candidates) /\ Tier(a) \in Tiers
<1>1. Candidates \in Seq(Harnesses)
  BY RoutingConstants DEF Typed, SharedTyped, Candidates
<1>2. Range(Candidates) \subseteq Harnesses
  BY <1>1 DEF Range
<1>3. ASSUME NEW g \in Range(Candidates)
      PROVE  Place(g) \in Nat /\ Candidates[Place(g)] = g
  <2>1. \E i \in DOMAIN Candidates : Candidates[i] = g
    BY DEF Range
  <2>2. Place(g) \in DOMAIN Candidates /\ Candidates[Place(g)] = g
    BY <2>1 DEF Place
  <2> QED BY <1>1, <2>2
<1>4. ASSUME NEW a \in Actors
      PROVE  Pool(a) \subseteq Range(Candidates) /\ Tier(a) \in Tiers
  BY RoutingConstants DEF Typed, SharedTyped, load, Pool, Tier, planner_pool, Actors, Tiers
<1> QED
  BY <1>1, <1>2, <1>3, <1>4

LEMMA CountInInterval ==
  ASSUME NEW n \in Int, NEW T \in SUBSET (1 .. n)
  PROVE  Cardinality(T) \in Nat
<1>1. IsFiniteSet(1 .. n)
  BY FS_Interval
<1>2. IsFiniteSet(T)
  BY <1>1, FS_Subset
<1> QED
  BY <1>2, FS_CardinalityType

\* Scores can be compared, whatever has been counted.
LEMMA ScoreIsInt ==
  ASSUME Typed, NEW a \in Actors, NEW h \in Harnesses
  PROVE  Score(a, h) \in Int
<1> DEFINE c == feedback[h][Tier(a)]
<1>1. c.success \in Nat /\ c.failure \in Nat
  BY CandidatesKnown DEF Typed, SharedTyped, Counts
<1> HIDE DEF c
<1>2. HistoricalSuccessSignal(c) \in Int
  <2>1. 1000 * c.success \in Int /\ Pulls(c) \in Nat
    BY <1>1 DEF Pulls
  <2> QED BY <2>1 DEF HistoricalSuccessSignal
<1>3. RestlessBanditSignal(c) \in Int
  <2> DEFINE roots == {s \in 1 .. 700 : s * s * (Pulls(c) + 1) <= 490000}
  <2>1. roots \in SUBSET (1 .. 700) /\ 700 \in Int
    OBVIOUS
  <2> HIDE DEF roots
  <2>2. Cardinality(roots) \in Nat
    BY ONLY <2>1, CountInInterval
  <2> QED BY <2>2 DEF RestlessBanditSignal, roots
<1>4. TierEfficiencySignal(Tier(a), config.harnesses[h].model_tier) \in Int
  BY DEF TierEfficiencySignal
<1> QED
  BY <1>2, <1>3, <1>4 DEF Score, c

\* `select` ranks any candidates it is given: one is best, and it is ahead of all others in
\* the order of scores and configuration, whatever has been counted.
THEOREM BestIsOne ==
  ASSUME Typed, NEW a \in Actors, NEW S \in SUBSET Pool(a), S # {}
  PROVE  /\ Best(a, S) \in S
         /\ \A h \in S \ {Best(a, S)} : Before(a, Best(a, S), h)
<1> DEFINE R == {pr \in S \X S : Before(a, pr[1], pr[2])}
<1>1. /\ S \subseteq Harnesses /\ IsFiniteSet(S)
      /\ \A g \in S : Score(a, g) \in Int /\ Place(g) \in Nat /\ Candidates[Place(g)] = g
  BY CandidatesKnown, ScoreIsInt, RoutingConstants, FS_Subset
<1>2. \A g, h \in S : <<g, h>> \in R <=> Before(a, g, h)
  OBVIOUS
<1>3. \A g, h \in S : g # h => Before(a, g, h) \/ Before(a, h, g)
  BY <1>1 DEF Before
<1>4. \A f, g, h \in S : Before(a, f, g) /\ Before(a, g, h) => Before(a, f, h)
  BY <1>1 DEF Before
<1> HIDE DEF R
<1>5. \E g \in S : \A h \in S \ {g} : <<g, h>> \in R
  BY <1>1, <1>2, <1>3, <1>4, FirstOfOrder
<1>6. \E g \in S : \A h \in S \ {g} : Before(a, g, h)
  BY <1>2, <1>5
<1> QED
  BY <1>6 DEF Best

\* What an actor goes to work with passed the three filters of `select`.
LEMMA SelectedPasses ==
  ASSUME Typed, NEW a \in Actors, Select(a)
  PROVE  /\ cand' = [cand EXCEPT ![a] = cand'[a]]
         /\ cand'[a] \in select(a) /\ select(a) \subseteq Harnesses
         /\ is_available(snap[a][cand'[a]], now)
<1>1. select(a) \subseteq Pool(a) /\ select(a) # {} /\ select(a) \subseteq Harnesses
  BY CandidatesKnown DEF select, Select
<1>2. Best(a, select(a)) \in select(a)
  BY <1>1, BestIsOne
<1>3. Pick(a, select(a), Range(rows[a])) \in select(a)
  <2>1. CASE select(a) \subseteq Range(rows[a])
    BY <1>2, <2>1 DEF Pick
  <2>2. CASE ~(select(a) \subseteq Range(rows[a]))
    <3>1. select(a) \ Range(rows[a]) # {} /\ select(a) \ Range(rows[a]) \subseteq Pool(a)
      BY <1>1, <2>2
    <3> QED BY <2>2, <3>1, BestIsOne DEF Pick
  <2> QED BY <2>1, <2>2
<1>4. cand' = [cand EXCEPT ![a] = cand'[a]] /\ cand'[a] \in select(a)
  BY <1>2, <1>3 DEF Select, Typed, LocalTyped
<1> QED
  BY <1>1, <1>4 DEF select, Passes

\* An actor at work has a candidate, and a count to put its result in.
LEMMA CandidateHeld ==
  ASSUME RoutingInv, NEW a \in Actors, pc[a] \in Holding
  PROVE  cand[a] \in Harnesses /\ Tier(a) \in Tiers
BY CandidatesKnown DEF RoutingInv, AtWork, Held

(* A step of one actor leaves the others and their tasks alone.            *)
Others(x) ==
  /\ UNCHANGED <<config, now>>
  /\ \A b \in Actors \ {x} :
       /\ pc'[b] = pc[b] /\ cand'[b] = cand[b] /\ err'[b] = err[b]
       /\ selected'[b] = selected[b] /\ snap'[b] = snap[b] /\ seen'[b] = seen[b]
  /\ \A d \in Drivers \ {x} : task'[d] = task[d] /\ rows'[d] = rows[d]

-----------------------------------------------------------------------------
\* Forgetting leaves the actor's memory empty, and of the right shape.
LEMMA ForgetTyped ==
  ASSUME LocalTyped, NEW a \in Actors, Forget(a)
  PROVE  LocalTyped'
BY RowFacts, AnswerFacts DEF LocalTyped, Forget

\* Loading leaves a driver with the rows that were read.
LEMMA TakeFacts ==
  ASSUME NEW a, Load(a)
  PROVE  \E rowsRead \in SUBSET Harnesses :
           /\ snap' = [snap EXCEPT ![a] =
                [h \in Harnesses |-> IF h \in rowsRead THEN quota[h] ELSE Closed]]
           /\ seen' = [seen EXCEPT ![a] =
                [h \in Harnesses |-> IF h \in rowsRead THEN Owed(h) ELSE 0]]
<1>1. \E found : \E rowsRead \in SUBSET Harnesses : Take(a, found, rowsRead)
  <2>1. CASE Take(a, Pool(a), Harnesses)
    BY <2>1
  <2>2. CASE \E found \in SUBSET Pool(a), rowsRead \in SUBSET Harnesses : Take(a, found, rowsRead)
    BY <2>2
  <2> QED BY <2>1, <2>2 DEF Load
<1> QED
  BY <1>1 DEF Take

\* Hearing an answer sets when its harness is due, for no other later than it was.
LEMMA HearFacts ==
  ASSUME Typed, NEW d \in Drivers, cand[d] \in Harnesses, NEW e \in Errors, Hear(d, e)
  PROVE  /\ err' = [err EXCEPT ![d] = e] /\ err' \in [Actors -> Answers]
         /\ due' \in [Harnesses -> Nat]
         /\ \A h \in Harnesses : h # cand[d] => due'[h] = due[h]
         /\ e.kind # "exhausted" => due' = due
         /\ e.kind = "exhausted" => due'[cand[d]] <= now + e.after
         /\ Recording(cand[d]) => due'[cand[d]] <= due[cand[d]]
<1>1. /\ err \in [Actors -> Answers] /\ due \in [Harnesses -> Nat] /\ now \in Nat
      /\ e \in Answers /\ e.after \in Nat
  BY AnswerFacts DEF Typed, LocalTyped, HistoryTyped, SharedTyped
<1> DEFINE h == cand[d]
           end == now + e.after
           new == IF Recording(h) /\ due[h] <= end THEN due[h] ELSE end
<1>2. /\ err' = [err EXCEPT ![d] = e]
      /\ due' = IF e.kind # "exhausted" THEN due ELSE [due EXCEPT ![h] = new]
  BY DEF Hear
<1>3. new \in Nat /\ new <= end /\ (Recording(h) => new <= due[h])
  BY <1>1
<1> HIDE DEF new, end
<1>4. err' \in [Actors -> Answers]
  BY <1>1, <1>2
<1>5. CASE e.kind # "exhausted"
  BY <1>1, <1>2, <1>4, <1>5
<1>6. CASE e.kind = "exhausted"
  <2>1. due' = [due EXCEPT ![h] = new]
    BY <1>2, <1>6
  <2> QED BY <1>1, <1>2, <1>3, <1>4, <1>6, <2>1 DEF end
<1> QED
  BY <1>5, <1>6

\* Every step keeps the variables in their ranges.
LEMMA TypedStep ==
  ASSUME RoutingInv, [RoutingNext]_routingVars
  PROVE  Typed'
<1> USE RoutingConstants DEF Actors
<1>0. SharedTyped /\ TasksTyped /\ LocalTyped /\ HistoryTyped
  BY DEF RoutingInv, Typed
<1> SUFFICES SharedTyped' /\ TasksTyped' /\ LocalTyped' /\ HistoryTyped'
  BY DEF Typed
<1>1. CASE UNCHANGED routingVars
  BY <1>0, <1>1 DEF routingVars, tables, local, history, bounds, SharedTyped, TasksTyped, LocalTyped,
      HistoryTyped
<1>2. CASE Tick
  BY <1>0, <1>2 DEF Tick, tables, local, history, bounds, SharedTyped, TasksTyped, LocalTyped,
      HistoryTyped
<1>3. ASSUME NEW a \in Actors, Load(a)
      PROVE  SharedTyped' /\ TasksTyped' /\ LocalTyped' /\ HistoryTyped'
  <2>1. SharedTyped'
    BY <1>0, <1>3 DEF Load, Goto, tables, SharedTyped
  <2>2. TasksTyped'
    BY <1>0, <1>3 DEF Load, Goto, tables, TasksTyped, Places, TaskStates
  <2>3. LocalTyped'
    <3>1. \A h \in Harnesses : Owed(h) \in Nat
      BY <1>0 DEF Owed, End, SharedTyped, HistoryTyped, Row
    <3>2. PICK rowsRead \in SUBSET Harnesses :
            /\ snap' = [snap EXCEPT ![a] =
                 [h \in Harnesses |-> IF h \in rowsRead THEN quota[h] ELSE Closed]]
            /\ seen' = [seen EXCEPT ![a] =
                 [h \in Harnesses |-> IF h \in rowsRead THEN Owed(h) ELSE 0]]
      BY <1>3, TakeFacts
    <3> QED BY <1>0, <1>3, <3>1, <3>2, RowFacts DEF Load, SharedTyped, LocalTyped
  <2>4. HistoryTyped'
    BY <1>0, <1>3 DEF Load, Take, Goto, tables, HistoryTyped
  <2> QED BY <2>1, <2>2, <2>3, <2>4
<1>4. ASSUME NEW a \in Actors, NoCandidate(a)
      PROVE  SharedTyped' /\ TasksTyped' /\ LocalTyped' /\ HistoryTyped'
  <2>1. SharedTyped'
    BY <1>0, <1>4 DEF NoCandidate, Goto, tables, bounds, SharedTyped
  <2>2. TasksTyped'
    BY <1>0, <1>4 DEF NoCandidate, Goto, tables, bounds, TasksTyped, Places, TaskStates
  <2>3. LocalTyped'
    BY <1>0, <1>4, ForgetTyped DEF NoCandidate, Goto, tables, bounds, LocalTyped
  <2>4. HistoryTyped'
    BY <1>0, <1>4 DEF NoCandidate, Goto, tables, bounds, HistoryTyped
  <2> QED BY <2>1, <2>2, <2>3, <2>4
<1>5. ASSUME NEW a \in Actors, Select(a)
      PROVE  SharedTyped' /\ TasksTyped' /\ LocalTyped' /\ HistoryTyped'
  <2>1. SharedTyped'
    BY <1>0, <1>5 DEF Select, Goto, tables, history, bounds, SharedTyped
  <2>2. TasksTyped'
    BY <1>0, <1>5 DEF Select, Goto, tables, history, bounds, TasksTyped, Places, TaskStates
  <2>3. LocalTyped'
    <3>1. /\ cand' = [cand EXCEPT ![a] = cand'[a]]
          /\ cand'[a] \in Harnesses /\ select(a) \in SUBSET Harnesses
      BY <1>5, SelectedPasses DEF RoutingInv
    <3> HIDE DEF Actors
    <3> QED BY <1>0, <1>5, <3>1, RowFacts DEF Select, history, LocalTyped
  <2>4. HistoryTyped'
    BY <1>0, <1>5 DEF Select, Goto, tables, history, bounds, HistoryTyped
  <2> QED BY <2>1, <2>2, <2>3, <2>4
<1>6. ASSUME NEW p \in Planners, PlanInvoke(p)
      PROVE  SharedTyped' /\ TasksTyped' /\ LocalTyped' /\ HistoryTyped'
  <2>1. SharedTyped'
    BY <1>0, <1>6 DEF PlanInvoke, Goto, tables, local, SharedTyped
  <2>2. TasksTyped'
    BY <1>0, <1>6 DEF PlanInvoke, Goto, tables, local, TasksTyped, Places, TaskStates
  <2>3. LocalTyped'
    BY <1>0, <1>6, ForgetTyped DEF PlanInvoke, Goto, tables, local, LocalTyped
  <2>4. HistoryTyped'
    BY <1>0, <1>6 DEF PlanInvoke, Goto, tables, local, HistoryTyped
  <2> QED BY <2>1, <2>2, <2>3, <2>4
<1>7. ASSUME NEW d \in Drivers, Dispatch(d)
      PROVE  SharedTyped' /\ TasksTyped' /\ LocalTyped' /\ HistoryTyped'
  <2>1. SharedTyped'
    BY <1>0, <1>7 DEF Dispatch, Goto, tables, local, history, bounds, SharedTyped
  <2>2. TasksTyped'
    <3>1. cand[d] \in Harnesses
      BY <1>0, <1>7, CandidateHeld DEF Dispatch, Holding, RoutingInv
    <3> QED BY <1>0, <1>7, <3>1 DEF Dispatch, Goto, TasksTyped, Places, TaskStates
  <2>3. LocalTyped'
    BY <1>0, <1>7 DEF Dispatch, Goto, tables, local, history, bounds, LocalTyped
  <2>4. HistoryTyped'
    BY <1>0, <1>7 DEF Dispatch, Goto, tables, local, history, bounds, HistoryTyped
  <2> QED BY <2>1, <2>2, <2>3, <2>4
<1>8. ASSUME NEW d \in Drivers, WorktreeFails(d)
      PROVE  SharedTyped' /\ TasksTyped' /\ LocalTyped' /\ HistoryTyped'
  <2>1. SharedTyped'
    BY <1>0, <1>8 DEF WorktreeFails, Goto, tables, history, SharedTyped
  <2>2. TasksTyped'
    BY <1>0, <1>8 DEF WorktreeFails, Goto, tables, history, TasksTyped, Places, TaskStates
  <2>3. LocalTyped'
    BY <1>0, <1>8, AnswerFacts DEF WorktreeFails, Goto, tables, history, LocalTyped
  <2>4. HistoryTyped'
    BY <1>0, <1>8 DEF WorktreeFails, Goto, tables, history, HistoryTyped
  <2> QED BY <2>1, <2>2, <2>3, <2>4
<1>9. ASSUME NEW d \in Drivers, Invoke(d)
      PROVE  SharedTyped' /\ TasksTyped' /\ LocalTyped' /\ HistoryTyped'
  <2>1. SharedTyped'
    BY <1>0, <1>9 DEF Invoke, EndWait, Goto, tables, local, bounds, SharedTyped
  <2>2. TasksTyped'
    BY <1>0, <1>9 DEF Invoke, EndWait, Goto, tables, local, bounds, TasksTyped, Places, TaskStates
  <2>3. LocalTyped'
    BY <1>0, <1>9 DEF Invoke, EndWait, Goto, tables, local, bounds, LocalTyped
  <2>4. HistoryTyped'
    BY <1>0, <1>9 DEF Invoke, EndWait, Goto, tables, local, bounds, HistoryTyped
  <2> QED BY <2>1, <2>2, <2>3, <2>4
<1>10. ASSUME NEW d \in Drivers, InvokeFails(d)
      PROVE  SharedTyped' /\ TasksTyped' /\ LocalTyped' /\ HistoryTyped'
  <2>1. SharedTyped'
    BY <1>0, <1>10 DEF InvokeFails, EndWait, Goto, tables, SharedTyped
  <2>2. TasksTyped'
    BY <1>0, <1>10 DEF InvokeFails, EndWait, Goto, tables, TasksTyped, Places, TaskStates
  <2>0. PICK e \in Errors : Hear(d, e)
    BY <1>10 DEF InvokeFails
  <2>h. err' \in [Actors -> Answers] /\ due' \in [Harnesses -> Nat]
    <3>1. cand[d] \in Harnesses
      BY <1>0, <1>10, CandidateHeld DEF InvokeFails, Holding, RoutingInv
    <3> QED BY <2>0, <3>1, HearFacts DEF RoutingInv
  <2>3. LocalTyped'
    BY <1>0, <1>10, <2>h DEF InvokeFails, EndWait, LocalTyped
  <2>4. HistoryTyped'
    BY <1>0, <1>10, <2>h DEF InvokeFails, HistoryTyped
  <2> QED BY <2>1, <2>2, <2>3, <2>4
<1>11. ASSUME NEW d \in Drivers, InvokeUnsupported(d)
      PROVE  SharedTyped' /\ TasksTyped' /\ LocalTyped' /\ HistoryTyped'
  <2>1. SharedTyped'
    BY <1>0, <1>11 DEF InvokeUnsupported, Goto, tables, SharedTyped
  <2>2. TasksTyped'
    BY <1>0, <1>11 DEF InvokeUnsupported, Goto, tables, TasksTyped, Places, TaskStates
  <2>3. LocalTyped'
    BY <1>0, <1>11, ForgetTyped DEF InvokeUnsupported, Goto, tables, LocalTyped
  <2>4. HistoryTyped'
    BY <1>0, <1>11 DEF InvokeUnsupported, Goto, tables, HistoryTyped
  <2> QED BY <2>1, <2>2, <2>3, <2>4
<1>12. ASSUME NEW d \in Drivers, Collect(d)
      PROVE  SharedTyped' /\ TasksTyped' /\ LocalTyped' /\ HistoryTyped'
  <2>1. SharedTyped'
    BY <1>0, <1>12 DEF Collect, Goto, tables, history, SharedTyped
  <2>2. TasksTyped'
    BY <1>0, <1>12 DEF Collect, Goto, tables, history, TasksTyped, Places, TaskStates
  <2>h. err' \in [Actors -> Answers] /\ due' \in [Harnesses -> Nat]
    <3>1. cand[d] \in Harnesses
      BY <1>0, <1>12, CandidateHeld DEF Collect, Holding, RoutingInv
    <3>2. CASE \E e \in Errors : Hear(d, e)
      BY <3>1, <3>2, HearFacts DEF RoutingInv
    <3>3. CASE ~\E e \in Errors : Hear(d, e)
      BY <1>0, <1>12, <3>3 DEF Collect, LocalTyped, HistoryTyped
    <3> QED BY <3>2, <3>3
  <2>3. LocalTyped'
    BY <1>0, <1>12, <2>h DEF Collect, LocalTyped
  <2>4. HistoryTyped'
    BY <1>0, <1>12, <2>h DEF Collect, HistoryTyped
  <2> QED BY <2>1, <2>2, <2>3, <2>4
<1>13. ASSUME NEW d \in Drivers, Reattach(d)
      PROVE  SharedTyped' /\ TasksTyped' /\ LocalTyped' /\ HistoryTyped'
  <2>1. SharedTyped'
    BY <1>0, <1>13 DEF Reattach, Goto, tables, local, SharedTyped
  <2>2. TasksTyped'
    BY <1>0, <1>13 DEF Reattach, Goto, tables, local, TasksTyped, Places, TaskStates
  <2>3. LocalTyped'
    BY <1>0, <1>13, ForgetTyped DEF Reattach, Goto, tables, local, LocalTyped
  <2>4. HistoryTyped'
    BY <1>0, <1>13 DEF Reattach, Goto, tables, local, HistoryTyped
  <2> QED BY <2>1, <2>2, <2>3, <2>4
<1>14. ASSUME NEW d \in Drivers, OpenBreaker(d)
      PROVE  SharedTyped' /\ TasksTyped' /\ LocalTyped' /\ HistoryTyped'
  <2>1. SharedTyped'
    BY <1>0, <1>14 DEF OpenBreaker, Goto, tables, history, bounds, SharedTyped
  <2>2. TasksTyped'
    BY <1>0, <1>14 DEF OpenBreaker, Goto, tables, history, bounds, TasksTyped, Places, TaskStates
  <2>3. LocalTyped'
    <3>1. err[d] \in Answers /\ now \in Nat
      BY <1>0 DEF LocalTyped, SharedTyped
    <3>2. [err[d] EXCEPT !.at = now] \in Answers
      BY <3>1, AnswerFacts
    <3>3. err' = [err EXCEPT ![d] = [err[d] EXCEPT !.at = now]]
      BY <1>14 DEF OpenBreaker
    <3> QED BY <1>0, <1>14, <3>2, <3>3 DEF OpenBreaker, history, LocalTyped
  <2>4. HistoryTyped'
    BY <1>0, <1>14 DEF OpenBreaker, Goto, tables, history, bounds, HistoryTyped
  <2> QED BY <2>1, <2>2, <2>3, <2>4
<1>15. ASSUME NEW d \in Drivers, RecordQuota(d)
      PROVE  SharedTyped' /\ TasksTyped' /\ LocalTyped' /\ HistoryTyped'
  <2>0. pc[d] \in {"save", "resave"} =>
          cand[d] \in Harnesses /\ err[d].at \in Nat /\ err[d].after \in Nat
    BY <1>0, CandidateHeld DEF RoutingInv, Holding, LocalTyped, Answers
  <2>1. SharedTyped'
    BY <1>0, <1>15, <2>0, RowFacts DEF RecordQuota, save_quota, SharedTyped
  <2>2. TasksTyped'
    BY <1>0, <1>15 DEF RecordQuota, Goto, bounds, TasksTyped, Places, TaskStates
  <2>3. LocalTyped'
    <3>1. CASE pc[d] \in {"quota", "save"}
      <4>1. err' = [err EXCEPT ![d] = Answer("counted", 0)]
        BY <1>15, <3>1 DEF RecordQuota
      <4>2. UNCHANGED <<snap, selected, cand, seen>>
        BY <1>15 DEF RecordQuota, history
      <4> QED BY <1>0, <4>1, <4>2, AnswerFacts DEF LocalTyped
    <3>2. CASE pc[d] \notin {"quota", "save"}
      <4>1. err' = [err EXCEPT ![d] = Fault]
        BY <1>15, <3>2 DEF RecordQuota
      <4>2. UNCHANGED <<snap, selected, cand, seen>>
        BY <1>15 DEF RecordQuota, history
      <4> QED BY <1>0, <4>1, <4>2, AnswerFacts DEF LocalTyped
    <3> QED BY <3>1, <3>2
  <2>4. HistoryTyped'
    BY <1>0, <1>15 DEF RecordQuota, history, bounds, HistoryTyped
  <2> QED BY <2>1, <2>2, <2>3, <2>4
<1>16. ASSUME NEW d \in Drivers, CountFailure(d)
      PROVE  SharedTyped' /\ TasksTyped' /\ LocalTyped' /\ HistoryTyped'
  <2>1. SharedTyped'
    <3>1. cand[d] \in Harnesses /\ Tier(d) \in Tiers
      BY <1>0, <1>16, CandidateHeld DEF CountFailure, Holding, RoutingInv
    <3>2. PICK verdict \in BOOLEAN : Count(cand[d], Tier(d), verdict)
      BY <1>16 DEF CountFailure
    <3> QED BY <1>0, <1>16, <3>1, <3>2, OutcomeFacts DEF CountFailure, Count, SharedTyped
  <2>2. TasksTyped'
    BY <1>0, <1>16 DEF CountFailure, Count, Goto, local, history, TasksTyped, Places, TaskStates
  <2>3. LocalTyped'
    BY <1>0, <1>16 DEF CountFailure, Count, Goto, local, history, LocalTyped
  <2>4. HistoryTyped'
    <3>1. UNCHANGED <<due, settled, deaths>> /\ faults' \in {faults, faults + 1}
      BY <1>16 DEF CountFailure, Count, history
    <3> QED BY <1>0, <3>1 DEF HistoryTyped
  <2> QED BY <2>1, <2>2, <2>3, <2>4
<1>17. ASSUME NEW d \in Drivers, Fail(d)
      PROVE  SharedTyped' /\ TasksTyped' /\ LocalTyped' /\ HistoryTyped'
  <2>1. SharedTyped'
    BY <1>0, <1>17 DEF Fail, Settle, CountSettled, Goto, tables, bounds, SharedTyped
  <2>2. TasksTyped'
    BY <1>0, <1>17 DEF Fail, Settle, CountSettled, Goto, tables, bounds, TasksTyped, Places,
        TaskStates
  <2>3. LocalTyped'
    BY <1>0, <1>17, ForgetTyped DEF Fail, Settle, CountSettled, Goto, tables, bounds, LocalTyped
  <2>4. HistoryTyped'
    <3>1. cand[d] \in Harnesses /\ Tier(d) \in Tiers
      BY <1>0, <1>17, CandidateHeld DEF Fail, Holding, RoutingInv
    <3>2. UNCHANGED <<due, faults, deaths>>
      BY <1>17 DEF Fail, Settle, bounds
    <3>3. CASE err[d].kind = "counted"
      <4>1. settled' = [settled EXCEPT ![cand[d]][Tier(d)] = @ + 1]
        BY <1>17, <3>3 DEF Fail, CountSettled
      <4> QED BY <1>0, <3>1, <3>2, <4>1, IncrementFacts DEF HistoryTyped
    <3>4. CASE err[d].kind # "counted"
      BY <1>0, <1>17, <3>2, <3>4 DEF Fail, HistoryTyped
    <3> QED BY <3>3, <3>4
  <2> QED BY <2>1, <2>2, <2>3, <2>4
<1>18. ASSUME NEW d \in Drivers, Verify(d)
      PROVE  SharedTyped' /\ TasksTyped' /\ LocalTyped' /\ HistoryTyped'
  <2>1. SharedTyped'
    <3>1. cand[d] \in Harnesses /\ Tier(d) \in Tiers
      BY <1>0, <1>18, CandidateHeld DEF Verify, Holding, RoutingInv
    <3>2. PICK verdict \in BOOLEAN : Count(cand[d], Tier(d), verdict)
      BY <1>18 DEF Verify
    <3> QED BY <1>0, <1>18, <3>1, <3>2, OutcomeFacts DEF Verify, Count, SharedTyped
  <2>2. TasksTyped'
    BY <1>0, <1>18 DEF Verify, Goto, TasksTyped, Places, TaskStates
  <2>3. LocalTyped'
    BY <1>0, <1>18, AnswerFacts DEF Verify, history, LocalTyped
  <2>4. HistoryTyped'
    BY <1>0, <1>18 DEF Verify, Count, history, HistoryTyped
  <2> QED BY <2>1, <2>2, <2>3, <2>4
<1>19. ASSUME NEW d \in Drivers, AppendVerdict(d)
      PROVE  SharedTyped' /\ TasksTyped' /\ LocalTyped' /\ HistoryTyped'
  <2>1. SharedTyped'
    BY <1>0, <1>19 DEF AppendVerdict, Settle, CountSettled, Goto, tables, bounds, SharedTyped
  <2>2. TasksTyped'
    BY <1>0, <1>19 DEF AppendVerdict, Settle, CountSettled, Goto, tables, bounds, TasksTyped,
        Places, TaskStates
  <2>3. LocalTyped'
    BY <1>0, <1>19, ForgetTyped DEF AppendVerdict, Settle, CountSettled, Goto, tables, bounds,
        LocalTyped
  <2>4. HistoryTyped'
    <3>1. cand[d] \in Harnesses /\ Tier(d) \in Tiers
      BY <1>0, <1>19, CandidateHeld DEF AppendVerdict, Holding, RoutingInv
    <3> QED BY <1>0, <1>19, <3>1, IncrementFacts
        DEF AppendVerdict, Settle, CountSettled, bounds, HistoryTyped
  <2> QED BY <2>1, <2>2, <2>3, <2>4
<1>20. ASSUME NEW d \in Drivers, Die(d)
      PROVE  SharedTyped' /\ TasksTyped' /\ LocalTyped' /\ HistoryTyped'
  <2>1. SharedTyped'
    BY <1>0, <1>20 DEF Die, Goto, tables, SharedTyped
  <2>2. TasksTyped'
    BY <1>0, <1>20 DEF Die, Goto, tables, TasksTyped, Places, TaskStates
  <2>3. LocalTyped'
    BY <1>0, <1>20, ForgetTyped DEF Die, Goto, tables, LocalTyped
  <2>4. HistoryTyped'
    <3>1. due' \in [Harnesses -> Nat]
      BY <1>0, <1>20 DEF Die, HistoryTyped
    <3> QED BY <1>0, <1>20, <3>1 DEF Die, HistoryTyped
  <2> QED BY <2>1, <2>2, <2>3, <2>4
<1>21. ASSUME NEW d \in Drivers, Resume(d)
      PROVE  SharedTyped' /\ TasksTyped' /\ LocalTyped' /\ HistoryTyped'
  <2>1. SharedTyped'
    BY <1>0, <1>21 DEF Resume, Goto, tables, history, SharedTyped
  <2>2. TasksTyped'
    BY <1>0, <1>21 DEF Resume, Goto, tables, history, TasksTyped, Places, TaskStates
  <2>3. LocalTyped'
    <3>1. task[d] = "Verifying" => rows[d][Len(rows[d])] \in Harnesses
      BY <1>0 DEF RoutingInv, Retried, TasksTyped
    <3>2. CASE task[d] = "Verifying"
      BY <1>0, <1>21, <3>1, <3>2 DEF Resume, Goto, history, LocalTyped
    <3>3. CASE task[d] # "Verifying"
      <4>1. cand' = cand
        BY <1>0, <1>21, <3>3 DEF Resume, TasksTyped, TaskStates
      <4> QED BY <1>0, <1>21, <4>1 DEF Resume, history, LocalTyped
    <3> QED BY <3>2, <3>3
  <2>4. HistoryTyped'
    BY <1>0, <1>21 DEF Resume, Goto, tables, history, HistoryTyped
  <2> QED BY <2>1, <2>2, <2>3, <2>4
<1>22. ASSUME NEW d \in Drivers, RepairRound(d)
      PROVE  SharedTyped' /\ TasksTyped' /\ LocalTyped' /\ HistoryTyped'
  BY <1>0, <1>22 DEF RepairRound, Goto, tables, local, history, bounds, SharedTyped, TasksTyped,
      Places, TaskStates, LocalTyped, HistoryTyped
<1>23. ASSUME NEW d \in Drivers, RepairEnds(d)
      PROVE  SharedTyped' /\ TasksTyped' /\ LocalTyped' /\ HistoryTyped'
  <2>1. SharedTyped' /\ TasksTyped' /\ HistoryTyped'
    BY <1>0, <1>23 DEF RepairEnds, Goto, tables, history, SharedTyped, TasksTyped, Places, TaskStates,
        HistoryTyped
  <2>2. LocalTyped'
    <3>1. err' \in {err, [err EXCEPT ![d] = Fault]}
      BY <1>23 DEF RepairEnds
    <3>2. UNCHANGED <<snap, selected, cand, seen>>
      BY <1>23 DEF RepairEnds, history
    <3>3. Fault \in Answers
      BY AnswerFacts
    <3>4. err' \in [Actors -> Answers]
      BY <1>0, <3>1, <3>3 DEF LocalTyped
    <3> QED BY <1>0, <3>2, <3>4 DEF LocalTyped
  <2> QED BY <2>1, <2>2
<1>24. ASSUME NEW d \in Drivers, FailOrphaned(d)
      PROVE  SharedTyped' /\ TasksTyped' /\ LocalTyped' /\ HistoryTyped'
  <2>1. SharedTyped' /\ TasksTyped' /\ HistoryTyped'
    BY <1>0, <1>24 DEF FailOrphaned, Settle, Goto, tables, bounds, SharedTyped, TasksTyped, Places,
        TaskStates, HistoryTyped
  <2>2. LocalTyped'
    BY <1>0, <1>24, ForgetTyped DEF FailOrphaned, Settle
  <2> QED BY <2>1, <2>2
<1> QED
  BY <1>1, <1>2, <1>3, <1>4, <1>5, <1>6, <1>7, <1>8, <1>9, <1>10, <1>11, <1>12, <1>13, <1>14,
      <1>15, <1>16, <1>17, <1>18, <1>19, <1>20, <1>21, <1>22, <1>23, <1>24 DEF RoutingNext

(* What an actor may do.                                                   *)
Steps(x) ==
  \/ Load(x) \/ NoCandidate(x) \/ Select(x)
  \/ x \in Planners /\ PlanInvoke(x)
  \/ /\ x \in Drivers
     /\ \/ Dispatch(x) \/ WorktreeFails(x)
        \/ Invoke(x) \/ InvokeFails(x) \/ InvokeUnsupported(x)
        \/ Collect(x) \/ Reattach(x)
        \/ OpenBreaker(x) \/ RecordQuota(x) \/ CountFailure(x) \/ Fail(x)
        \/ RepairRound(x) \/ RepairEnds(x)
        \/ Verify(x) \/ FailOrphaned(x) \/ AppendVerdict(x)
        \/ Die(x) \/ Resume(x)

LEMMA NextSteps ==
  ASSUME RoutingNext
  PROVE  Tick \/ \E x \in Actors : Steps(x)
BY DEF RoutingNext, Steps, Actors

\* An actor changes nothing of another's.
LEMMA StepsAlone ==
  ASSUME RoutingInv, Typed', NEW x \in Actors, Steps(x)
  PROVE  Others(x)
<1> USE RoutingConstants DEF Actors
<1>0. SharedTyped /\ TasksTyped /\ LocalTyped
  BY DEF RoutingInv, Typed
<1>1. ASSUME Load(x) PROVE Others(x)
  <2>1. PICK rowsRead \in SUBSET Harnesses :
          /\ snap' = [snap EXCEPT ![x] =
               [h \in Harnesses |-> IF h \in rowsRead THEN quota[h] ELSE Closed]]
          /\ seen' = [seen EXCEPT ![x] =
               [h \in Harnesses |-> IF h \in rowsRead THEN Owed(h) ELSE 0]]
    BY <1>1, TakeFacts
  <2> QED BY <1>0, <1>1, <2>1 DEF Load, Goto, tables, Others, TasksTyped, LocalTyped
<1>2. ASSUME NoCandidate(x) PROVE Others(x)
  BY <1>0, <1>2 DEF NoCandidate, Forget, Goto, tables, bounds, Others, TasksTyped, LocalTyped
<1>3. ASSUME Select(x) PROVE Others(x)
  BY <1>0, <1>3 DEF Select, Goto, tables, history, bounds, Others, TasksTyped, LocalTyped
<1>4. ASSUME x \in Planners, PlanInvoke(x) PROVE Others(x)
  BY <1>0, <1>4 DEF PlanInvoke, Forget, Goto, tables, local, Others, TasksTyped, LocalTyped
<1>5. ASSUME x \in Drivers, Dispatch(x) PROVE Others(x)
  BY <1>0, <1>5 DEF Dispatch, Goto, tables, local, history, bounds, Others, TasksTyped, LocalTyped
<1>6. ASSUME x \in Drivers, WorktreeFails(x) PROVE Others(x)
  BY <1>0, <1>6 DEF WorktreeFails, Goto, tables, history, Others, TasksTyped, LocalTyped
<1>7. ASSUME x \in Drivers, Invoke(x) PROVE Others(x)
  BY <1>0, <1>7 DEF Invoke, EndWait, Goto, tables, local, bounds, Others, TasksTyped, LocalTyped
<1>8. ASSUME x \in Drivers, InvokeFails(x) PROVE Others(x)
  BY <1>0, <1>8 DEF InvokeFails, EndWait, Hear, Goto, tables, Others, TasksTyped, LocalTyped
<1>9. ASSUME x \in Drivers, InvokeUnsupported(x) PROVE Others(x)
  BY <1>0, <1>9 DEF InvokeUnsupported, Forget, Goto, tables, Others, TasksTyped, LocalTyped
<1>10. ASSUME x \in Drivers, Collect(x) PROVE Others(x)
  BY <1>0, <1>10 DEF Collect, Hear, Goto, tables, Others, TasksTyped, LocalTyped
<1>11. ASSUME x \in Drivers, Reattach(x) PROVE Others(x)
  BY <1>0, <1>11 DEF Reattach, Forget, Goto, tables, local, Others, TasksTyped, LocalTyped
<1>12. ASSUME x \in Drivers, OpenBreaker(x) PROVE Others(x)
  BY <1>0, <1>12 DEF OpenBreaker, Goto, tables, history, bounds, Others, TasksTyped, LocalTyped
<1>13. ASSUME x \in Drivers, RecordQuota(x) PROVE Others(x)
  BY <1>0, <1>13 DEF RecordQuota, Goto, history, bounds, Others, TasksTyped, LocalTyped
<1>14. ASSUME x \in Drivers, CountFailure(x) PROVE Others(x)
  BY <1>0, <1>14 DEF CountFailure, Goto, local, history, Others, TasksTyped, LocalTyped
<1>15. ASSUME x \in Drivers, Fail(x) PROVE Others(x)
  BY <1>0, <1>15 DEF Fail, Settle, CountSettled, Forget, Goto, tables, bounds, Others, TasksTyped,
      LocalTyped
<1>16. ASSUME x \in Drivers, Verify(x) PROVE Others(x)
  BY <1>0, <1>16 DEF Verify, Goto, history, Others, TasksTyped, LocalTyped
<1>17. ASSUME x \in Drivers, AppendVerdict(x) PROVE Others(x)
  BY <1>0, <1>17 DEF AppendVerdict, Settle, CountSettled, Forget, Goto, tables, bounds, Others,
      TasksTyped, LocalTyped
<1>18. ASSUME x \in Drivers, Die(x) PROVE Others(x)
  BY <1>0, <1>18 DEF Die, Forget, Goto, tables, Others, TasksTyped, LocalTyped
<1>19. ASSUME x \in Drivers, Resume(x) PROVE Others(x)
  BY <1>0, <1>19 DEF Resume, Goto, tables, history, Others, TasksTyped, LocalTyped
<1>20. ASSUME x \in Drivers, RepairRound(x) PROVE Others(x)
  BY <1>0, <1>20 DEF RepairRound, Goto, tables, local, history, bounds, Others, TasksTyped, LocalTyped
<1>21. ASSUME x \in Drivers, RepairEnds(x) PROVE Others(x)
  BY <1>0, <1>21 DEF RepairEnds, Goto, tables, history, Others, TasksTyped, LocalTyped
<1>22. ASSUME x \in Drivers, FailOrphaned(x) PROVE Others(x)
  BY <1>0, <1>22 DEF FailOrphaned, Settle, Forget, Goto, tables, bounds, Others, TasksTyped, LocalTyped
<1> QED
  BY <1>1, <1>2, <1>3, <1>4, <1>5, <1>6, <1>7, <1>8, <1>9, <1>10, <1>11, <1>12, <1>13, <1>14,
      <1>15, <1>16, <1>17, <1>18, <1>19, <1>20, <1>21, <1>22 DEF Steps

\* An actor that is back at the start or at rest goes by nothing.
LEMMA AtRest ==
  ASSUME NEW x, pc'[x] \in {"start", "idle", "gone"}
  PROVE  AtWork(x)'
BY DEF AtWork, Loaded, Held, Waited, Holding

\* What an actor went by still holds where it goes next.
LEMMA WorkStep ==
  ASSUME RoutingInv, Typed', NEW x \in Actors, Steps(x)
  PROVE  AtWork(x)'
<1> USE RoutingConstants DEF Actors
<1>0. /\ AtWork(x) /\ Kept /\ Others(x)
     /\ Typed /\ SharedTyped /\ TasksTyped /\ LocalTyped /\ HistoryTyped /\ TasksTyped'
  BY StepsAlone DEF RoutingInv, Typed
<1>1. ASSUME Load(x) PROVE AtWork(x)'
  <2>1. pc'[x] = "select"
    BY <1>0, <1>1 DEF Load, Goto, TasksTyped
  <2>2. PICK rowsRead \in SUBSET Harnesses :
          /\ snap'[x] = [h \in Harnesses |-> IF h \in rowsRead THEN quota[h] ELSE Closed]
          /\ seen'[x] = [h \in Harnesses |-> IF h \in rowsRead THEN Owed(h) ELSE 0]
    <3>1. PICK rowsRead \in SUBSET Harnesses :
            /\ snap' = [snap EXCEPT ![x] =
                 [h \in Harnesses |-> IF h \in rowsRead THEN quota[h] ELSE Closed]]
            /\ seen' = [seen EXCEPT ![x] =
                 [h \in Harnesses |-> IF h \in rowsRead THEN Owed(h) ELSE 0]]
      BY <1>1, TakeFacts
    <3> QED BY <1>0, <3>1 DEF LocalTyped
  <2>3. ASSUME NEW h \in Harnesses PROVE Promises(quota[h], Owed(h))
    <3>1. quota[h] \in Row /\ End(quota[h]) \in Nat
      BY <1>0 DEF SharedTyped, Row, End
    <3>2. Promises(quota[h], End(quota[h]))
      BY <3>1 DEF Promises, End
    <3> QED BY <1>0, <3>2 DEF Owed, Kept
  <2>4. \A h \in Harnesses : Promises(snap'[x][h], seen'[x][h])
    BY <2>2, <2>3 DEF Promises
  <2> QED BY <2>1, <2>4 DEF AtWork, Loaded, Held, Waited, Holding
<1>2. ASSUME NoCandidate(x) PROVE AtWork(x)'
  <2>1. pc'[x] \in {"start", "idle", "gone"}
    BY <1>0, <1>2 DEF NoCandidate, Goto, TasksTyped
  <2> QED BY <2>1, AtRest
<1>3. ASSUME Select(x) PROVE AtWork(x)'
  <2>1. /\ cand'[x] \in select(x) /\ select(x) \subseteq Harnesses
        /\ is_available(snap[x][cand'[x]], now)
    BY <1>0, <1>3, SelectedPasses
  <2>2. pc'[x] \in {"invoke", "dispatch"} /\ selected'[x] = select(x) /\ seen' = seen
    BY <1>0, <1>3 DEF Select, Goto, history, TasksTyped, LocalTyped
  <2>3. now' + 1 >= seen'[x][cand'[x]]
    <3> DEFINE h == cand'[x]
    <3>1. Promises(snap[x][h], seen[x][h])
      BY <1>0, <1>3, <2>1 DEF AtWork, Loaded, Select
    <3>2. snap[x][h] \in Row /\ seen[x][h] \in Nat /\ now \in Nat
      BY <1>0, <2>1 DEF LocalTyped, SharedTyped
    <3>3. now + 1 >= seen[x][h]
      <4> HIDE DEF h
      <4>1. CASE snap[x][h].breaker = "Open"
        BY <2>1, <3>1, <3>2, <4>1 DEF is_available, Promises, End, Row, h
      <4>2. CASE snap[x][h].breaker # "Open"
        BY <3>1, <3>2, <4>2 DEF Promises
      <4> QED BY <4>1, <4>2
    <3> QED BY <1>0, <2>2, <3>3 DEF Others
  <2> QED BY <2>1, <2>2, <2>3 DEF AtWork, Loaded, Held, Waited, Holding
<1>4. ASSUME x \in Planners, PlanInvoke(x) PROVE AtWork(x)'
  BY <1>0, <1>4 DEF PlanInvoke, Forget, Goto, tables, local, AtWork, Loaded, Held, Waited,
      Holding, Others, TasksTyped, LocalTyped
<1>5. ASSUME x \in Drivers, Dispatch(x) PROVE AtWork(x)'
  BY <1>0, <1>5 DEF Dispatch, Goto, tables, local, history, bounds, AtWork, Loaded, Held, Waited,
      Holding, Others, TasksTyped, LocalTyped
<1>6. ASSUME x \in Drivers, WorktreeFails(x) PROVE AtWork(x)'
  BY <1>0, <1>6 DEF WorktreeFails, Goto, tables, history, AtWork, Loaded, Held, Waited, Holding,
      Others, TasksTyped, LocalTyped
<1>7. ASSUME x \in Drivers, Invoke(x) PROVE AtWork(x)'
  BY <1>0, <1>7 DEF Invoke, EndWait, Goto, tables, local, bounds, AtWork, Loaded, Held, Waited,
      Holding, Others, TasksTyped, LocalTyped
<1>8. ASSUME x \in Drivers, InvokeFails(x) PROVE AtWork(x)'
  <2>1. pc[x] \in Holding /\ pc'[x] = "quota" /\ cand' = cand
    BY <1>0, <1>8 DEF InvokeFails, Goto, Holding, TasksTyped
  <2> QED BY <1>0, <2>1 DEF AtWork, Loaded, Held, Waited, Holding
<1>9. ASSUME x \in Drivers, InvokeUnsupported(x) PROVE AtWork(x)'
  <2>1. pc'[x] \in {"start", "idle", "gone"}
    BY <1>0, <1>9 DEF InvokeUnsupported, Goto, TasksTyped
  <2> QED BY <2>1, AtRest
<1>10. ASSUME x \in Drivers, Collect(x) PROVE AtWork(x)'
  <2>1. pc[x] \in Holding /\ pc'[x] \in {"poll", "verify", "opened"} /\ cand' = cand
    BY <1>0, <1>10 DEF Collect, Goto, Holding, TasksTyped
  <2> QED BY <1>0, <2>1 DEF AtWork, Loaded, Held, Waited, Holding
<1>11. ASSUME x \in Drivers, Reattach(x) PROVE AtWork(x)'
  BY <1>0, <1>11 DEF Reattach, Forget, Goto, tables, local, AtWork, Loaded, Held, Waited, Holding,
      Others, TasksTyped, LocalTyped
<1>12. ASSUME x \in Drivers, OpenBreaker(x) PROVE AtWork(x)'
  <2>1. /\ pc[x] \in Holding /\ pc'[x] \in {"save", "resave"}
        /\ cand' = cand /\ now' = now
    BY <1>0, <1>12 DEF OpenBreaker, Goto, Holding, TasksTyped
  <2>2. err'[x].at = now /\ err'[x].kind = "exhausted" /\ now \in Nat
    BY <1>0, <1>12 DEF OpenBreaker, Answers, LocalTyped, SharedTyped
  <2> QED BY <1>0, <2>1, <2>2 DEF AtWork, Loaded, Held, Waited, Holding
<1>13. ASSUME x \in Drivers, RecordQuota(x) PROVE AtWork(x)'
  <2>1. pc[x] \in Holding /\ cand' = cand
    BY <1>0, <1>13 DEF RecordQuota, Holding
  <2>2. CASE pc[x] \in {"quota", "save"}
    <3>1. pc'[x] = "count" /\ err'[x] = Answer("counted", 0)
      BY <1>0, <1>13, <2>2 DEF RecordQuota, Goto, TasksTyped, LocalTyped
    <3> QED BY <1>0, <2>1, <3>1 DEF Answer, AtWork, Loaded, Held, Waited, Holding
  <2>3. CASE pc[x] \notin {"quota", "save"}
    <3>1. pc'[x] = "fail"
      BY <1>0, <1>13, <2>3 DEF RecordQuota, Goto, TasksTyped
    <3> QED BY <1>0, <2>1, <3>1 DEF AtWork, Loaded, Held, Waited, Holding
  <2> QED BY <2>2, <2>3
<1>14. ASSUME x \in Drivers, CountFailure(x) PROVE AtWork(x)'
  BY <1>0, <1>14 DEF CountFailure, Goto, local, history, AtWork, Loaded, Held, Waited,
      Holding, Others, TasksTyped, LocalTyped
<1>15. ASSUME x \in Drivers, Fail(x) PROVE AtWork(x)'
  <2>1. pc'[x] \in {"start", "idle", "gone"}
    BY <1>0, <1>15 DEF Fail, Goto, Settle, CountSettled, TasksTyped
  <2> QED BY <2>1, AtRest
<1>16. ASSUME x \in Drivers, Verify(x) PROVE AtWork(x)'
  BY <1>0, <1>16 DEF Verify, Goto, history, AtWork, Loaded, Held, Waited, Holding, Others,
      TasksTyped, LocalTyped
<1>17. ASSUME x \in Drivers, AppendVerdict(x) PROVE AtWork(x)'
  <2>1. pc'[x] \in {"start", "idle", "gone"}
    BY <1>0, <1>17 DEF AppendVerdict, Goto, Settle, CountSettled, TasksTyped
  <2> QED BY <2>1, AtRest
<1>18. ASSUME x \in Drivers, Die(x) PROVE AtWork(x)'
  <2>1. pc'[x] \in {"start", "idle", "gone"}
    BY <1>0, <1>18 DEF Die, Goto, TasksTyped
  <2> QED BY <2>1, AtRest
<1>19. ASSUME x \in Drivers, Resume(x) PROVE AtWork(x)'
  <2>1. CASE pc'[x] \in {"start", "idle", "gone"}
    BY <2>1, AtRest
  <2>2. CASE pc'[x] \notin {"start", "idle", "gone"}
    <3>1. /\ pc'[x] = "recheck" /\ rows[x] # <<>>
          /\ cand' = [cand EXCEPT ![x] = rows[x][Len(rows[x])]]
      BY <1>0, <1>19, <2>2 DEF Resume, Goto, RoutingInv, Retried, TasksTyped, TaskStates
    <3>2. cand'[x] \in Harnesses
      BY <1>0, <1>19, <3>1 DEF TasksTyped, LocalTyped
    <3> QED BY <3>1, <3>2 DEF AtWork, Loaded, Held, Waited, Holding
  <2> QED BY <2>1, <2>2
<1>20. ASSUME x \in Drivers, RepairRound(x) PROVE AtWork(x)'
  BY <1>0, <1>20 DEF RepairRound, Goto, tables, local, history, bounds, AtWork, Loaded, Held,
      Waited, Holding, Others, TasksTyped, LocalTyped
<1>21. ASSUME x \in Drivers, RepairEnds(x) PROVE AtWork(x)'
  BY <1>0, <1>21 DEF RepairEnds, Goto, tables, history, AtWork, Loaded, Held, Waited, Holding,
      Others, TasksTyped, LocalTyped
<1>22. ASSUME x \in Drivers, FailOrphaned(x) PROVE AtWork(x)'
  <2>1. pc'[x] \in {"start", "idle", "gone"}
    BY <1>0, <1>22 DEF FailOrphaned, Goto, TasksTyped
  <2> QED BY <2>1, AtRest
<1> QED
  BY <1>1, <1>2, <1>3, <1>4, <1>5, <1>6, <1>7, <1>8, <1>9, <1>10, <1>11, <1>12, <1>13, <1>14,
      <1>15, <1>16, <1>17, <1>18, <1>19, <1>20, <1>21, <1>22 DEF Steps

\* No task is given more attempts than it may have.
LEMMA RetryStep ==
  ASSUME RoutingInv, Typed', NEW x \in Actors, Steps(x)
  PROVE  (x \in Drivers => Retried(x)')
<1> USE RoutingConstants DEF Actors
<1>0. (x \in Drivers => Retried(x)) /\ TasksTyped /\ TasksTyped'
  BY DEF RoutingInv, Typed
<1>1. ASSUME Load(x) PROVE (x \in Drivers => Retried(x)')
  BY <1>0, <1>1 DEF Load, Goto, tables, Retried, TasksTyped
<1>2. ASSUME NoCandidate(x) PROVE (x \in Drivers => Retried(x)')
  BY <1>0, <1>2 DEF NoCandidate, Forget, Goto, tables, bounds, Retried, TasksTyped
<1>3. ASSUME Select(x) PROVE (x \in Drivers => Retried(x)')
  BY <1>0, <1>3 DEF Select, Goto, tables, history, bounds, Retried, TasksTyped
<1>4. ASSUME x \in Planners, PlanInvoke(x) PROVE (x \in Drivers => Retried(x)')
  BY <1>0, <1>4 DEF PlanInvoke, Forget, Goto, tables, local, Retried, TasksTyped
<1>5. ASSUME x \in Drivers, Dispatch(x) PROVE (x \in Drivers => Retried(x)')
  BY <1>0, <1>5 DEF Dispatch, Goto, tables, local, history, bounds, Retried, TasksTyped
<1>6. ASSUME x \in Drivers, WorktreeFails(x) PROVE (x \in Drivers => Retried(x)')
  BY <1>0, <1>6 DEF WorktreeFails, Goto, tables, history, Retried, TasksTyped
<1>7. ASSUME x \in Drivers, Invoke(x) PROVE (x \in Drivers => Retried(x)')
  BY <1>0, <1>7 DEF Invoke, EndWait, Goto, tables, local, bounds, Retried, TasksTyped
<1>8. ASSUME x \in Drivers, InvokeFails(x) PROVE (x \in Drivers => Retried(x)')
  BY <1>0, <1>8 DEF InvokeFails, EndWait, Goto, tables, Retried, TasksTyped
<1>9. ASSUME x \in Drivers, InvokeUnsupported(x) PROVE (x \in Drivers => Retried(x)')
  BY <1>0, <1>9 DEF InvokeUnsupported, Forget, Goto, tables, Retried, TasksTyped
<1>10. ASSUME x \in Drivers, Collect(x) PROVE (x \in Drivers => Retried(x)')
  BY <1>0, <1>10 DEF Collect, Goto, tables, Retried, TasksTyped
<1>11. ASSUME x \in Drivers, Reattach(x) PROVE (x \in Drivers => Retried(x)')
  BY <1>0, <1>11 DEF Reattach, Forget, Goto, tables, local, Retried, TasksTyped
<1>12. ASSUME x \in Drivers, OpenBreaker(x) PROVE (x \in Drivers => Retried(x)')
  BY <1>0, <1>12 DEF OpenBreaker, Goto, tables, history, bounds, Retried, TasksTyped
<1>13. ASSUME x \in Drivers, RecordQuota(x) PROVE (x \in Drivers => Retried(x)')
  BY <1>0, <1>13 DEF RecordQuota, Goto, bounds, Retried, TasksTyped
<1>14. ASSUME x \in Drivers, CountFailure(x) PROVE (x \in Drivers => Retried(x)')
  BY <1>0, <1>14 DEF CountFailure, Goto, local, history, Retried, TasksTyped
<1>15. ASSUME x \in Drivers, Fail(x) PROVE (x \in Drivers => Retried(x)')
  <2>1. rows' = rows /\ (task'[x] = "Ready" => MayFallBack(x)) /\ task'[x] # "Verifying"
    BY <1>0, <1>15 DEF Fail, Settle, TasksTyped
  <2>2. pc'[x] \in {"start", "idle"}
    BY <1>0, <1>15 DEF Fail, Goto, TasksTyped
  <2> QED BY <1>0, <1>15, <2>1, <2>2 DEF MayFallBack, Retried
<1>16. ASSUME x \in Drivers, Verify(x) PROVE (x \in Drivers => Retried(x)')
  BY <1>0, <1>16 DEF Verify, Goto, history, Retried, TasksTyped
<1>17. ASSUME x \in Drivers, AppendVerdict(x) PROVE (x \in Drivers => Retried(x)')
  BY <1>0, <1>17 DEF AppendVerdict, Settle, CountSettled, Forget, Goto, tables, bounds, Retried,
      TasksTyped
<1>18. ASSUME x \in Drivers, Die(x) PROVE (x \in Drivers => Retried(x)')
  BY <1>0, <1>18 DEF Die, Forget, Goto, tables, Retried, TasksTyped
<1>19. ASSUME x \in Drivers, Resume(x) PROVE (x \in Drivers => Retried(x)')
  BY <1>0, <1>19 DEF Resume, Goto, tables, history, Retried, TasksTyped
<1>20. ASSUME x \in Drivers, RepairRound(x) PROVE (x \in Drivers => Retried(x)')
  BY <1>0, <1>20 DEF RepairRound, Goto, tables, local, history, bounds, Retried, TasksTyped
<1>21. ASSUME x \in Drivers, RepairEnds(x) PROVE (x \in Drivers => Retried(x)')
  BY <1>0, <1>21 DEF RepairEnds, Goto, tables, history, Retried, TasksTyped
<1>22. ASSUME x \in Drivers, FailOrphaned(x) PROVE (x \in Drivers => Retried(x)')
  BY <1>0, <1>22 DEF FailOrphaned, Settle, Forget, Goto, tables, bounds, Retried, TasksTyped
<1> QED
  BY <1>1, <1>2, <1>3, <1>4, <1>5, <1>6, <1>7, <1>8, <1>9, <1>10, <1>11, <1>12, <1>13, <1>14,
      <1>15, <1>16, <1>17, <1>18, <1>19, <1>20, <1>21, <1>22 DEF Steps

-----------------------------------------------------------------------------
(* What the harnesses asked for *)

\* The other drivers record what they recorded.
LEMMA TakesDownAlone ==
  ASSUME NEW x \in Actors, Others(x), NEW h
  PROVE  /\ \A d \in Drivers \ {x} : TakesDown(d, h) = TakesDown(d, h)'
         /\ Recording(h) /\ ~(x \in Drivers /\ TakesDown(x, h)) => Recording(h)'
<1>1. ASSUME NEW d \in Drivers \ {x} PROVE TakesDown(d, h) = TakesDown(d, h)'
  <2>1. cand'[d] = cand[d] /\ pc'[d] = pc[d] /\ err'[d] = err[d]
    BY DEF Others, Actors
  <2> QED BY <2>1 DEF TakesDown
<1> QED
  BY <1>1 DEF Recording

(* What a step does to the answers: x hears one, saves one or loses one,   *)
(* or leaves them and the table alone.                                     *)
Hears(x) ==
  /\ \E e \in Errors : Hear(x, e) /\ pc'[x] \in {"quota", "opened"}
  /\ pc[x] \in {"invoke", "collect"} /\ UNCHANGED <<quota, cand>>
Saves(x) ==
  /\ pc[x] \in {"save", "resave"} /\ pc'[x] \in {"count", "fail"} /\ UNCHANGED <<cand, due>>
  /\ quota' = save_quota(cand[x], on_capacity_exhausted(err[x].at, err[x].after))
Loses(x) ==
  /\ UNCHANGED quota /\ due' = [h \in Harnesses |-> IF TakesDown(x, h) THEN 0 ELSE due[h]]
  /\ pc'[x] = "gone"
Takes(x) ==
  /\ pc[x] \in {"quota", "opened"} /\ err[x].kind = "exhausted" /\ UNCHANGED <<quota, due, cand>>
  /\ pc'[x] \in {"save", "resave"} /\ err' = [err EXCEPT ![x].at = now]
Leaves(x) ==
  /\ UNCHANGED <<quota, due>>
  /\ x \in Drivers => \A h : ~TakesDown(x, h) /\ ~TakesDown(x, h)'

LEMMA AnswerSteps ==
  ASSUME RoutingInv, NEW x \in Actors, Steps(x)
  PROVE  \/ Leaves(x)
         \/ x \in Drivers /\ (Hears(x) \/ Saves(x) \/ Loses(x) \/ Takes(x))
<1> USE RoutingConstants DEF Actors
<1>0. TasksTyped /\ LocalTyped /\ HistoryTyped /\ Held(x)
  BY DEF RoutingInv, Typed, AtWork
<1>1. ASSUME Load(x) \/ NoCandidate(x) \/ Select(x) \/ (x \in Planners /\ PlanInvoke(x))
      PROVE  Leaves(x)
  BY <1>0, <1>1 DEF Load, NoCandidate, Select, PlanInvoke, Goto, tables, history, local, TasksTyped,
      Leaves, TakesDown
<1>2. ASSUME x \in Drivers,
             Dispatch(x) \/ WorktreeFails(x) \/ Invoke(x) \/ InvokeUnsupported(x) \/ Reattach(x)
      PROVE  Leaves(x)
  BY <1>0, <1>2 DEF Dispatch, WorktreeFails, Invoke, InvokeUnsupported, Reattach, Goto, tables,
      history, TasksTyped, Leaves, TakesDown
<1>3. ASSUME x \in Drivers, InvokeFails(x) PROVE Hears(x)
  BY <1>0, <1>3 DEF InvokeFails, Goto, tables, TasksTyped, Hears
<1>4. ASSUME x \in Drivers, Collect(x) PROVE Leaves(x) \/ Hears(x)
  BY <1>0, <1>4 DEF Collect, Goto, tables, TasksTyped, Hears, Leaves, TakesDown
<1>5. ASSUME x \in Drivers, OpenBreaker(x) PROVE Takes(x)
  BY <1>0, <1>5 DEF OpenBreaker, Goto, tables, history, TasksTyped, Takes
<1>6. ASSUME x \in Drivers, RecordQuota(x) PROVE Leaves(x) \/ Saves(x)
  <2>1. pc'[x] \in {"count", "fail"} /\ UNCHANGED <<cand, due>>
    BY <1>0, <1>6 DEF RecordQuota, Goto, history, TasksTyped
  <2>2. CASE pc[x] \in {"save", "resave"}
    BY <1>6, <2>1, <2>2 DEF RecordQuota, Saves
  <2>3. CASE pc[x] \notin {"save", "resave"}
    BY <1>6, <2>1, <2>3 DEF RecordQuota, Leaves, TakesDown
  <2> QED BY <2>2, <2>3
<1>7. ASSUME x \in Drivers,
             \/ CountFailure(x) \/ RepairRound(x) \/ RepairEnds(x) \/ Verify(x)
             \/ Fail(x) \/ FailOrphaned(x) \/ AppendVerdict(x) \/ Resume(x)
      PROVE  Leaves(x)
  <2>1. pc[x] \notin {"quota", "opened", "save", "resave"} /\ UNCHANGED <<quota, due>>
    BY <1>7 DEF CountFailure, RepairRound, RepairEnds, Verify, Fail, FailOrphaned, AppendVerdict,
        Resume, Settle, tables, history
  <2>2. pc'[x] \notin {"quota", "opened", "save", "resave"}
    BY <1>0, <1>7 DEF CountFailure, RepairRound, RepairEnds, Verify, Fail, FailOrphaned, AppendVerdict,
        Resume, Goto, TasksTyped, TaskStates
  <2> QED BY <2>1, <2>2 DEF Leaves, TakesDown
<1>8. ASSUME x \in Drivers, Die(x) PROVE Loses(x)
  BY <1>0, <1>8 DEF Die, Goto, tables, TasksTyped, Loses
<1> QED
  BY <1>1, <1>2, <1>3, <1>4, <1>5, <1>6, <1>7, <1>8 DEF Steps

\* What is heard from a harness.
LEMMA HearsFacts ==
  ASSUME RoutingInv, NEW x \in Drivers, Hears(x)
  PROVE  \E e \in Errors :
           /\ err'[x] = e /\ e.after \in Nat /\ cand'[x] = cand[x]
           /\ \A h \in Harnesses : h # cand[x] => due'[h] = due[h]
           /\ e.kind # "exhausted" => due' = due
           /\ e.kind = "exhausted" => due'[cand[x]] <= now + e.after
           /\ Recording(cand[x]) => due'[cand[x]] <= due[cand[x]]
<1>1. PICK e \in Errors : Hear(x, e)
  BY DEF Hears
<1>2. cand[x] \in Harnesses /\ Typed
  BY CandidateHeld DEF RoutingInv, Hears, Holding, Actors
<1>3. err' = [err EXCEPT ![x] = e] /\ err \in [Actors -> Answers]
  BY <1>1, <1>2, HearFacts DEF Typed, LocalTyped
<1>4. err'[x] = e
  BY <1>3 DEF Actors
<1> QED
  BY <1>1, <1>2, <1>4, HearFacts, AnswerFacts DEF Hears

\* A row is what its harness asked for once nobody is taking that down.
LEMMA KeptStep ==
  ASSUME RoutingInv, Typed', NEW x \in Actors, Steps(x)
  PROVE  Kept'
<1> USE RoutingConstants DEF Actors
<1>0. /\ Kept /\ LocalTyped /\ SharedTyped /\ HistoryTyped /\ now' = now /\ Held(x) /\ Others(x)
      /\ x \in Drivers => Answered(x)
  BY StepsAlone DEF RoutingInv, Typed, Others, AtWork
<1> SUFFICES ASSUME NEW h \in Harnesses
             PROVE  /\ quota'[h].opened_at <= now
                    /\ ~Recording(h)' => Promises(quota'[h], due'[h])
  BY <1>0 DEF Kept
<1>1. /\ quota[h].opened_at <= now /\ (~Recording(h) => Promises(quota[h], due[h]))
      /\ ~Recording(h)' => ~Recording(h) \/ (x \in Drivers /\ TakesDown(x, h))
  BY <1>0, TakesDownAlone DEF Kept
<1>2. CASE Leaves(x)
  BY <1>1, <1>2 DEF Leaves
<1>3. CASE x \in Drivers /\ Takes(x)
  <2>1. TakesDown(x, h) => TakesDown(x, h)'
    BY <1>0, <1>3 DEF Takes, TakesDown, LocalTyped
  <2>2. TakesDown(x, h) => Recording(h)'
    BY <1>3, <2>1 DEF Recording
  <2> QED BY <1>1, <1>3, <2>2 DEF Takes
<1>4. CASE x \in Drivers /\ Loses(x)
  <2>1. quota' = quota /\ due'[h] = IF TakesDown(x, h) THEN 0 ELSE due[h]
    BY <1>4 DEF Loses
  <2> QED BY <1>1, <1>4, <2>1 DEF Promises
<1>5. CASE x \in Drivers /\ Hears(x)
  <2>1. PICK e \in Errors :
          /\ err'[x] = e /\ cand'[x] = cand[x] /\ (h # cand[x] => due'[h] = due[h])
          /\ e.kind # "exhausted" => due' = due
    BY <1>5, HearsFacts
  <2>2. ~TakesDown(x, h) /\ quota' = quota
    BY <1>5 DEF Hears, TakesDown
  <2>3. CASE h = cand[x] /\ e.kind = "exhausted"
    <3>1. TakesDown(x, h)'
      BY <1>5, <2>1, <2>3 DEF Hears, TakesDown
    <3> QED BY <1>1, <1>5, <2>2, <3>1 DEF Recording
  <2>4. CASE ~(h = cand[x] /\ e.kind = "exhausted")
    BY <1>1, <2>1, <2>2, <2>4
  <2> QED BY <2>3, <2>4
<1>6. CASE x \in Drivers /\ Saves(x)
  <2>1. cand[x] \in Harnesses /\ TakesDown(x, cand[x])
    BY <1>0, <1>6 DEF Saves, Held, Holding, TakesDown
  <2>2. err[x].at \in Nat /\ err[x].after \in Nat /\ err[x].at <= now /\ now \in Nat
    BY <1>0, <1>6 DEF LocalTyped, Answers, SharedTyped, Held, Saves
  <2> DEFINE row == Stored(on_capacity_exhausted(err[x].at, err[x].after))
  <2>3. quota' = [quota EXCEPT ![cand[x]] = row] /\ due' = due
    BY <1>6 DEF Saves, save_quota
  <2>4. CASE h = cand[x]
    <3>1. due[h] <= err[x].at + err[x].after /\ due[h] \in Nat
      BY <1>0, <1>6, <2>1, <2>2, <2>4 DEF Answered, Saves, HistoryTyped
    <3>2. row.opened_at <= err[x].at /\ Promises(row, due[h])
      BY <2>2, <3>1, StoredFacts
    <3>3. row.opened_at \in Nat
      BY <2>2, RowFacts DEF Row
    <3> HIDE DEF row
    <3>4. quota'[h] = row
      BY <1>0, <2>3, <2>4 DEF SharedTyped
    <3> QED BY <2>2, <2>3, <3>2, <3>3, <3>4
  <2>5. CASE h # cand[x]
    <3> HIDE DEF row
    <3>1. quota'[h] = quota[h]
      BY <1>0, <2>3, <2>5 DEF SharedTyped
    <3>2. ~TakesDown(x, h)
      BY <2>5 DEF TakesDown
    <3> QED BY <1>1, <2>3, <3>1, <3>2
  <2> QED BY <2>4, <2>5
<1> QED
  BY <1>2, <1>3, <1>4, <1>5, <1>6, AnswerSteps

\* What a driver takes down lasts as long as its harness asked.
LEMMA AnsweredStep ==
  ASSUME RoutingInv, Typed', NEW x \in Actors, Steps(x), NEW d \in Drivers
  PROVE  Answered(d)'
<1> USE RoutingConstants DEF Actors
<1>0. /\ LocalTyped /\ SharedTyped /\ HistoryTyped /\ now' = now /\ Others(x)
      /\ Answered(d) /\ HistoryTyped' /\ LocalTyped' /\ now \in Nat
  BY StepsAlone DEF RoutingInv, Typed, Others, SharedTyped
<1> SUFFICES ASSUME NEW h \in Harnesses, TakesDown(d, h)'
             PROVE  due'[h] <= err'[d].after + IF pc'[d] \in {"save", "resave"}
                                                 THEN err'[d].at ELSE now
  BY <1>0 DEF Answered
<1>1. CASE d # x
  <2>1. /\ TakesDown(d, h) /\ pc'[d] = pc[d] /\ err'[d] = err[d]
    BY <1>0, <1>1, TakesDownAlone DEF Others
  <2>2. due[h] <= err[d].after + IF pc[d] \in {"save", "resave"} THEN err[d].at ELSE now
    BY <1>0, <2>1 DEF Answered
  <2>3. /\ due[h] \in Nat /\ due'[h] \in Nat /\ err[d].after \in Nat /\ err[d].at \in Nat
    BY <1>0 DEF HistoryTyped, LocalTyped, Answers
  <2>4. due'[h] <= due[h]
    <3>1. CASE Leaves(x) \/ (x \in Drivers /\ (Saves(x) \/ Takes(x)))
      BY <2>3, <3>1 DEF Leaves, Saves, Takes
    <3>2. CASE x \in Drivers /\ Loses(x)
      BY <2>3, <3>2 DEF Loses
    <3>3. CASE x \in Drivers /\ Hears(x)
      <4>1. Recording(h)
        BY <2>1 DEF Recording
      <4> QED BY <2>3, <3>3, <4>1, HearsFacts
    <3> QED BY <3>1, <3>2, <3>3, AnswerSteps
  <2>5. CASE pc[d] \in {"save", "resave"}
    <3>1. due[h] <= err[d].after + err[d].at
      BY <2>2, <2>5
    <3>2. due'[h] <= err'[d].after + err'[d].at
      BY <2>1, <2>3, <2>4, <3>1
    <3> QED BY <2>1, <2>5, <3>2
  <2>6. CASE pc[d] \notin {"save", "resave"}
    <3>1. due[h] <= err[d].after + now
      BY <2>2, <2>6
    <3>2. due'[h] <= err'[d].after + now
      BY <1>0, <2>1, <2>3, <2>4, <3>1
    <3> QED BY <2>1, <2>6, <3>2
  <2> QED BY <2>5, <2>6
<1>2. CASE d = x
  <2>1. CASE Hears(x)
    <3>1. PICK e \in Errors :
            /\ err'[x] = e /\ e.after \in Nat /\ cand'[x] = cand[x]
            /\ e.kind = "exhausted" => due'[cand[x]] <= now + e.after
      BY <1>2, <2>1, HearsFacts
    <3>2. e.kind = "exhausted" /\ h = cand[x] /\ pc'[x] \notin {"save", "resave"}
      BY <1>2, <2>1, <3>1 DEF TakesDown, Hears
    <3>3. due'[h] \in Nat
      BY <1>0 DEF HistoryTyped
    <3> QED BY <1>0, <1>2, <3>1, <3>2, <3>3
  <2>2. CASE Takes(x)
    <3>1. TakesDown(x, h) /\ pc'[x] \in {"save", "resave"} /\ pc[x] \notin {"save", "resave"}
      BY <1>2, <2>2 DEF Takes, TakesDown
    <3>2. err'[x].at = now /\ err'[x].after = err[x].after
      BY <1>0, <1>2, <2>2 DEF Takes, LocalTyped, Answers
    <3> QED BY <1>0, <1>2, <2>2, <3>1, <3>2 DEF Takes, Answered
  <2>3. ~Saves(x) /\ ~Loses(x) /\ ~Leaves(x)
    BY <1>2 DEF Saves, Loses, Leaves, TakesDown
  <2> QED BY <1>2, <2>1, <2>2, <2>3, AnswerSteps
<1> QED
  BY <1>1, <1>2

-----------------------------------------------------------------------------
(* Counting *)

\* A driver's tier is its task's.
LEMMA DriverTier ==
  ASSUME NEW d \in Drivers
  PROVE  Tier(d) = TierOf[d] /\ Tier(d)' = TierOf[d] /\ TierOf[d] \in Tiers
BY RoutingConstants DEF Tier

\* Two finite sets that differ in one element at most.
LEMMA OneApart ==
  ASSUME NEW S, IsFiniteSet(S), NEW T, NEW x, S \ {x} = T \ {x}
  PROVE  /\ Cardinality(S) \in Nat /\ Cardinality(T) \in Nat
         /\ Cardinality(T) + (IF x \in S THEN 1 ELSE 0) =
              Cardinality(S) + (IF x \in T THEN 1 ELSE 0)
<1> DEFINE rest == S \ {x}
<1>1. IsFiniteSet(rest)
  BY FS_Subset
<1>2. x \notin rest /\ rest = T \ {x}
  OBVIOUS
<1>3. Cardinality(rest) \in Nat /\ Cardinality(rest \cup {x}) = Cardinality(rest) + 1
  BY <1>1, <1>2, FS_CardinalityType, FS_AddElement
<1>4. /\ x \in S => S = rest \cup {x}
      /\ x \notin S => S = rest
      /\ x \in T => T = rest \cup {x}
      /\ x \notin T => T = rest
  BY <1>2
<1> HIDE DEF rest
<1>6. /\ x \in S => Cardinality(S) = Cardinality(rest) + 1
      /\ x \notin S => Cardinality(S) = Cardinality(rest)
  BY <1>3, <1>4
<1>7. /\ x \in T => Cardinality(T) = Cardinality(rest) + 1
      /\ x \notin T => Cardinality(T) = Cardinality(rest)
  BY <1>3, <1>4
<1> QED
  BY <1>3, <1>6, <1>7

(* What an actor's own result adds to a count, and a step that keeps the   *)
(* counts and the results as even as the deaths and the faults allow.      *)
Mark(x, h, t) == IF cand[x] = h /\ Tier(x) = t /\ Pending(x) THEN 1 ELSE 0
Even(x) ==
  \A h \in Harnesses, t \in Tiers :
    LET counted == Pulls(feedback[h][t])
        logged == settled[h][t] + Mark(x, h, t)
    IN  /\ counted' + logged + deaths <= counted + logged' + deaths'
        /\ counted + logged' + faults <= counted' + logged + faults'

Quiet(x) ==
  /\ UNCHANGED <<feedback, settled>> /\ ~Pending(x) /\ ~Pending(x)'
  /\ deaths <= deaths' /\ faults <= faults'

\* What the books are kept in.
LEMMA BooksTyped ==
  ASSUME Typed, NEW h \in Harnesses, NEW t \in Tiers
  PROVE  Pulls(feedback[h][t]) \in Nat /\ settled[h][t] \in Nat /\ deaths \in Nat /\ faults \in Nat
BY DEF Typed, SharedTyped, HistoryTyped, Counts, Pulls

\* A step of an actor that has no result pending before or after it.
LEMMA QuietIsEven ==
  ASSUME Typed, Typed', NEW x, Quiet(x)
  PROVE  Even(x)
<1>1. SUFFICES ASSUME NEW h \in Harnesses, NEW t \in Tiers
               PROVE  LET counted == Pulls(feedback[h][t])
                          logged == settled[h][t] + Mark(x, h, t)
                      IN  /\ counted' + logged + deaths <= counted + logged' + deaths'
                          /\ counted + logged' + faults <= counted' + logged + faults'
  BY DEF Even
<1>2. /\ Pulls(feedback[h][t]) \in Nat /\ settled[h][t] \in Nat /\ deaths \in Nat /\ faults \in Nat
      /\ deaths' \in Nat /\ faults' \in Nat
  BY BooksTyped DEF Typed, HistoryTyped
<1>3. /\ Mark(x, h, t) = 0 /\ Mark(x, h, t)' = 0
      /\ Pulls(feedback[h][t])' = Pulls(feedback[h][t]) /\ settled'[h][t] = settled[h][t]
  BY DEF Quiet, Mark
<1> QED
  BY <1>2, <1>3 DEF Quiet

\* A result is counted, or fails to be, by the driver that has it pending from then on.
LEMMA CountingIsEven ==
  ASSUME Typed, NEW x \in Drivers, cand[x] \in Harnesses, NEW success \in BOOLEAN,
         Count(cand[x], Tier(x), success),
         UNCHANGED <<settled, cand, deaths>>, ~Pending(x), Pending(x)'
  PROVE  Even(x)
<1>1. Tier(x)' = Tier(x) /\ Tier(x) \in Tiers
  BY DriverTier
<1> SUFFICES ASSUME NEW h \in Harnesses, NEW t \in Tiers
             PROVE  LET counted == Pulls(feedback[h][t])
                        logged == settled[h][t] + Mark(x, h, t)
                    IN  /\ counted' + logged + deaths <= counted + logged' + deaths'
                        /\ counted + logged' + faults <= counted' + logged + faults'
  BY DEF Even
<1>2. /\ Pulls(feedback[h][t]) \in Nat /\ settled[h][t] \in Nat /\ deaths \in Nat /\ faults \in Nat
      /\ settled'[h][t] = settled[h][t] /\ deaths' = deaths
  BY BooksTyped
<1>3. Mark(x, h, t) = 0 /\ Mark(x, h, t)' = IF h = cand[x] /\ t = Tier(x) THEN 1 ELSE 0
  BY <1>1 DEF Mark
<1>4. CASE feedback' = record_outcome(cand[x], Tier(x), success) /\ faults' = faults
  <2>1. Pulls(feedback'[h][t]) = Pulls(feedback[h][t]) + Mark(x, h, t)'
    BY <1>1, <1>3, <1>4, OutcomeFacts DEF Typed, SharedTyped
  <2> QED BY <1>2, <1>3, <1>4, <2>1
<1>5. CASE feedback' = feedback /\ faults' = faults + 1
  BY <1>2, <1>3, <1>5
<1> QED
  BY <1>4, <1>5 DEF Count

\* A result that is logged is no longer pending.
LEMMA LoggingIsEven ==
  ASSUME Typed, NEW x \in Drivers, cand[x] \in Harnesses, UNCHANGED <<feedback, deaths, faults>>,
         CountSettled(x), Pending(x), ~Pending(x)'
  PROVE  Even(x)
<1> SUFFICES ASSUME NEW h \in Harnesses, NEW t \in Tiers
             PROVE  LET counted == Pulls(feedback[h][t])
                        logged == settled[h][t] + Mark(x, h, t)
                    IN  /\ counted' + logged + deaths <= counted + logged' + deaths'
                        /\ counted + logged' + faults <= counted' + logged + faults'
  BY DEF Even
<1>1. Pulls(feedback[h][t]) \in Nat /\ settled[h][t] \in Nat /\ deaths \in Nat /\ faults \in Nat
  BY BooksTyped
<1>2. Mark(x, h, t)' = 0 /\ Mark(x, h, t) = IF h = cand[x] /\ t = Tier(x) THEN 1 ELSE 0
  BY DEF Mark
<1>3. settled'[h][t] = settled[h][t] + Mark(x, h, t)
  BY <1>2, DriverTier, IncrementFacts DEF CountSettled, Typed, HistoryTyped
<1> QED
  BY <1>1, <1>2, <1>3

\* A driver that dies takes at most one result with it.
LEMMA DyingIsEven ==
  ASSUME Typed, NEW x \in Drivers, UNCHANGED <<feedback, settled, faults>>, deaths' = deaths + 1,
         ~Pending(x)'
  PROVE  Even(x)
<1> SUFFICES ASSUME NEW h \in Harnesses, NEW t \in Tiers
             PROVE  LET counted == Pulls(feedback[h][t])
                        logged == settled[h][t] + Mark(x, h, t)
                    IN  /\ counted' + logged + deaths <= counted + logged' + deaths'
                        /\ counted + logged' + faults <= counted' + logged + faults'
  BY DEF Even
<1>1. Pulls(feedback[h][t]) \in Nat /\ settled[h][t] \in Nat /\ deaths \in Nat /\ faults \in Nat
  BY BooksTyped
<1>2. Mark(x, h, t)' = 0 /\ Mark(x, h, t) \in {0, 1}
  BY DEF Mark
<1> QED
  BY <1>1, <1>2

\* Every step keeps the books even.
LEMMA EvenStep ==
  ASSUME RoutingInv, Typed', NEW x \in Actors, Steps(x)
  PROVE  Even(x)
<1> USE RoutingConstants DEF Actors
<1>0. /\ SharedTyped /\ TasksTyped /\ LocalTyped /\ HistoryTyped /\ Typed /\ Typed' /\ AtWork(x)
     /\ deaths <= deaths /\ faults <= faults
  BY DEF RoutingInv, Typed, HistoryTyped
<1>1. ASSUME Load(x) PROVE Even(x)
  <2>1. Quiet(x)
    BY <1>0, <1>1 DEF Load, Goto, tables, Quiet, Pending, TasksTyped, LocalTyped, HistoryTyped
  <2> QED BY <1>0, <2>1, QuietIsEven
<1>2. ASSUME NoCandidate(x) PROVE Even(x)
  <2>1. Quiet(x)
    BY <1>0, <1>2 DEF NoCandidate, Forget, Goto, tables, bounds, Quiet, Pending, TasksTyped,
        LocalTyped, HistoryTyped, Answer, Silent
  <2> QED BY <1>0, <2>1, QuietIsEven
<1>3. ASSUME Select(x) PROVE Even(x)
  <2>1. Quiet(x)
    BY <1>0, <1>3 DEF Select, Goto, tables, history, bounds, Quiet, Pending, TasksTyped, LocalTyped, HistoryTyped
  <2> QED BY <1>0, <2>1, QuietIsEven
<1>4. ASSUME x \in Planners, PlanInvoke(x) PROVE Even(x)
  <2>1. Quiet(x)
    BY <1>0, <1>4 DEF PlanInvoke, Forget, Goto, tables, local, Quiet, Pending, TasksTyped,
        LocalTyped, HistoryTyped, Answer, Silent
  <2> QED BY <1>0, <2>1, QuietIsEven
<1>5. ASSUME x \in Drivers, Dispatch(x) PROVE Even(x)
  <2>1. Quiet(x)
    BY <1>0, <1>5 DEF Dispatch, Goto, tables, local, history, bounds, Quiet, Pending, TasksTyped,
        LocalTyped, HistoryTyped
  <2> QED BY <1>0, <2>1, QuietIsEven
<1>6. ASSUME x \in Drivers, WorktreeFails(x) PROVE Even(x)
  <2>1. Quiet(x)
    BY <1>0, <1>6 DEF WorktreeFails, Goto, tables, history, Quiet, Pending, TasksTyped, LocalTyped, HistoryTyped,
        Answer, Fault
  <2> QED BY <1>0, <2>1, QuietIsEven
<1>7. ASSUME x \in Drivers, Invoke(x) PROVE Even(x)
  <2>1. Quiet(x)
    BY <1>0, <1>7 DEF Invoke, EndWait, Goto, tables, local, bounds, Quiet, Pending, TasksTyped,
        LocalTyped, HistoryTyped
  <2> QED BY <1>0, <2>1, QuietIsEven
<1>8. ASSUME x \in Drivers, InvokeFails(x) PROVE Even(x)
  <2>1. Quiet(x)
    BY <1>0, <1>8, AnswerFacts DEF InvokeFails, EndWait, Hear, Goto, tables, Quiet, Pending, TasksTyped, LocalTyped, HistoryTyped
  <2> QED BY <1>0, <2>1, QuietIsEven
<1>9. ASSUME x \in Drivers, InvokeUnsupported(x) PROVE Even(x)
  <2>1. Quiet(x)
    BY <1>0, <1>9 DEF InvokeUnsupported, Forget, Goto, tables, Quiet, Pending, TasksTyped,
        LocalTyped, HistoryTyped, Answer, Silent
  <2> QED BY <1>0, <2>1, QuietIsEven
<1>10. ASSUME x \in Drivers, Collect(x) PROVE Even(x)
  <2>1. Quiet(x)
    BY <1>0, <1>10, AnswerFacts DEF Collect, Hear, Goto, tables, Quiet, Pending, TasksTyped, LocalTyped, HistoryTyped
  <2> QED BY <1>0, <2>1, QuietIsEven
<1>11. ASSUME x \in Drivers, Reattach(x) PROVE Even(x)
  <2>1. Quiet(x)
    BY <1>0, <1>11 DEF Reattach, Forget, Goto, tables, local, Quiet, Pending, TasksTyped, LocalTyped, HistoryTyped,
        Answer, Silent
  <2> QED BY <1>0, <2>1, QuietIsEven
<1>12. ASSUME x \in Drivers, OpenBreaker(x) PROVE Even(x)
  <2>1. Quiet(x)
    BY <1>0, <1>12 DEF OpenBreaker, Goto, tables, history, bounds, Quiet, Pending, TasksTyped,
        LocalTyped, HistoryTyped
  <2> QED BY <1>0, <2>1, QuietIsEven
<1>13. ASSUME x \in Drivers, RecordQuota(x) PROVE Even(x)
  <2>1. Quiet(x)
    BY <1>0, <1>13 DEF RecordQuota, Goto, history, bounds, Quiet, Pending, TasksTyped, LocalTyped, HistoryTyped, Answer,
        Fault
  <2> QED BY <1>0, <2>1, QuietIsEven
<1>14. ASSUME x \in Drivers, CountFailure(x) PROVE Even(x)
  <2>1. /\ cand[x] \in Harnesses /\ ~Pending(x) /\ err[x].kind = "counted"
        /\ Count(cand[x], Tier(x), FALSE) /\ UNCHANGED <<settled, cand, err, deaths>>
    BY <1>0, <1>14 DEF CountFailure, local, history, AtWork, Held, Holding, Pending
  <2>2. Pending(x)'
    BY <1>0, <1>14, <2>1 DEF CountFailure, Goto, TasksTyped, Pending
  <2> QED BY <1>0, <1>14, <2>1, <2>2, CountingIsEven
<1>15. ASSUME x \in Drivers, Fail(x) PROVE Even(x)
  <2>1. ~Pending(x)' /\ UNCHANGED <<feedback, deaths, faults>> /\ pc[x] = "fail"
    BY <1>0, <1>15 DEF Fail, Settle, Goto, tables, bounds, Pending, TasksTyped
  <2>2. CASE err[x].kind = "counted"
    <3>1. CountSettled(x)
      BY <1>15, <2>2 DEF Fail
    <3>2. cand[x] \in Harnesses /\ Pending(x)
      BY <1>0, <2>1, <2>2 DEF AtWork, Held, Holding, Pending
    <3> QED BY <1>0, <1>15, <2>1, <3>1, <3>2, LoggingIsEven
  <2>3. CASE err[x].kind # "counted"
    <3>1. Quiet(x)
      BY <1>0, <1>15, <2>1, <2>3 DEF Fail, Quiet, Pending
    <3> QED BY <1>0, <3>1, QuietIsEven
  <2> QED BY <2>2, <2>3
<1>16. ASSUME x \in Drivers, Verify(x) PROVE Even(x)
  <2>1. PICK verdict \in BOOLEAN : Count(cand[x], Tier(x), verdict)
    BY <1>16 DEF Verify
  <2>2. cand[x] \in Harnesses /\ ~Pending(x) /\ UNCHANGED <<settled, cand, deaths>>
    BY <1>0, <1>16 DEF Verify, history, AtWork, Held, Holding, Pending
  <2>3. Pending(x)'
    BY <1>0, <1>16 DEF Verify, Goto, TasksTyped, Pending
  <2> QED BY <1>0, <1>16, <2>1, <2>2, <2>3, CountingIsEven
<1>17. ASSUME x \in Drivers, AppendVerdict(x) PROVE Even(x)
  <2>1. ~Pending(x)' /\ UNCHANGED <<feedback, deaths, faults>> /\ CountSettled(x)
    BY <1>0, <1>17 DEF AppendVerdict, Settle, Goto, tables, bounds, Pending, TasksTyped
  <2>2. cand[x] \in Harnesses /\ Pending(x)
    BY <1>0, <1>17 DEF AppendVerdict, AtWork, Held, Holding, Pending
  <2> QED BY <1>0, <1>17, <2>1, <2>2, LoggingIsEven
<1>18. ASSUME x \in Drivers, Die(x) PROVE Even(x)
  <2>1. ~Pending(x)' /\ UNCHANGED <<feedback, settled, faults>> /\ deaths' = deaths + 1
    BY <1>0, <1>18 DEF Die, Goto, tables, Pending, TasksTyped
  <2> QED BY <1>0, <1>18, <2>1, DyingIsEven
<1>19. ASSUME x \in Drivers, Resume(x) PROVE Even(x)
  <2>1. Quiet(x)
    BY <1>0, <1>19 DEF Resume, Goto, tables, history, Quiet, Pending, TasksTyped, LocalTyped, HistoryTyped
  <2> QED BY <1>0, <2>1, QuietIsEven
<1>20. ASSUME x \in Drivers, RepairRound(x) PROVE Even(x)
  <2>1. Quiet(x)
    BY <1>0, <1>20 DEF RepairRound, Goto, tables, local, history, bounds, Quiet, Pending, TasksTyped,
        LocalTyped, HistoryTyped
  <2> QED BY <1>0, <2>1, QuietIsEven
<1>21. ASSUME x \in Drivers, RepairEnds(x) PROVE Even(x)
  <2>1. Quiet(x)
    BY <1>0, <1>21 DEF RepairEnds, Goto, tables, history, Quiet, Pending, TasksTyped, LocalTyped,
        HistoryTyped
  <2> QED BY <1>0, <2>1, QuietIsEven
<1>22. ASSUME x \in Drivers, FailOrphaned(x) PROVE Even(x)
  <2>1. Quiet(x)
    BY <1>0, <1>22 DEF FailOrphaned, Settle, Forget, Goto, tables, bounds, Quiet, Pending, TasksTyped,
        LocalTyped, HistoryTyped, Answer, Silent
  <2> QED BY <1>0, <2>1, QuietIsEven
<1> QED
  BY <1>1, <1>2, <1>3, <1>4, <1>5, <1>6, <1>7, <1>8, <1>9, <1>10, <1>11, <1>12, <1>13, <1>14,
      <1>15, <1>16, <1>17, <1>18, <1>19, <1>20, <1>21, <1>22 DEF Steps

\* A planner writes nothing back, and no fault is undone.
LEMMA PlannersWriteNothing ==
  ASSUME Typed, NEW x, x \notin Drivers, Steps(x)
  PROVE  UNCHANGED <<feedback, settled, deaths>> /\ faults <= faults'
<1>1. faults \in Nat
  BY DEF Typed, HistoryTyped
<1> QED
  BY <1>1 DEF Steps, Load, NoCandidate, Select, PlanInvoke, tables, history, bounds

\* No more is counted than results and deaths, and no result is uncounted but by a fault.
LEMMA CountStep ==
  ASSUME RoutingInv, Typed', NEW x \in Actors, Steps(x)
  PROVE  CountedOnce'
<1>1. Typed /\ CountedOnce /\ Others(x) /\ Even(x)
  BY StepsAlone, EvenStep DEF RoutingInv
<1> SUFFICES ASSUME NEW h \in Harnesses, NEW t \in Tiers
             PROVE  /\ Pulls(feedback[h][t])' <= settled[h][t]' + Cardinality(Awaited(h, t)') + deaths'
                    /\ settled[h][t]' + Cardinality(Awaited(h, t)') <= Pulls(feedback[h][t])' + faults'
  BY DEF CountedOnce, Results, Awaited
<1>2. /\ Pulls(feedback[h][t]) <= settled[h][t] + Cardinality(Awaited(h, t)) + deaths
      /\ settled[h][t] + Cardinality(Awaited(h, t)) <= Pulls(feedback[h][t]) + faults
  BY <1>1 DEF CountedOnce, Results, Awaited
<1>3. IsFiniteSet(Awaited(h, t))
  BY RoutingConstants, FS_Subset DEF Awaited
<1>4. Awaited(h, t) \ {x} = Awaited(h, t)' \ {x}
  <2>1. ASSUME NEW d \in Drivers, d # x
        PROVE  (d \in Awaited(h, t)) = (d \in Awaited(h, t)')
    <3>1. cand'[d] = cand[d] /\ pc'[d] = pc[d] /\ err'[d] = err[d]
      BY <1>1, <2>1 DEF Others, Actors
    <3> QED BY <3>1, DriverTier DEF Awaited, Pending
  <2> QED BY <2>1 DEF Awaited
<1> DEFINE p == Pulls(feedback[h][t])
           q == Pulls(feedback[h][t])'
           b == settled[h][t]
           e == settled[h][t]'
           c == Cardinality(Awaited(h, t))
           f == Cardinality(Awaited(h, t)')
           m == Mark(x, h, t)
           n == Mark(x, h, t)'
<1>5. /\ p \in Nat /\ q \in Nat /\ b \in Nat /\ e \in Nat /\ m \in Nat /\ n \in Nat
      /\ deaths \in Nat /\ deaths' \in Nat /\ faults \in Nat /\ faults' \in Nat
  BY <1>1 DEF Typed, SharedTyped, HistoryTyped, Counts, Pulls, Mark
<1>6. c \in Nat /\ f \in Nat
  BY <1>3, <1>4, OneApart
<1>7. CASE x \in Drivers
  <2>1. /\ m = IF x \in Awaited(h, t) THEN 1 ELSE 0
        /\ n = IF x \in Awaited(h, t)' THEN 1 ELSE 0
    BY <1>7 DEF Mark, Awaited
  <2>2. f + m = c + n
    BY <1>3, <1>4, <2>1, OneApart
  <2>3. /\ q + (b + m) + deaths <= p + (e + n) + deaths'
        /\ p + (e + n) + faults <= q + (b + m) + faults'
    BY <1>1 DEF Even
  <2>4. q <= e + f + deaths'
    BY <1>2, <1>5, <1>6, <2>2, <2>3
  <2>5. e + f <= q + faults'
    BY <1>2, <1>5, <1>6, <2>2, <2>3
  <2> QED BY <2>4, <2>5
<1>8. CASE x \notin Drivers
  <2>1. Awaited(h, t)' = Awaited(h, t)
    BY <1>4, <1>8 DEF Awaited
  <2>2. UNCHANGED <<feedback, settled, deaths>> /\ faults <= faults'
    BY <1>1, <1>8, PlannersWriteNothing
  <2>3. q = p /\ e = b /\ f = c
    BY <2>1, <2>2
  <2> QED BY <1>2, <1>5, <1>6, <2>2, <2>3
<1> QED
  BY <1>7, <1>8

-----------------------------------------------------------------------------
(* The invariant *)

LEMMA RoutingInitInv ==
  ASSUME RoutingInit
  PROVE  RoutingInv
<1> USE RoutingConstants
<1>1. Typed
  <2>1. SharedTyped
    BY DEF RoutingInit, SharedTyped, Row, Closed, Counts
  <2>2. TasksTyped
    BY DEF RoutingInit, TasksTyped, Places, TaskStates
  <2>3. LocalTyped
    BY RowFacts, AnswerFacts DEF RoutingInit, LocalTyped
  <2>4. HistoryTyped
    BY DEF RoutingInit, HistoryTyped
  <2> QED BY <2>1, <2>2, <2>3, <2>4 DEF Typed
<1>2. Kept
  BY DEF RoutingInit, Kept, Promises, Closed
<1>3. CountedOnce
  <2>1. ASSUME NEW h \in Harnesses, NEW t \in Tiers PROVE Results(h, t) = 0
    <3>1. {d \in Drivers : Pending(d) /\ cand[d] = h /\ Tier(d) = t} = {}
      BY DEF RoutingInit, Pending, Actors
    <3>2. settled[h][t] = 0
      BY DEF RoutingInit
    <3> QED BY <3>1, <3>2, FS_EmptySet DEF Results
  <2>2. \A h \in Harnesses, t \in Tiers : Pulls(feedback[h][t]) = 0
    BY DEF RoutingInit, Pulls
  <2> QED BY <2>1, <2>2 DEF CountedOnce, RoutingInit
<1>4. \A a \in Actors : AtWork(a)
  BY DEF RoutingInit, AtWork, Loaded, Held, Waited, Holding
<1>5. \A d \in Drivers : Retried(d) /\ Answered(d)
  BY DEF RoutingInit, Retried, Answered, TakesDown, Actors
<1> QED
  BY <1>1, <1>2, <1>3, <1>4, <1>5 DEF RoutingInv

LEMMA StepInv ==
  ASSUME RoutingInv, [RoutingNext]_routingVars
  PROVE  RoutingInv'
<1>0. Typed /\ Typed' /\ Kept /\ CountedOnce
  BY TypedStep DEF RoutingInv
<1>1. CASE \E x \in Actors : Steps(x)
  <2>1. PICK x \in Actors : Steps(x)
    BY <1>1
  <2>2. Kept' /\ CountedOnce' /\ Others(x)
    BY <1>0, <2>1, KeptStep, CountStep, StepsAlone
  <2>3. ASSUME NEW a \in Actors PROVE AtWork(a)'
    <3>1. CASE a = x
      BY <1>0, <2>1, <3>1, WorkStep
    <3>2. CASE a # x
      BY <2>2, <3>2 DEF RoutingInv, Others, AtWork, Loaded, Held, Waited
    <3> QED BY <3>1, <3>2
  <2>4. ASSUME NEW d \in Drivers PROVE Answered(d)'
    BY <1>0, <2>1, AnsweredStep
  <2>5. ASSUME NEW d \in Drivers PROVE Retried(d)'
    <3>1. CASE d = x
      BY <1>0, <2>1, <3>1, RetryStep
    <3>2. CASE d # x
      <4>1. task'[d] = task[d] /\ rows'[d] = rows[d] /\ pc'[d] = pc[d]
        BY <2>2, <3>2 DEF Others, Actors
      <4> QED BY <4>1 DEF RoutingInv, Retried
    <3> QED BY <3>1, <3>2
  <2> QED BY <1>0, <2>2, <2>3, <2>4, <2>5 DEF RoutingInv
<1>2. CASE Tick \/ UNCHANGED routingVars
  <2>1. /\ UNCHANGED <<config, quota, feedback, task, rows, pc, snap, selected, cand, err,
                       due, seen, settled, faults, deaths>>
        /\ now \in Nat /\ now' \in Nat /\ now <= now'
    BY <1>0, <1>2, RoutingConstants
    DEF Tick, routingVars, tables, local, history, bounds, Typed, SharedTyped
  <2>2. Kept'
    BY <1>0, <2>1 DEF Kept, Recording, TakesDown, Typed, SharedTyped, Row
  <2>3. CountedOnce'
    BY <1>0, <2>1 DEF CountedOnce, Results, Pending, Tier, planner_pool, Candidates
  <2>4. ASSUME NEW a \in Actors PROVE AtWork(a)'
    <3>1. AtWork(a) /\ err[a].at \in Nat
      BY <1>0 DEF RoutingInv, Typed, LocalTyped, Answers
    <3>2. pc[a] \in {"dispatch", "invoke"} => seen[a][cand[a]] \in Nat
      BY <1>0, <3>1 DEF Typed, LocalTyped, AtWork, Held, Holding
    <3> QED BY <2>1, <3>1, <3>2 DEF AtWork, Loaded, Held, Waited
  <2>5. ASSUME NEW d \in Drivers PROVE Retried(d)' /\ Answered(d)'
    <3>1. Retried(d)'
      BY <2>1 DEF RoutingInv, Retried
    <3>2. /\ \A h \in Harnesses : due[h] \in Nat
          /\ err[d].after \in Nat /\ err[d].at \in Nat /\ Answered(d)
      BY <1>0 DEF RoutingInv, Typed, LocalTyped, HistoryTyped, Answers, Actors
    <3> QED BY <2>1, <3>1, <3>2 DEF Answered, TakesDown
  <2> QED BY <1>0, <2>2, <2>3, <2>4, <2>5 DEF RoutingInv
<1> QED
  BY <1>1, <1>2, NextSteps

\* The inductive invariant of routing: a row that nobody is about to replace lasts as long as
\* its harness asked, what is about to replace it lasts as long as well, an actor at work was
\* let through by the rows it could read, and counts and results differ by no more than the
\* deaths and the faults.
THEOREM RoutingInvariance == RoutingSpec => []RoutingInv
BY RoutingInitInv, StepInv, PTL DEF RoutingSpec

(* Exhaustion is honoured: once no answer is being taken down, the row of  *)
(* a harness is open and lasts, to the half second, until the harness      *)
(* asked to be used again, or until the earliest end of answers that were  *)
(* taken down at the same time; and nobody who could read it starts an     *)
(* attempt or a plan on the harness before (record_quota, load_quotas,     *)
(* is_available).                                                          *)
THEOREM QuotaKept == RoutingSpec => []QuotaIsKept
<1>1. RoutingInv => QuotaIsKept
  <2> SUFFICES ASSUME RoutingInv PROVE RoutingTypeOK /\ CooldownRespected /\ LastAnswerCounts
    BY DEF QuotaIsKept
  <2>1. SharedTyped /\ TasksTyped /\ LocalTyped /\ Kept
    BY DEF RoutingInv, Typed
  <2>2. \A a \in Actors : AtWork(a)
    BY DEF RoutingInv
  <2>3. \A d \in Drivers : Retried(d)
    BY DEF RoutingInv
  <2>4. RoutingTypeOK
    BY <2>1, <2>2, <2>3
    DEF RoutingTypeOK, SharedTyped, TasksTyped, Counts, Places, TaskStates, Kept, AtWork, Held, Retried
  <2>5. CooldownRespected
    BY <2>2 DEF CooldownRespected, AtWork, Waited
  <2>6. LastAnswerCounts
    BY <2>1 DEF LastAnswerCounts, Kept, Promises
  <2> QED BY <2>4, <2>5, <2>6
<1> QED
  BY <1>1, RoutingInvariance, PTL

(* No harness is counted more often than it has results, but for the       *)
(* drivers that died over one, and no result goes uncounted, but for those *)
(* the store failed to count (record_outcome).                             *)
THEOREM NoneCountedTwice == RoutingSpec => []CountedOnce
<1>1. RoutingInv => CountedOnce
  BY DEF RoutingInv
<1> QED
  BY <1>1, RoutingInvariance, PTL

=============================================================================
