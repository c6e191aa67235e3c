------------------------ MODULE CleanupJournal_proofs ------------------------
(***************************************************************************)
(* Proofs about CleanupJournal, for any worktrees, any number of appliers, *)
(* crashes, plans and outside changes.                                     *)
(***************************************************************************)
EXTENDS CleanupJournal, FiniteSetTheorems, TLAPS

\* What each applier knows about the disk.  The mark is a moment of the past;
\* an apply works on a digest that was shown; the intent precedes the removal;
\* and unless somebody else was at the worktrees, what is to be recorded as
\* completed is gone.
Knows ==
  \A p \in Appliers :
    /\ mark[p] <= drift
    /\ pc[p] # "idle" => plan[p] \in plans
    /\ pc[p] = "remove" => \A w \in Worktrees : IsFirst(w, todo[p]) =>
         <<plan[p], w, "intent">> \in journal /\ Eligible(plan[p].rows[w])
    /\ drift = 0 =>
         /\ \A w \in recon[p] : wt[w] = "missing"
         /\ pc[p] = "record" => \A w \in Worktrees : IsFirst(w, todo[p]) => wt[w] = "missing"

IInv == TypeOK /\ Knows /\ FencedRemoval /\ JournalMatchesDisk

\* IsFirst names at most one worktree.
LEMMA FirstIsOne ==
  ASSUME NEW S \in SUBSET Worktrees, NEW v \in Worktrees, NEW w \in Worktrees,
         IsFirst(v, S), IsFirst(w, S)
  PROVE  v = w
  BY WorktreesAssumption DEF IsFirst

\* Every step keeps the types, and hands the fence over as TypeOK says.
LEMMA Typing ==
  ASSUME TypeOK, [Next]_vars
  PROVE  TypeOK'
  <1>. USE DEF TypeOK, Fenced
  <1>d. NoDigest \in Digest /\ Facts \in Digest
    BY DEF NoDigest, Facts, Digest, Kinds
  <1>r. ASSUME NEW p \in Appliers, NEW s \in Statuses, Return(p, s)
        PROVE  /\ fence' \in Appliers \cup {NoProcess}
               /\ pc' \in [Appliers -> Pcs]
               /\ plan' \in [Appliers -> Digest] /\ seen' \in [Appliers -> Digest]
               /\ todo' \in [Appliers -> SUBSET Worktrees]
               /\ recon' \in [Appliers -> SUBSET Worktrees]
               /\ mark' \in [Appliers -> Nat] /\ status' \in [Appliers -> Statuses]
               /\ \A q \in Appliers : Fenced(q)' <=> fence' = q
    BY <1>r, <1>d, AppliersAssumption DEF Return, NoLocals, Pcs
  <1>1. CASE UNCHANGED vars
    BY <1>1 DEF vars, process, counts
  <1>2. CASE Preview
    BY <1>2, <1>d DEF Preview, process, counts
  <1>3. ASSUME NEW w \in Worktrees, UserChanges(w) PROVE TypeOK'
    BY <1>3 DEF UserChanges, process
  <1>4. CASE HeadMoves
    BY <1>4 DEF HeadMoves, process
  <1>5. ASSUME NEW p \in Appliers, NEW d \in plans, NEW only \in SUBSET Worktrees,
               Apply(p, d, only)
        PROVE TypeOK'
    BY <1>5, <1>d DEF Apply, Pcs, Statuses
  <1>6. ASSUME NEW p \in Appliers, Reconcile(p) PROVE TypeOK'
    <2>1. CASE \E s \in Statuses : Return(p, s)
      BY <1>6, <2>1, <1>r DEF Reconcile, counts
    <2>2. ASSUME pc' = [pc EXCEPT ![p] = "acquire"],
                 todo' = [todo EXCEPT ![p] = {w \in todo[p] : Eligible(plan[p].rows[w])}],
                 recon' = [recon EXCEPT ![p] = Removed(plan[p])],
                 UNCHANGED <<fence, plan, seen, mark, status>>
          PROVE TypeOK'
      <3>1. Removed(plan[p]) \in SUBSET Worktrees
        BY DEF Removed, Journaled
      <3>. QED BY <1>6, <2>2, <3>1 DEF Reconcile, counts, Pcs
    <2>. QED BY <1>6, <2>1, <2>2 DEF Reconcile, Statuses
  <1>7. ASSUME NEW p \in Appliers, Acquire(p) PROVE TypeOK'
    <2>1. CASE FenceFree
      BY <1>7, <2>1, AppliersAssumption DEF Acquire, FenceFree, counts, Pcs
    <2>2. CASE ~FenceFree
      <3>1. Return(p, "refused")
        BY <1>7, <2>2 DEF Acquire
      <3>. QED BY <1>7, <3>1, <1>r DEF Acquire, counts, Statuses
    <2>. QED BY <2>1, <2>2
  <1>8. ASSUME NEW p \in Appliers, NEW w \in Worktrees, Candidate(p, w) PROVE TypeOK'
    <2>0. \A s \in Steps : write(plan[p], w, s) =>
            journal' \subseteq Digest \X Worktrees \X Steps
      BY DEF write
    <2>1. CASE Return(p, "recovery-required") /\ write(plan[p], w, "blocked")
      BY <1>8, <2>0, <2>1, <1>r DEF Candidate, counts, Statuses, Steps
    <2>2. CASE /\ write(plan[p], w, "completed")
               /\ todo' = [todo EXCEPT ![p] = @ \ {w}]
               /\ UNCHANGED <<fence, pc, plan, seen, recon, mark, status>>
      BY <1>8, <2>0, <2>2 DEF Candidate, counts, Steps
    <2>3. CASE /\ write(plan[p], w, "intent")
               /\ pc' = [pc EXCEPT ![p] = "remove"] /\ mark' = [mark EXCEPT ![p] = drift]
               /\ UNCHANGED <<fence, plan, seen, todo, recon, status>>
      BY <1>8, <2>0, <2>3 DEF Candidate, counts, Steps, Pcs
    <2>. QED BY <1>8, <2>1, <2>2, <2>3 DEF Candidate
  <1>9. ASSUME NEW p \in Appliers, NEW w \in Worktrees, Remove(p, w) PROVE TypeOK'
    <2>0. write(plan[p], w, "blocked") => journal' \subseteq Digest \X Worktrees \X Steps
      BY DEF write, Steps
    <2>w. wt' \in [Worktrees -> Kinds] /\ faults' \in Nat
      BY <1>9 DEF Remove, Kinds
    <2>1. CASE Return(p, "git-remove-failed") /\ write(plan[p], w, "blocked")
      BY <1>9, <2>0, <2>1, <2>w, <1>r DEF Remove, Statuses
    <2>2. CASE /\ pc' = [pc EXCEPT ![p] = "record"]
               /\ UNCHANGED <<journal, fence, plan, seen, todo, recon, mark, status, faults>>
      BY <1>9, <2>2, <2>w DEF Remove, Pcs
    <2>. QED BY <1>9, <2>1, <2>2 DEF Remove
  <1>10. ASSUME NEW p \in Appliers, NEW w \in Worktrees, Record(p, w) PROVE TypeOK'
    <2>1. journal' \subseteq Digest \X Worktrees \X Steps
      BY <1>10 DEF Record, write, Steps
    <2>. QED BY <1>10, <2>1 DEF Record, counts, Pcs
  <1>11. ASSUME NEW p \in Appliers, Finish(p) PROVE TypeOK'
    BY <1>11, <1>r DEF Finish, counts, Statuses
  <1>12. ASSUME NEW p \in Appliers, Crash(p) PROVE TypeOK'
    BY <1>12, <1>r DEF Crash, Statuses
  <1>. QED
    BY <1>1, <1>2, <1>3, <1>4, <1>5, <1>6, <1>7, <1>8, <1>9, <1>10, <1>11, <1>12
    DEF Next, World, Begin, Applying

\* A call that returns leaves nothing behind that the invariant speaks of.
LEMMA ReturnKeeps ==
  ASSUME TypeOK, Knows, FencedRemoval, NEW p \in Appliers, NEW s, Return(p, s),
         UNCHANGED <<plans, drift>>, journal \subseteq journal',
         \A w \in Worktrees : wt'[w] # wt[w] => fence = p /\ wt[w] # "missing"
  PROVE  Knows' /\ FencedRemoval'
  <1>1. \A q \in Appliers : q # p =>
          /\ pc'[q] = pc[q] /\ plan'[q] = plan[q] /\ todo'[q] = todo[q]
          /\ recon'[q] = recon[q] /\ mark'[q] = mark[q]
    BY DEF TypeOK, Return, NoLocals
  <1>2. pc'[p] = "idle" /\ recon'[p] = {} /\ mark'[p] = 0
    BY DEF TypeOK, Return, NoLocals
  <1>3. ASSUME NEW q \in Appliers, q # p, pc[q] \in {"remove", "record"}
        PROVE  \A w \in Worktrees : wt'[w] = wt[w]
    BY <1>3 DEF TypeOK, Fenced
  <1>4. ASSUME NEW q \in Appliers, NEW w \in recon[q], wt[w] = "missing"
        PROVE  wt'[w] = "missing"
    BY <1>4 DEF TypeOK
  <1>5. Knows'
    <2>. SUFFICES ASSUME NEW q \in Appliers
         PROVE  /\ mark'[q] <= drift'
                /\ pc'[q] # "idle" => plan'[q] \in plans'
                /\ pc'[q] = "remove" => \A w \in Worktrees : IsFirst(w, todo'[q]) =>
                     <<plan'[q], w, "intent">> \in journal' /\ Eligible(plan'[q].rows[w])
                /\ drift' = 0 =>
                     /\ \A w \in recon'[q] : wt'[w] = "missing"
                     /\ pc'[q] = "record" =>
                          \A w \in Worktrees : IsFirst(w, todo'[q]) => wt'[w] = "missing"
      BY DEF Knows, IsFirst
    <2>1. CASE q = p
      BY <1>2, <2>1 DEF TypeOK
    <2>2. CASE q # p
      BY <1>1, <1>3, <1>4, <2>2 DEF Knows
    <2>. QED BY <2>1, <2>2
  <1>6. FencedRemoval'
    BY <1>1, <1>2, <1>3 DEF FencedRemoval, IsFirst, Eligible
  <1>. QED BY <1>5, <1>6

\* The journal and the disk still agree when nothing is completed or removed.
LEMMA DiskKeeps ==
  ASSUME TypeOK, JournalMatchesDisk, UNCHANGED <<wt, plans, drift>>,
         journal \subseteq journal',
         \A r \in journal' \ journal : r[3] # "completed"
  PROVE  JournalMatchesDisk'
  BY DEF JournalMatchesDisk, Eligible

\* Every step of an applier, the operator or the world keeps the invariant.
LEMMA Inductive ==
  ASSUME IInv, [Next]_vars
  PROVE  IInv'
  <1>t. TypeOK /\ Knows /\ FencedRemoval /\ JournalMatchesDisk /\ TypeOK'
    BY Typing DEF IInv
  <1>. SUFFICES Knows' /\ FencedRemoval' /\ JournalMatchesDisk'
    BY <1>t DEF IInv
  <1>1. CASE UNCHANGED vars
    BY <1>1, <1>t DEF vars, process, counts, Knows, FencedRemoval, JournalMatchesDisk,
                     IsFirst, Eligible
  <1>2. CASE Preview
    BY <1>2, <1>t DEF Preview, process, counts, Knows, FencedRemoval, JournalMatchesDisk,
                     IsFirst, Eligible
  <1>3. ASSUME drift' = drift + 1, UNCHANGED <<plans, journal, fence, process>>
        PROVE  Knows' /\ FencedRemoval' /\ JournalMatchesDisk'
    <2>1. drift' # 0 /\ \A p \in Appliers : mark'[p] <= drift' /\ mark'[p] # drift'
      BY <1>3, <1>t DEF Knows, TypeOK, process
    <2>2. Knows'
      BY <1>3, <2>1, <1>t DEF Knows, process, IsFirst, Eligible
    <2>. QED BY <2>1, <2>2 DEF FencedRemoval, JournalMatchesDisk
  <1>4. ASSUME NEW p \in Appliers, NEW d \in plans, NEW only \in SUBSET Worktrees,
               Apply(p, d, only)
        PROVE  Knows' /\ FencedRemoval' /\ JournalMatchesDisk'
    <2>1. \A q \in Appliers : q # p => pc'[q] = pc[q] /\ plan'[q] = plan[q] /\ todo'[q] = todo[q]
      BY <1>4, <1>t DEF Apply, TypeOK
    <2>2. pc'[p] = "reconcile" /\ plan'[p] = d
      BY <1>4, <1>t DEF Apply, TypeOK
    <2>3. UNCHANGED <<wt, plans, journal, recon, mark, drift>>
      BY <1>4 DEF Apply
    <2>4. Knows'
      BY <2>1, <2>2, <2>3, <1>t DEF Knows, IsFirst, Eligible
    <2>5. FencedRemoval'
      BY <2>1, <2>2, <2>3, <1>t DEF FencedRemoval, IsFirst, Eligible
    <2>6. JournalMatchesDisk'
      BY <2>3, <1>t, DiskKeeps
    <2>. QED BY <2>4, <2>5, <2>6
  <1>5. ASSUME NEW p \in Appliers, NEW s, Return(p, s),
               UNCHANGED <<wt, plans, journal, drift>>
        PROVE  Knows' /\ FencedRemoval' /\ JournalMatchesDisk'
    BY <1>5, <1>t, ReturnKeeps, DiskKeeps
  <1>6. ASSUME NEW p \in Appliers, Reconcile(p)
        PROVE  Knows' /\ FencedRemoval' /\ JournalMatchesDisk'
    <2>1. CASE \E s : Return(p, s)
      BY <1>5, <1>6, <2>1 DEF Reconcile, counts
    <2>2. ASSUME pc' = [pc EXCEPT ![p] = "acquire"],
                 recon' = [recon EXCEPT ![p] = Removed(plan[p])],
                 todo' = [todo EXCEPT ![p] = {w \in todo[p] : Eligible(plan[p].rows[w])}],
                 \A w \in Journaled(plan[p]) : ~Contradicted(p, plan[p], w),
                 UNCHANGED <<fence, plan, seen, mark, status>>
          PROVE  Knows' /\ FencedRemoval' /\ JournalMatchesDisk'
      <3>0. pc[p] = "reconcile" /\ UNCHANGED <<wt, plans, journal, drift>>
        BY <1>6 DEF Reconcile, counts
      <3>1. \A q \in Appliers : q # p => pc'[q] = pc[q] /\ todo'[q] = todo[q] /\ recon'[q] = recon[q]
        BY <2>2, <1>t DEF TypeOK
      <3>2. pc'[p] = "acquire" /\ recon'[p] = Removed(plan[p])
        BY <2>2, <1>t DEF TypeOK
      <3>3. \A w \in Removed(plan[p]) : wt[w] = "missing"
        BY <2>2 DEF Removed, Contradicted, present, registered
      <3>4. Knows'
        BY <2>2, <3>0, <3>1, <3>2, <3>3, <1>t DEF Knows, IsFirst, Eligible
      <3>5. FencedRemoval'
        BY <2>2, <3>0, <3>1, <3>2, <1>t DEF FencedRemoval, IsFirst, Eligible
      <3>6. JournalMatchesDisk'
        BY <3>0, <1>t, DiskKeeps
      <3>. QED BY <3>4, <3>5, <3>6
    <2>. QED BY <1>6, <2>1, <2>2 DEF Reconcile
  <1>7. ASSUME NEW p \in Appliers, Acquire(p)
        PROVE  Knows' /\ FencedRemoval' /\ JournalMatchesDisk'
    <2>1. CASE Return(p, "refused")
      BY <1>5, <1>7, <2>1 DEF Acquire, counts
    <2>2. CASE pc' = [pc EXCEPT ![p] = "next"] /\ UNCHANGED <<plan, seen, todo, recon, mark, status>>
      <3>0. pc[p] = "acquire" /\ UNCHANGED <<wt, plans, journal, drift>>
        BY <1>7 DEF Acquire, counts
      <3>1. pc'[p] = "next" /\ \A q \in Appliers : q # p => pc'[q] = pc[q]
        BY <2>2, <1>t DEF TypeOK
      <3>2. Knows' /\ FencedRemoval'
        BY <2>2, <3>0, <3>1, <1>t DEF Knows, FencedRemoval, IsFirst, Eligible
      <3>. QED BY <3>0, <3>2, <1>t, DiskKeeps
    <2>. QED BY <1>7, <2>1, <2>2 DEF Acquire
  <1>8. ASSUME NEW p \in Appliers, NEW w \in Worktrees, Candidate(p, w)
        PROVE  Knows' /\ FencedRemoval' /\ JournalMatchesDisk'
    <2>0. pc[p] = "next" /\ IsFirst(w, todo[p]) /\ UNCHANGED <<wt, plans, drift>>
      BY <1>8 DEF Candidate, counts
    <2>1. CASE write(plan[p], w, "blocked") /\ Return(p, "recovery-required")
      <3>1. journal \subseteq journal' /\ \A r \in journal' \ journal : r[3] # "completed"
        BY <2>1 DEF write
      <3>. QED BY <2>0, <2>1, <3>1, <1>t, ReturnKeeps, DiskKeeps
    <2>2. CASE /\ w \in recon[p] /\ write(plan[p], w, "completed")
               /\ todo' = [todo EXCEPT ![p] = @ \ {w}]
               /\ UNCHANGED <<fence, pc, plan, seen, recon, mark, status>>
      <3>1. journal \subseteq journal' /\ \A q \in Appliers : q # p => todo'[q] = todo[q]
        BY <2>2, <1>t DEF write, TypeOK
      <3>2. Knows' /\ FencedRemoval'
        BY <2>0, <2>2, <3>1, <1>t DEF Knows, FencedRemoval, IsFirst, Eligible
      <3>3. drift = 0 => wt[w] = "missing"
        BY <2>2, <1>t DEF Knows
      <3>4. JournalMatchesDisk'
        BY <2>0, <2>2, <3>1, <3>3, <1>t DEF JournalMatchesDisk, write, Eligible
      <3>. QED BY <3>2, <3>4
    <2>3. CASE /\ Valid(p, w) /\ write(plan[p], w, "intent")
               /\ pc' = [pc EXCEPT ![p] = "remove"] /\ mark' = [mark EXCEPT ![p] = drift]
               /\ UNCHANGED <<fence, plan, seen, todo, recon, status>>
      <3>1. journal \subseteq journal' /\ <<plan[p], w, "intent">> \in journal'
            /\ \A r \in journal' \ journal : r[3] # "completed"
        BY <2>3 DEF write
      <3>2. pc'[p] = "remove" /\ mark'[p] = drift
            /\ \A q \in Appliers : q # p => pc'[q] = pc[q] /\ mark'[q] = mark[q]
        BY <2>3, <1>t DEF TypeOK
      <3>3. \A v \in Worktrees : IsFirst(v, todo[p]) => v = w
        BY <2>0, <1>t, FirstIsOne DEF TypeOK
      <3>4. wt[w] = plan[p].rows[w] /\ Eligible(wt[w])
        BY <2>3 DEF Valid
      <3>5. Knows'
        BY <2>0, <2>3, <3>1, <3>2, <3>3, <3>4, <1>t DEF Knows, IsFirst, Eligible, TypeOK
      <3>6. FencedRemoval'
        BY <2>0, <2>3, <3>2, <3>3, <3>4, <1>t DEF FencedRemoval, IsFirst, Eligible
      <3>. QED BY <2>0, <3>1, <3>5, <3>6, <1>t, DiskKeeps
    <2>. QED BY <1>8, <2>1, <2>2, <2>3 DEF Candidate
  <1>9. ASSUME NEW p \in Appliers, NEW w \in Worktrees, Remove(p, w)
        PROVE  Knows' /\ FencedRemoval' /\ JournalMatchesDisk'
    <2>0. pc[p] = "remove" /\ fence = p /\ IsFirst(w, todo[p]) /\ UNCHANGED <<plans, drift>>
      BY <1>9, <1>t DEF Remove, TypeOK, Fenced
    <2>1. CASE Return(p, "git-remove-failed") /\ write(plan[p], w, "blocked")
      <3>1. journal \subseteq journal' /\ \A r \in journal' \ journal : r[3] # "completed"
        BY <2>1 DEF write
      <3>2. \A v \in Worktrees : wt'[v] # wt[v] => v = w /\ wt[v] # "missing"
        BY <1>9, <1>t DEF Remove, GitRemoves, TypeOK
      <3>3. wt'[w] # "missing" \/ wt'[w] = wt[w]
        BY <1>9, <2>0, <2>1, <1>t DEF Remove, Return, TypeOK
      <3>4. \A v \in Worktrees : wt'[v] = "missing" <=> wt[v] = "missing"
        BY <3>2, <3>3
      <3>5. ASSUME drift' = 0, NEW r \in journal', r[3] = "completed"
            PROVE  wt'[r[2]] = "missing"
        <4>1. r \in journal /\ r[2] \in Worktrees
          BY <3>1, <3>5, <1>t DEF TypeOK
        <4>2. wt[r[2]] = "missing"
          BY <2>0, <3>5, <4>1, <1>t DEF JournalMatchesDisk
        <4>. QED BY <3>4, <4>1, <4>2
      <3>6. ASSUME drift' = 0, NEW v \in Worktrees, wt'[v] = "missing"
            PROVE  \E d \in plans' : <<d, v, "intent">> \in journal' /\ Eligible(d.rows[v])
        <4>1. \E d \in plans : <<d, v, "intent">> \in journal /\ Eligible(d.rows[v])
          BY <2>0, <3>4, <3>6, <1>t DEF JournalMatchesDisk
        <4>. QED BY <2>0, <3>1, <4>1
      <3>7. JournalMatchesDisk'
        BY <3>5, <3>6 DEF JournalMatchesDisk
      <3>. QED BY <2>0, <2>1, <3>1, <3>2, <3>7, <1>t, ReturnKeeps
    <2>2. CASE /\ wt' = [wt EXCEPT ![w] = "missing"]
               /\ pc' = [pc EXCEPT ![p] = "record"]
               /\ UNCHANGED <<journal, fence, plan, seen, todo, recon, mark, status, faults>>
      <3>1. wt'[w] = "missing" /\ \A v \in Worktrees : v # w => wt'[v] = wt[v]
        BY <2>2, <1>t DEF TypeOK
      <3>2. pc'[p] = "record" /\ \A q \in Appliers : q # p => pc'[q] = pc[q]
        BY <2>2, <1>t DEF TypeOK
      <3>3. \A v \in Worktrees : IsFirst(v, todo[p]) => v = w
        BY <2>0, <1>t, FirstIsOne DEF TypeOK
      <3>4. \A q \in Appliers : q # p => pc[q] \notin {"remove", "record"}
        BY <2>0, <1>t DEF TypeOK, Fenced
      <3>5. Knows'
        BY <2>0, <2>2, <3>1, <3>2, <3>3, <3>4, <1>t DEF Knows, IsFirst, Eligible, TypeOK
      <3>6. FencedRemoval'
        BY <3>2, <3>4, <2>2 DEF FencedRemoval
      <3>7. <<plan[p], w, "intent">> \in journal /\ Eligible(plan[p].rows[w]) /\ plan[p] \in plans
        BY <2>0, <1>t DEF Knows
      <3>8. JournalMatchesDisk'
        BY <2>0, <2>2, <3>1, <3>7, <1>t DEF JournalMatchesDisk, Eligible, TypeOK
      <3>. QED BY <3>5, <3>6, <3>8
    <2>. QED BY <1>9, <2>1, <2>2 DEF Remove
  <1>10. ASSUME NEW p \in Appliers, NEW w \in Worktrees, Record(p, w)
         PROVE  Knows' /\ FencedRemoval' /\ JournalMatchesDisk'
    <2>0. /\ pc[p] = "record" /\ IsFirst(w, todo[p]) /\ write(plan[p], w, "completed")
          /\ UNCHANGED <<wt, plans, plan, recon, mark, drift>>
      BY <1>10 DEF Record, counts
    <2>1. pc'[p] = "next" /\ \A q \in Appliers : q # p => pc'[q] = pc[q] /\ todo'[q] = todo[q]
      BY <1>10, <1>t DEF Record, TypeOK
    <2>2. journal \subseteq journal'
      BY <2>0 DEF write
    <2>3. Knows' /\ FencedRemoval'
      BY <2>0, <2>1, <2>2, <1>t DEF Knows, FencedRemoval, IsFirst, Eligible
    <2>4. drift = 0 => wt[w] = "missing"
      BY <2>0, <1>t DEF Knows
    <2>5. JournalMatchesDisk'
      BY <2>0, <2>2, <2>4, <1>t DEF JournalMatchesDisk, write, Eligible
    <2>. QED BY <2>3, <2>5
  <1>11. ASSUME NEW p \in Appliers, Finish(p)
         PROVE  Knows' /\ FencedRemoval' /\ JournalMatchesDisk'
    BY <1>5, <1>11 DEF Finish, counts
  <1>12. ASSUME NEW p \in Appliers, Crash(p)
         PROVE  Knows' /\ FencedRemoval' /\ JournalMatchesDisk'
    BY <1>5, <1>12 DEF Crash
  <1>13. CASE World
    BY <1>2, <1>3, <1>13 DEF World, UserChanges, HeadMoves
  <1>. QED
    BY <1>1, <1>4, <1>6, <1>7, <1>8, <1>9, <1>10, <1>11, <1>12, <1>13
    DEF Next, Begin, Applying

\* The invariant holds before anything was applied.
LEMMA Initial ==
  ASSUME Init
  PROVE  IInv
  <1>1. NoDigest \in Digest
    BY DEF NoDigest, Digest, Kinds
  <1>2. TypeOK
    BY <1>1, AppliersAssumption DEF Init, TypeOK, Kinds, Fenced, Pcs, Statuses
  <1>3. Knows /\ FencedRemoval /\ JournalMatchesDisk
    BY DEF Init, Knows, FencedRemoval, JournalMatchesDisk
  <1>. QED BY <1>2, <1>3 DEF IInv

\* What the appliers know about the disk, the fence and the journal, always.
THEOREM CleanupInvariant == Spec => []IInv
  <1>1. Init => IInv
    BY Initial
  <1>2. IInv /\ [Next]_vars => IInv'
    BY Inductive
  <1>. QED BY <1>1, <1>2, PTL DEF Spec

\* Every reachable state is type correct, and apply_cleanup holds the fence
\* exactly between its acquisition and its return.
THEOREM CleanupTypeCorrect == Spec => []TypeOK
  <1>1. IInv => TypeOK
    BY DEF IInv
  <1>. QED BY <1>1, CleanupInvariant, PTL

\* However many processes apply, a candidate is still what the digest says
\* when git is asked to remove it, unless somebody else changed it.
THEOREM FenceTheorem == Spec => []FencedRemoval
  <1>1. IInv => FencedRemoval
    BY DEF IInv
  <1>. QED BY <1>1, CleanupInvariant, PTL

\* Journal and disk agree across any crashes, failed removals and concurrent
\* applies.
THEOREM JournalTheorem == Spec => []JournalMatchesDisk
  <1>1. IInv => JournalMatchesDisk
    BY DEF IInv
  <1>. QED BY <1>1, CleanupInvariant, PTL

\* Uncommitted work survives every cleanup: git refuses a dirty worktree, and
\* apply_cleanup never forces it.
THEOREM DirtTheorem == Spec => DirtSurvives
  <1>1. TypeOK /\ [Next]_vars =>
          [\A w \in Worktrees : wt[w] = "dirty" /\ wt'[w] \in {"missing", "prunable"} =>
             drift' # drift]_vars
    <2>. SUFFICES ASSUME TypeOK, Next, NEW w \in Worktrees, wt[w] = "dirty",
                         wt'[w] \in {"missing", "prunable"}
         PROVE  drift' # drift
      OBVIOUS
    <2>1. CASE World
      BY <2>1 DEF World, Preview, UserChanges, HeadMoves, TypeOK
    <2>2. ASSUME NEW p \in Appliers, NEW v \in Worktrees, Remove(p, v) PROVE FALSE
      BY <2>2 DEF Remove, GitRemoves, TypeOK
    <2>3. CASE UNCHANGED wt
      BY <2>3
    <2>. QED
      BY <2>1, <2>2, <2>3
      DEF Next, Begin, Applying, Apply, Reconcile, Acquire, Candidate, Record, Finish, Crash
  <1>. QED BY <1>1, CleanupTypeCorrect, PTL DEF Spec, DirtSurvives

-----------------------------------------------------------------------------
(* Recovery: one apply at a time, nobody else at the worktrees. *)

Undisturbed == drift = 0 /\ faults = 0 /\ ~overlap /\ \A d, e \in plans : d = e

OneApply == \A p, q \in Appliers : pc[p] # "idle" /\ pc[q] # "idle" => p = q
NeverBlocked ==
  /\ \A p \in Appliers : status[p] # "recovery-required"
  /\ \A r \in journal : r[3] # "blocked"

\* The disk is as the digest says, but for removals the journal tells of.
Explained(d) ==
  /\ d.retained = retained
  /\ \A w \in Worktrees :
       wt[w] = d.rows[w] \/ (wt[w] = "missing" /\ <<d, w, "intent">> \in journal)

\* The preview of an apply is current when it is compared with the digest, and
\* from then on each candidate that is left was removed by an earlier apply or
\* is still what the digest says.
OnCourse(p) ==
  /\ pc[p] = "reconcile" => seen[p] = Facts
  /\ pc[p] = "acquire" \/ Fenced(p) => \A w \in todo[p] :
       /\ Eligible(plan[p].rows[w])
       /\ w \in recon[p] \/ wt[w] = plan[p].rows[w] \/ (pc[p] = "record" /\ IsFirst(w, todo[p]))

Steady ==
  /\ OneApply /\ NeverBlocked
  /\ \A w \in Worktrees : wt[w] \in {"landed", "dirty", "missing"}
  /\ \A d \in plans : Explained(d)
  /\ \A p \in Appliers : OnCourse(p)

Alone == IsFiniteSet(plans) /\ (Undisturbed => Steady)

\* Nothing that disturbs is ever undone.
LEMMA StaysUndisturbed ==
  ASSUME IInv, [Next]_vars, Undisturbed'
  PROVE  Undisturbed /\ drift' = drift /\ faults' = faults /\ overlap' = overlap
  <1>1. TypeOK /\ TypeOK'
    BY Typing DEF IInv
  <1>2. drift <= drift' /\ faults <= faults' /\ (overlap => overlap') /\ plans \subseteq plans'
    <2>1. CASE UNCHANGED vars
      BY <1>1, <2>1 DEF vars, counts, TypeOK
    <2>2. CASE World
      BY <1>1, <2>2 DEF World, Preview, HeadMoves, UserChanges, counts, TypeOK
    <2>3. ASSUME NEW p \in Appliers, Begin(p) \/ Crash(p)
          PROVE  drift <= drift' /\ faults <= faults' /\ (overlap => overlap') /\ plans \subseteq plans'
      BY <1>1, <2>3 DEF Begin, Apply, Crash, TypeOK
    <2>4. ASSUME NEW p \in Appliers, Applying(p)
          PROVE  drift <= drift' /\ faults <= faults' /\ (overlap => overlap') /\ plans \subseteq plans'
      BY <1>1, <2>4
      DEF Applying, Reconcile, Acquire, Finish, Candidate, Remove, Record, counts, TypeOK
    <2>. QED BY <2>1, <2>2, <2>3, <2>4 DEF Next
  <1>. QED BY <1>1, <1>2 DEF Undisturbed, TypeOK

\* A step of the one applier under way keeps it steady when the new journal
\* rows block nothing and its own candidates stay on course.
LEMMA SteadyStep ==
  ASSUME IInv, Steady, NEW p \in Appliers, pc[p] # "idle", pc' \in [Appliers -> Pcs],
         \A q \in Appliers : q # p => pc'[q] = pc[q] /\ status'[q] = status[q],
         status'[p] # "recovery-required",
         UNCHANGED <<retained, plans>>, journal \subseteq journal',
         \A r \in journal' \ journal : r[3] # "blocked",
         \A w \in Worktrees : wt'[w] # wt[w] =>
           wt'[w] = "missing" /\ \A d \in plans : <<d, w, "intent">> \in journal,
         OnCourse(p)'
  PROVE  Steady'
  <1>1. \A q \in Appliers : q # p => pc[q] = "idle" /\ pc'[q] = "idle"
    BY DEF Steady, OneApply
  <1>2. OneApply' /\ NeverBlocked'
    BY <1>1 DEF Steady, OneApply, NeverBlocked
  <1>3. \A w \in Worktrees : wt'[w] \in {"landed", "dirty", "missing"}
    BY DEF Steady
  <1>4. \A d \in plans' : Explained(d)'
    BY DEF Steady, Explained
  <1>5. \A q \in Appliers : OnCourse(q)'
    BY <1>1 DEF OnCourse, Fenced
  <1>. QED BY <1>2, <1>3, <1>4, <1>5 DEF Steady

LEMMA ReturnSteady ==
  ASSUME IInv, Steady, NEW p \in Appliers, pc[p] # "idle", NEW s, s # "recovery-required",
         Return(p, s), UNCHANGED <<wt, retained, plans, journal>>
  PROVE  Steady'
  <1>1. TypeOK
    BY DEF IInv
  <1>2. /\ pc' \in [Appliers -> Pcs] /\ pc'[p] = "idle" /\ status'[p] = s
        /\ \A q \in Appliers : q # p => pc'[q] = pc[q] /\ status'[q] = status[q]
    BY <1>1 DEF TypeOK, Return, Pcs
  <1>3. OnCourse(p)'
    BY <1>2 DEF OnCourse, Fenced
  <1>. QED BY <1>2, <1>3, SteadyStep

\* A digest that is applied again passes the comparison with the journal, and
\* its candidates are on course.
LEMMA ReconcileSteady ==
  ASSUME IInv, Undisturbed, Steady, NEW p \in Appliers, Reconcile(p)
  PROVE  Steady'
  <1>t. TypeOK /\ JournalMatchesDisk /\ Knows
    BY DEF IInv
  <1>. DEFINE d == plan[p]
  <1>0. pc[p] = "reconcile" /\ UNCHANGED <<wt, retained, plans, journal>>
    BY DEF Reconcile
  <1>1. /\ d \in plans /\ d \in Digest /\ seen[p] = Facts /\ Explained(d)
    BY <1>0, <1>t DEF Knows, Steady, OnCourse, TypeOK
  <1>2. ASSUME NEW w \in Journaled(d) PROVE ~Contradicted(p, d, w)
    <2>1. w \in Worktrees /\ wt[w] \in {"landed", "dirty", "missing"}
      BY DEF Journaled, Steady
    <2>2. present(w) = registered(w)
      BY <2>1 DEF present, registered
    <2>3. "blocked" \notin StepsOf(d, w)
      BY <1>1 DEF StepsOf, Steady, NeverBlocked
    <2>4. "completed" \in StepsOf(d, w) => ~present(w)
      BY <1>t DEF StepsOf, JournalMatchesDisk, Undisturbed, present
    <2>5. present(w) => seen[p].rows[w] = d.rows[w]
      <3>1. seen[p].rows = wt
        BY <1>1 DEF Facts
      <3>2. present(w) => wt[w] = d.rows[w]
        BY <1>1, <2>1 DEF Explained, present
      <3>. QED BY <3>1, <3>2
    <2>. QED BY <2>2, <2>3, <2>4, <2>5 DEF Contradicted, JournalStep
  <1>3. \A w \in Worktrees : w \in Removed(d) \/ wt[w] = d.rows[w]
    <2>. SUFFICES ASSUME NEW w \in Worktrees, wt[w] # d.rows[w] PROVE w \in Removed(d)
      OBVIOUS
    <2>1. wt[w] = "missing" /\ <<d, w, "intent">> \in journal
      BY <1>1 DEF Explained
    <2>. QED BY <2>1 DEF Removed, Journaled, StepsOf, Steps, present
  <1>4. Bound(p, d) = d
    <2>1. \A w \in Worktrees : (IF w \in Removed(d) THEN d.rows[w] ELSE seen[p].rows[w]) = d.rows[w]
      BY <1>1, <1>3 DEF Facts
    <2>2. seen[p].retained = d.retained
      BY <1>1 DEF Facts, Explained
    <2>3. d.rows = [w \in Worktrees |-> d.rows[w]] /\ d = [retained |-> d.retained, rows |-> d.rows]
      BY <1>1 DEF Digest
    <2>. HIDE DEF d
    <2>. QED BY <2>1, <2>2, <2>3 DEF Bound
  <1>5. CASE Return(p, "blocked")
    BY <1>0, <1>5, ReturnSteady
  <1>6. ASSUME pc' = [pc EXCEPT ![p] = "acquire"],
               todo' = [todo EXCEPT ![p] = {w \in todo[p] : Eligible(d.rows[w])}],
               recon' = [recon EXCEPT ![p] = Removed(d)],
               UNCHANGED <<fence, plan, seen, mark, status>>
        PROVE  Steady'
    <2>1. /\ pc' \in [Appliers -> Pcs] /\ pc'[p] = "acquire"
          /\ \A q \in Appliers : q # p => pc'[q] = pc[q]
      BY <1>6, <1>t DEF TypeOK, Pcs
    <2>2. recon'[p] = Removed(d) /\ todo'[p] = {w \in todo[p] : Eligible(d.rows[w])}
      BY <1>6, <1>t DEF TypeOK
    <2>3. OnCourse(p)'
      BY <1>0, <1>3, <1>6, <2>1, <2>2, <1>t DEF OnCourse, Fenced, Eligible, TypeOK
    <2>. QED BY <1>0, <1>6, <2>1, <2>3, SteadyStep DEF Steady, NeverBlocked
  <1>. QED BY <1>2, <1>4, <1>5, <1>6 DEF Reconcile

LEMMA AcquireSteady ==
  ASSUME IInv, Steady, NEW p \in Appliers, Acquire(p)
  PROVE  Steady'
  <1>t. TypeOK
    BY DEF IInv
  <1>0. pc[p] = "acquire" /\ UNCHANGED <<wt, retained, plans, journal>>
    BY DEF Acquire
  <1>1. CASE Return(p, "refused")
    BY <1>0, <1>1, ReturnSteady
  <1>2. CASE pc' = [pc EXCEPT ![p] = "next"] /\ UNCHANGED <<plan, seen, todo, recon, mark, status>>
    <2>1. /\ pc' \in [Appliers -> Pcs] /\ pc'[p] = "next"
          /\ \A q \in Appliers : q # p => pc'[q] = pc[q]
      BY <1>2, <1>t DEF TypeOK, Pcs
    <2>2. OnCourse(p)'
      BY <1>0, <1>2, <2>1 DEF Steady, OnCourse, Fenced, Eligible, IsFirst
    <2>. QED BY <1>0, <1>2, <2>1, <2>2, SteadyStep DEF Steady, NeverBlocked
  <1>. QED BY <1>1, <1>2 DEF Acquire

\* A candidate is completed or removed, never blocked.
LEMMA CandidateSteady ==
  ASSUME IInv, Steady, NEW p \in Appliers, NEW w \in Worktrees, Candidate(p, w)
  PROVE  Steady'
  <1>t. TypeOK
    BY DEF IInv
  <1>0. /\ pc[p] = "next" /\ w \in todo[p] /\ UNCHANGED <<wt, retained, plans>>
    BY DEF Candidate, IsFirst
  <1>1. w \in recon[p] \/ Valid(p, w)
    <2>1. w \in recon[p] \/ (wt[w] = plan[p].rows[w] /\ Eligible(plan[p].rows[w]))
      BY <1>0 DEF Steady, OnCourse, Fenced
    <2>. QED BY <2>1 DEF Valid, Eligible, registered
  <1>2. CASE /\ w \in recon[p] /\ write(plan[p], w, "completed")
             /\ todo' = [todo EXCEPT ![p] = @ \ {w}]
             /\ UNCHANGED <<fence, pc, plan, seen, recon, mark, status>>
    <2>1. todo'[p] = todo[p] \ {w} /\ pc' \in [Appliers -> Pcs]
      BY <1>2, <1>t DEF TypeOK
    <2>2. OnCourse(p)'
      BY <1>0, <1>2, <2>1 DEF Steady, OnCourse, Fenced, Eligible, IsFirst
    <2>3. journal \subseteq journal' /\ \A r \in journal' \ journal : r[3] # "blocked"
      BY <1>2 DEF write
    <2>. QED BY <1>0, <1>2, <2>1, <2>2, <2>3, SteadyStep DEF Steady, NeverBlocked
  <1>3. CASE /\ write(plan[p], w, "intent")
             /\ pc' = [pc EXCEPT ![p] = "remove"] /\ mark' = [mark EXCEPT ![p] = drift]
             /\ UNCHANGED <<fence, plan, seen, todo, recon, status>>
    <2>1. /\ pc' \in [Appliers -> Pcs] /\ pc'[p] = "remove"
          /\ \A q \in Appliers : q # p => pc'[q] = pc[q]
      BY <1>3, <1>t DEF TypeOK, Pcs
    <2>2. OnCourse(p)'
      BY <1>0, <1>3, <2>1 DEF Steady, OnCourse, Fenced, Eligible, IsFirst
    <2>3. journal \subseteq journal' /\ \A r \in journal' \ journal : r[3] # "blocked"
      BY <1>3 DEF write
    <2>. QED BY <1>0, <1>3, <2>1, <2>2, <2>3, SteadyStep DEF Steady, NeverBlocked
  <1>. QED BY <1>1, <1>2, <1>3 DEF Candidate

\* Git does not refuse a candidate that is as the digest says.
LEMMA RemoveSteady ==
  ASSUME IInv, Undisturbed, Steady, faults' = faults,
         NEW p \in Appliers, NEW w \in Worktrees, Remove(p, w)
  PROVE  Steady'
  <1>t. TypeOK /\ Knows /\ FencedRemoval
    BY DEF IInv
  <1>0. pc[p] = "remove" /\ IsFirst(w, todo[p]) /\ UNCHANGED <<retained, plans>>
    BY DEF Remove
  <1>1. GitRemoves(wt[w])
    <2>1. mark[p] = drift
      BY <1>t DEF Knows, Undisturbed, TypeOK
    <2>2. Eligible(wt[w])
      BY <1>0, <1>t, <2>1 DEF FencedRemoval
    <2>. QED BY <2>2 DEF Eligible, GitRemoves
  <1>2. /\ wt' = [wt EXCEPT ![w] = "missing"] /\ pc' = [pc EXCEPT ![p] = "record"]
        /\ UNCHANGED <<journal, fence, plan, seen, todo, recon, mark, status>>
    BY <1>1, <1>t DEF Remove, TypeOK
  <1>3. /\ pc' \in [Appliers -> Pcs] /\ pc'[p] = "record"
        /\ \A q \in Appliers : q # p => pc'[q] = pc[q]
    BY <1>2, <1>t DEF TypeOK, Pcs
  <1>4. wt'[w] = "missing" /\ \A v \in Worktrees : v # w => wt'[v] = wt[v]
    BY <1>2, <1>t DEF TypeOK
  <1>5. \A d \in plans : <<d, w, "intent">> \in journal
    BY <1>0, <1>t DEF Knows, Undisturbed
  <1>6. OnCourse(p)'
    BY <1>0, <1>2, <1>3, <1>4, <1>t DEF Steady, OnCourse, Fenced, Eligible, IsFirst, TypeOK
  <1>. QED BY <1>0, <1>2, <1>3, <1>4, <1>5, <1>6, SteadyStep DEF Steady, NeverBlocked

LEMMA RecordSteady ==
  ASSUME IInv, Steady, NEW p \in Appliers, NEW w \in Worktrees, Record(p, w)
  PROVE  Steady'
  <1>t. TypeOK
    BY DEF IInv
  <1>0. /\ pc[p] = "record" /\ IsFirst(w, todo[p]) /\ write(plan[p], w, "completed")
        /\ UNCHANGED <<wt, retained, plans, plan, recon, status>>
    BY DEF Record
  <1>1. /\ pc' \in [Appliers -> Pcs] /\ pc'[p] = "next" /\ todo'[p] = todo[p] \ {w}
        /\ \A q \in Appliers : q # p => pc'[q] = pc[q]
    BY <1>t DEF Record, TypeOK, Pcs
  <1>2. \A v \in Worktrees : IsFirst(v, todo[p]) => v = w
    BY <1>0, <1>t, FirstIsOne DEF TypeOK
  <1>3. OnCourse(p)'
    BY <1>0, <1>1, <1>2, <1>t DEF Steady, OnCourse, Fenced, Eligible, IsFirst, TypeOK
  <1>4. journal \subseteq journal' /\ \A r \in journal' \ journal : r[3] # "blocked"
    BY <1>0 DEF write
  <1>. QED BY <1>0, <1>1, <1>3, <1>4, SteadyStep DEF Steady, NeverBlocked

LEMMA AloneKept ==
  ASSUME IInv, Alone, [Next]_vars
  PROVE  Alone'
  <1>t. TypeOK
    BY DEF IInv
  <1>f. IsFiniteSet(plans')
    <2>1. plans' = plans \/ plans' = plans \cup {Facts}
      BY DEF Next, World, Preview, UserChanges, HeadMoves, Begin, Applying, Apply, Reconcile,
             Acquire, Finish, Candidate, Remove, Record, Crash, vars
    <2>. QED BY <2>1, FS_AddElement DEF Alone
  <1>. SUFFICES ASSUME Undisturbed' PROVE Steady'
    BY <1>f DEF Alone
  <1>0. Undisturbed /\ Steady /\ drift' = drift /\ faults' = faults /\ overlap' = overlap
    BY StaysUndisturbed DEF Alone
  <1>1. CASE UNCHANGED vars
    BY <1>0, <1>1 DEF vars, process, Steady, OneApply, NeverBlocked, Explained, OnCourse, Facts,
                      Fenced, Eligible, IsFirst
  <1>2. CASE Preview
    <2>1. UNCHANGED <<wt, retained, journal, pc, plan, seen, todo, recon, status>>
      BY <1>2 DEF Preview, process
    <2>2. OneApply' /\ NeverBlocked' /\ \A w \in Worktrees : wt'[w] \in {"landed", "dirty", "missing"}
      BY <1>0, <2>1 DEF Steady, OneApply, NeverBlocked
    <2>3. \A p \in Appliers : OnCourse(p)'
      BY <1>0, <2>1 DEF Steady, OnCourse, Facts, Fenced, Eligible, IsFirst
    <2>4. ASSUME NEW d \in plans' PROVE Explained(d)'
      <3>1. CASE d \in plans
        BY <1>0, <2>1, <3>1 DEF Steady, Explained
      <3>2. CASE d = Facts
        BY <2>1, <3>2 DEF Explained, Facts
      <3>. QED BY <1>2, <3>1, <3>2 DEF Preview
    <2>. QED BY <2>2, <2>3, <2>4 DEF Steady
  <1>3. CASE HeadMoves \/ \E w \in Worktrees : UserChanges(w)
    BY <1>0, <1>3, <1>t DEF HeadMoves, UserChanges, TypeOK
  <1>4. ASSUME NEW p \in Appliers, NEW d \in plans, NEW only \in SUBSET Worktrees,
               Apply(p, d, only)
        PROVE  Steady'
    <2>1. \A q \in Appliers : q # p => pc[q] = "idle" /\ pc'[q] = "idle" /\ status'[q] = status[q]
      BY <1>0, <1>4, <1>t DEF Apply, TypeOK, Undisturbed
    <2>2. pc'[p] = "reconcile" /\ seen'[p] = Facts /\ status'[p] = "none"
      BY <1>4, <1>t DEF Apply, TypeOK
    <2>3. UNCHANGED <<wt, retained, plans, journal>>
      BY <1>4 DEF Apply
    <2>4. OneApply' /\ NeverBlocked' /\ \A w \in Worktrees : wt'[w] \in {"landed", "dirty", "missing"}
      BY <1>0, <2>1, <2>2, <2>3 DEF Steady, OneApply, NeverBlocked
    <2>5. \A e \in plans' : Explained(e)'
      BY <1>0, <2>3 DEF Steady, Explained
    <2>6. \A q \in Appliers : OnCourse(q)'
      BY <2>1, <2>2, <2>3 DEF OnCourse, Fenced, Facts
    <2>. QED BY <2>4, <2>5, <2>6 DEF Steady
  <1>5. ASSUME NEW p \in Appliers, Applying(p) PROVE Steady'
    <2>1. ASSUME Finish(p) PROVE Steady'
      BY <1>0, <2>1, ReturnSteady DEF Finish
    <2>. QED
      BY <1>0, <1>5, <2>1, ReconcileSteady, AcquireSteady, CandidateSteady, RemoveSteady,
         RecordSteady DEF Applying
  <1>6. ASSUME NEW p \in Appliers, Crash(p) PROVE Steady'
    BY <1>0, <1>6, ReturnSteady DEF Crash
  <1>. QED BY <1>1, <1>2, <1>3, <1>4, <1>5, <1>6 DEF Next, World, Begin

\* A lost process never makes a digest useless: with one apply at a time, git
\* that works and nobody else at the worktrees, no re-apply asks for recovery and
\* no row is ever marked blocked, however often an apply died half-way.
THEOREM RecoveryTheorem == Spec => []CrashAloneRecovers
  <1>1. Init => Alone
    BY FS_EmptySet DEF Init, Alone, Steady, OneApply, NeverBlocked, OnCourse, Fenced
  <1>2. IInv /\ Alone /\ [Next]_vars => Alone'
    BY AloneKept
  <1>3. Alone => CrashAloneRecovers
    <2>. SUFFICES ASSUME Alone, drift = 0, faults = 0, ~overlap, Cardinality(plans) = 1
         PROVE  NeverBlocked
      BY DEF CrashAloneRecovers, NeverBlocked
    <2>1. \E d : plans = {d}
      BY FS_Singleton DEF Alone
    <2>2. Undisturbed
      BY <2>1 DEF Undisturbed
    <2>. QED BY <2>2 DEF Alone, Steady
  <1>. QED BY <1>1, <1>2, <1>3, CleanupInvariant, PTL DEF Spec
=============================================================================
