--------------------------- MODULE RunLoop_proofs ---------------------------
(***************************************************************************)
(* Proofs about the run loop, for every acyclic task graph, harness set     *)
(* and bound.                                                              *)
(*                                                                         *)
(* First argument: type correctness, the refinement of TaskLifecycle, and  *)
(* dependency order.  A record is only ever appended with a (from, event)  *)
(* pair of the transition table, from a fold the process really read, for  *)
(* a task that had a record by then unless the fold said Pending (LogStep). *)
(* The fold of a tick can be stale, but what it calls Integrated stays     *)
(* Integrated, and a task it saw move stays recorded (Fresh).  So every     *)
(* step of the loop is a lifecycle step or makes the log unreadable, and a  *)
(* dependency that was integrated when its dependent became ready still is. *)
(*                                                                         *)
(* Second argument: the log stays legal without operators, the branch, the *)
(* retry budget, the slots, the workers, and what idle reports.  Every step *)
(* has one of a few effects on the log, the tables and the program counter *)
(* (Effect); an append is justified by what the driver made sure of before  *)
(* (Justified); and what it may rely on between two effects (Knowledge) is  *)
(* kept by each effect.                                                    *)
(***************************************************************************)
EXTENDS RunLoop, FiniteSetTheorems, TLAPS

-----------------------------------------------------------------------------
(* The inductive invariant. *)

\* Program points at which the driver works on the task cur.
AtTask == {"worktree", "save", "invoke", "pid", "collect", "fallback", "merged",
           "stale", "checks", "orphan", "result", "gate"}
\* Those at which it also holds an attempt id.
AtAttempt == {"worktree", "save", "invoke", "pid", "collect", "fallback", "checks"}

PcOK == (pc \in AtTask => cur \in Tasks) /\ (pc \in AtAttempt => att \in Ids)

Unrecorded(t) == last[t] = NoEvent

\* A task without a record is Pending, and whoever is about to append for a
\* task as anything but Pending read a record of it.
Recorded ==
  /\ \A t \in Tasks : Unrecorded(t) =>
       st[t] = "Pending" /\ snap[t] = "Pending" /\ opSnap[t] = "Pending"
  /\ pc \in AtTask => ~Unrecorded(cur)
  /\ op = "accept" => \A t \in opTodo : ~Unrecorded(t)

\* What a stale fold calls Integrated is Integrated.
Fresh == \A t \in Tasks : snap[t] = "Integrated" => st[t] = "Integrated"

IInv == TypeOK /\ PcOK /\ Recorded /\ Fresh

-----------------------------------------------------------------------------
(* What a step may do to the log, and to the folds read from it. *)

Legal(t, from, e) ==
  /\ transition(from, e) \in TaskStates
  /\ Unrecorded(t) => from = "Pending"
  /\ e = "DependencySatisfied" => \A d \in Deps[t] : st[d] = "Integrated"

LogStep ==
  \/ UNCHANGED <<st, last, corrupt>>
  \/ \E t \in Tasks, from \in TaskStates, e \in Events :
       Append(t, from, e) /\ Legal(t, from, e)

LogTyped ==
  /\ st' \in [Tasks -> TaskStates] /\ last' \in [Tasks -> Events \cup {NoEvent}]
  /\ corrupt' \in BOOLEAN

AllPending == [t \in Tasks |-> "Pending"]

FoldStep ==
  /\ snap' \in {snap, st, AllPending}
  /\ opSnap' \in {opSnap, st, AllPending}
  /\ pc' \in AtTask =>
       \/ pc \in AtTask /\ cur' = cur
       \/ cur' \in Tasks /\ snap[cur'] # "Pending"
  /\ op' = "accept" =>
       \/ op = "accept" /\ opTodo' = opTodo
       \/ \A t \in opTodo' : t \in Tasks /\ st[t] # "Pending"

\* The (from, event) pairs the run loop appends are all in the table.
LEMMA Table ==
  /\ transition("Running", "HarnessCrashedOrTimeout") = "Failed"
  /\ transition("Running", "HarnessExited") = "Verifying"
  /\ transition("Failed", "RetryAuthorized") = "Ready"
  /\ transition("Failed", "LiveWorkerSettled") = "Verifying"
  /\ transition("Blocked", "DependencyCleared") = "Pending"
  /\ transition("Pending", "DependencyFailedOrScopeRevoked") = "Blocked"
  /\ transition("Pending", "DependencySatisfied") = "Ready"
  /\ transition("AwaitingReview", "VerifyGatePassed") = "Accepted"
  /\ transition("AwaitingReview", "HumanAcceptanceRecorded") = "Accepted"
  /\ transition("Accepted", "IntegrationOwnerMerge") = "Integrated"
  /\ transition("Accepted", "StaleBaseDetected") = "Failed"
  /\ transition("Ready", "AttemptStarted") = "Running"
  /\ transition("Verifying", "DeterministicChecksPassed") = "AwaitingReview"
  /\ transition("Verifying", "DeterministicChecksFailed") = "Failed"
  /\ \A s \in TaskStates \ {"Cancelled", "Integrated"} :
       transition(s, "Cancel") = "Cancelled"
  BY DEF transition, TaskStates

\* transition() answers a state or Illegal.
LEMMA TransitionType ==
  ASSUME NEW s, NEW e, transition(s, e) # Illegal
  PROVE  transition(s, e) \in TaskStates
  BY DEF transition, TaskStates, Illegal

\* Nothing leaves Integrated, and only a satisfied dependency (or an event
\* that keeps it out of Begun) moves a task that has not begun.
LEMMA TableShape ==
  ASSUME NEW s \in TaskStates, NEW e \in Events, transition(s, e) \in TaskStates
  PROVE  /\ s # "Integrated"
         /\ transition(s, e) \in Begun => s \in Begun \/ e = "DependencySatisfied"
  BY DEF transition, TaskStates, Events, Begun, Illegal

\* A legal append keeps the types of the log.
LEMMA LogType ==
  ASSUME TypeOK, LogStep
  PROVE  LogTyped
  <1>1. CASE UNCHANGED <<st, last, corrupt>>
    BY <1>1 DEF TypeOK, LogTyped
  <1>2. ASSUME NEW t \in Tasks, NEW from \in TaskStates, NEW e \in Events,
               Append(t, from, e), Legal(t, from, e)
        PROVE  LogTyped
    BY <1>2 DEF Append, Legal, TypeOK, LogTyped
  <1>. QED BY <1>1, <1>2 DEF LogStep

\* Every step on the log is a step of the lifecycle table or leaves the fold
\* as it is; records are never taken back.
LEMMA LogRefines ==
  ASSUME TypeOK, Recorded, LogStep
  PROVE  /\ Lifecycle!Next \/ UNCHANGED st
         /\ \A t \in Tasks : ~Unrecorded(t) => ~Unrecorded(t)'
         /\ \A t \in Tasks : st'[t] # st[t] => ~Unrecorded(t)'
  <1>1. CASE UNCHANGED <<st, last, corrupt>>
    BY <1>1 DEF Unrecorded
  <1>2. ASSUME NEW t \in Tasks, NEW from \in TaskStates, NEW e \in Events,
               Append(t, from, e), Legal(t, from, e)
        PROVE  /\ Lifecycle!Next \/ UNCHANGED st
               /\ \A u \in Tasks : ~Unrecorded(u) => ~Unrecorded(u)'
               /\ \A u \in Tasks : st'[u] # st[u] => ~Unrecorded(u)'
    <2>1. CASE corrupt \/ Folded(t, from, e) # transition(from, e)
      BY <1>2, <2>1 DEF Append, Unrecorded
    <2>2. CASE ~(corrupt \/ Folded(t, from, e) # transition(from, e))
      <3>1. /\ st' = [st EXCEPT ![t] = transition(from, e)]
            /\ last' = [last EXCEPT ![t] = e]
        BY <1>2, <2>2 DEF Append
      <3>2. transition(st[t], e) = transition(from, e)
        BY <1>2, <2>2 DEF Folded, Legal, Unrecorded, Recorded
      <3>3. transition(st[t], e) # Illegal
        BY <1>2, <3>2 DEF Legal, TaskStates, Illegal
      <3>4. Lifecycle!Step(t, e)
        BY <1>2, <3>1, <3>2, <3>3 DEF Lifecycle!Step, Lifecycle!Allowed, Legal,
           Lifecycle!transition, transition, Lifecycle!Illegal, Illegal
      <3>5. e # NoEvent
        BY DEF Events, NoEvent
      <3>. QED
        BY <3>1, <3>4, <3>5 DEF Lifecycle!Next, Lifecycle!Events, Events, Unrecorded,
           TypeOK
    <2>. QED BY <2>1, <2>2
  <1>. QED BY <1>1, <1>2 DEF LogStep

\* An integrated task stays integrated, and an unrecorded one is untouched.
LEMMA IntegratedStays ==
  ASSUME TypeOK, Recorded, LogStep
  PROVE  \A t \in Tasks : st[t] = "Integrated" => st'[t] = "Integrated"
  <1>1. CASE UNCHANGED st
    BY <1>1
  <1>2. CASE Lifecycle!Next
    <2>1. PICK t \in Tasks, e \in Events : Lifecycle!Step(t, e)
      BY <1>2 DEF Lifecycle!Next, Lifecycle!Events, Events
    <2>2. st[t] \in TaskStates
      BY DEF TypeOK
    <2>3. st[t] # "Integrated"
      BY <2>1, <2>2 DEF Lifecycle!Step, Lifecycle!transition, Lifecycle!Illegal, Events
    <2>. QED
      BY <2>1, <2>3 DEF Lifecycle!Step, TypeOK
  <1>. QED BY <1>1, <1>2, LogRefines

\* Folds read from the log stay what Recorded and Fresh say they are.
LEMMA FoldKept ==
  ASSUME IInv, TypeOK', PcOK', LogStep, FoldStep
  PROVE  Recorded' /\ Fresh'
  <1>1. /\ \A t \in Tasks : ~Unrecorded(t) => ~Unrecorded(t)'
        /\ \A t \in Tasks : st'[t] # st[t] => ~Unrecorded(t)'
    BY LogRefines DEF IInv
  <1>2. \A t \in Tasks : st[t] = "Integrated" => st'[t] = "Integrated"
    BY IntegratedStays DEF IInv
  <1>3. \A t \in Tasks : /\ snap'[t] \in {snap[t], st[t], "Pending"}
                         /\ opSnap'[t] \in {opSnap[t], st[t], "Pending"}
    BY DEF FoldStep, AllPending
  <1>4. Fresh'
    BY <1>2, <1>3 DEF IInv, Fresh
  <1>5. ASSUME NEW t \in Tasks, Unrecorded(t)'
        PROVE  st'[t] = "Pending" /\ snap'[t] = "Pending" /\ opSnap'[t] = "Pending"
    <2>1. st'[t] = st[t] /\ Unrecorded(t)
      BY <1>1, <1>5
    <2>. QED
      BY <2>1, <1>3 DEF IInv, Recorded
  <1>6. pc' \in AtTask => ~Unrecorded(cur)'
    <2>1. CASE pc \in AtTask /\ cur' = cur
      BY <2>1, <1>1 DEF IInv, Recorded, PcOK, Unrecorded
    <2>2. CASE cur' \in Tasks /\ snap[cur'] # "Pending"
      BY <2>2, <1>1 DEF IInv, Recorded, Unrecorded
    <2>. QED
      BY <2>1, <2>2 DEF FoldStep
  <1>7. op' = "accept" => \A t \in opTodo' : ~Unrecorded(t)'
    BY <1>1 DEF FoldStep, IInv, Recorded, TypeOK
  <1>. QED
    BY <1>4, <1>5, <1>6, <1>7 DEF Recorded

\* A stale fold that calls every dependency Integrated is right.
LEMMA DepsStillIntegrated ==
  ASSUME IInv, NEW t \in Tasks, DepsIntegrated(t)
  PROVE  \A d \in Deps[t] : st[d] = "Integrated"
  BY DepsAssumption DEF IInv, Fresh, DepsIntegrated

\* A table pair appended for a task that has a record.
LEMMA AppendRecorded ==
  ASSUME NEW t \in Tasks, NEW from \in TaskStates, NEW e \in Events,
         Append(t, from, e), transition(from, e) \in TaskStates,
         ~Unrecorded(t), e # "DependencySatisfied"
  PROVE  LogStep
  BY DEF LogStep, Legal

-----------------------------------------------------------------------------
(* Every action takes a LogStep. *)

LEMMA RecoverLog ==
  ASSUME IInv, Recover
  PROVE  LogStep
  <1>1. CASE CrashFailDone \/ RetryFailedDone
    BY <1>1 DEF CrashFailDone, RetryFailedDone, LogStep, log
  <1>2. ASSUME NEW t \in Tasks, CrashFail(t)
        PROVE  LogStep
    <2>1. CASE LostRun(t)
      <3>1. Append(t, "Running", "HarnessCrashedOrTimeout")
        BY <1>2, <2>1 DEF CrashFail
      <3>2. ~Unrecorded(t)
        BY <2>1 DEF LostRun, IInv, Recorded
      <3>. QED
        BY <3>1, <3>2, Table, AppendRecorded DEF TaskStates, Events
    <2>2. CASE ~LostRun(t)
      BY <1>2, <2>2 DEF CrashFail, LogStep
    <2>. QED BY <2>1, <2>2
  <1>3. ASSUME NEW t \in Tasks, RetryFailed(t)
        PROVE  LogStep
    <2>1. CASE snap[t] = "Failed" /\ RetriesLeft(t)
      <3>1. Append(t, "Failed", "RetryAuthorized")
        BY <1>3, <2>1 DEF RetryFailed
      <3>2. ~Unrecorded(t)
        BY <2>1 DEF IInv, Recorded
      <3>. QED
        BY <3>1, <3>2, Table, AppendRecorded DEF TaskStates, Events
    <2>2. CASE ~(snap[t] = "Failed" /\ RetriesLeft(t))
      BY <1>3, <2>2 DEF RetryFailed, LogStep
    <2>. QED BY <2>1, <2>2
  <1>. QED BY <1>1, <1>2, <1>3 DEF Recover

\* The first half of a tick: what the tick's own fold decides.
LEMMA PhaseLog ==
  ASSUME IInv, NEW t \in Tasks,
         Reattach(t) \/ Harvest(t) \/ ClearBlocked(t) \/ PromotePending(t)
  PROVE  LogStep
  <1>1. CASE Reattach(t)
    <2>1. \/ Append(t, "Running", "HarnessCrashedOrTimeout")
          \/ Append(t, "Running", "HarnessExited")
      BY <1>1 DEF Reattach
    <2>2. ~Unrecorded(t)
      BY <1>1 DEF Reattach, IInv, Recorded
    <2>. QED
      BY <2>1, <2>2, Table, AppendRecorded DEF TaskStates, Events
  <1>2. CASE Harvest(t)
    <2>1. Append(t, "Failed", "LiveWorkerSettled")
      BY <1>2 DEF Harvest
    <2>2. ~Unrecorded(t)
      BY <1>2 DEF Harvest, Harvestable, IInv, Recorded
    <2>. QED
      BY <2>1, <2>2, Table, AppendRecorded DEF TaskStates, Events
  <1>3. CASE ClearBlocked(t)
    <2>1. Append(t, "Blocked", "DependencyCleared")
      BY <1>3 DEF ClearBlocked
    <2>2. ~Unrecorded(t)
      BY <1>3 DEF ClearBlocked, IsFirst, Clearable, In, IInv, Recorded
    <2>. QED
      BY <2>1, <2>2, Table, AppendRecorded DEF TaskStates, Events
  <1>4. CASE PromotePending(t)
    <2>1. CASE Unsat(t)
      <3>1. Append(t, "Pending", "DependencyFailedOrScopeRevoked")
        BY <1>4, <2>1 DEF PromotePending
      <3>. QED
        BY <3>1, Table DEF LogStep, Legal, TaskStates, Events
    <2>2. CASE ~Unsat(t)
      <3>1. Append(t, "Pending", "DependencySatisfied")
        BY <1>4, <2>2 DEF PromotePending
      <3>2. DepsIntegrated(t)
        BY <1>4, <2>2 DEF PromotePending, IsFirst, Promotable
      <3>3. Legal(t, "Pending", "DependencySatisfied")
        BY <3>2, Table, DepsStillIntegrated DEF Legal, TaskStates
      <3>. QED
        BY <3>1, <3>3 DEF LogStep, TaskStates, Events
    <2>. QED BY <2>1, <2>2
  <1>. QED BY <1>1, <1>2, <1>3, <1>4

\* The verification of a task nobody in this process is verifying.
LEMMA OrphanLog ==
  ASSUME IInv, NEW t \in Tasks, FinishOrphaned(t)
  PROVE  LogStep
  <1>1. CASE UNCHANGED <<st, last, corrupt>>
    BY <1>1 DEF LogStep
  <1>2. CASE st[t] = "AwaitingReview" /\ Append(t, "AwaitingReview", "VerifyGatePassed")
    <2>1. ~Unrecorded(t)
      BY <1>2 DEF IInv, Recorded
    <2>. QED
      BY <1>2, <2>1, Table, AppendRecorded DEF TaskStates, Events
  <1>. QED BY <1>1, <1>2 DEF FinishOrphaned

\* The rest of a tick.
LEMMA WorkLog ==
  ASSUME IInv,
         \/ RecordMerge \/ AddWorktree \/ Invoke \/ Collect \/ MaybeFallback
         \/ OrphanFail \/ AppendResult \/ AppendVerifyGate
  PROVE  LogStep
  <1>1. cur \in Tasks /\ ~Unrecorded(cur)
    BY DEF IInv, PcOK, Recorded, AtTask, RecordMerge, AddWorktree, Invoke, Collect,
           MaybeFallback, OrphanFail, AppendResult, AppendVerifyGate
  <1>2. \/ UNCHANGED <<st, last, corrupt>>
        \/ Append(cur, "Accepted", "IntegrationOwnerMerge")
        \/ Append(cur, "Accepted", "StaleBaseDetected")
        \/ Append(cur, "Running", "HarnessCrashedOrTimeout")
        \/ Append(cur, "Running", "HarnessExited")
        \/ Append(cur, "Failed", "RetryAuthorized")
        \/ Append(cur, "Verifying", "DeterministicChecksPassed")
        \/ Append(cur, "Verifying", "DeterministicChecksFailed")
        \/ Append(cur, "AwaitingReview", "VerifyGatePassed")
    <2>1. CASE RecordMerge
      BY <2>1 DEF RecordMerge
    <2>2. CASE AddWorktree \/ Invoke
      BY <2>2 DEF AddWorktree, Invoke
    <2>3. CASE Collect
      BY <2>3 DEF Collect
    <2>4. CASE MaybeFallback \/ OrphanFail
      BY <2>4 DEF MaybeFallback, OrphanFail
    <2>5. CASE AppendResult
      <3>1. CASE ok
        BY <2>5, <3>1 DEF AppendResult
      <3>2. CASE ~ok
        BY <2>5, <3>2 DEF AppendResult
      <3>. QED BY <3>1, <3>2
    <2>6. CASE AppendVerifyGate
      BY <2>6 DEF AppendVerifyGate
    <2>. QED BY <2>1, <2>2, <2>3, <2>4, <2>5, <2>6
  <1>3. CASE UNCHANGED <<st, last, corrupt>>
    BY <1>3 DEF LogStep
  <1>. QED
    BY <1>1, <1>2, <1>3, Table, AppendRecorded DEF TaskStates, Events

LEMMA TickLog ==
  ASSUME IInv, Tick
  PROVE  LogStep
  <1>1. CASE \/ TickRead \/ TickCorrupt \/ SaveAttempt \/ SavePid \/ ChecksDone
             \/ WaitOnLiveWorker \/ \E t \in Tasks : MergeAccepted(t)
    BY <1>1 DEF TickRead, TickCorrupt, SaveAttempt, SavePid, ChecksDone,
                WaitOnLiveWorker, MergeAccepted, LogStep, log
  <1>2. CASE IdleAwaiting \/ IdleNoCandidate \/ IdleComplete \/ IdleFailed
    BY <1>2 DEF IdleAwaiting, IdleNoCandidate, IdleComplete, IdleFailed, GoIdle,
                LogStep, log
  <1>3. ASSUME NEW t \in Tasks, ResumeOrphanedVerifyGate(t)
        PROVE  LogStep
    BY <1>3, OrphanLog DEF ResumeOrphanedVerifyGate
  <1>4. ASSUME NEW t \in Tasks, VerifyDeferred(t)
        PROVE  LogStep
    BY <1>4, OrphanLog DEF VerifyDeferred, LogStep
  <1>5. ASSUME NEW t \in Tasks, DispatchStart(t)
        PROVE  LogStep
    <2>1. UNCHANGED log \/ Append(t, "Ready", "AttemptStarted")
      BY <1>5 DEF DispatchStart
    <2>2. ~Unrecorded(t)
      BY <1>5 DEF DispatchStart, ReadyNow, In, IInv, Recorded
    <2>3. CASE UNCHANGED log
      BY <2>3 DEF log, LogStep
    <2>. QED
      BY <2>1, <2>2, <2>3, Table, AppendRecorded DEF TaskStates, Events
  <1>. QED
    BY <1>1, <1>2, <1>3, <1>4, <1>5, PhaseLog, WorkLog DEF Tick

LEMMA OperateLog ==
  ASSUME IInv, Operate
  PROVE  LogStep
  <1>1. CASE \/ CancelRead \/ CancelKill(Tasks)
             \/ \E t \in Tasks : CancelKill({t}) \/ AcceptRead(t)
    BY <1>1 DEF CancelRead, CancelKill, AcceptRead, LogStep, log
  <1>2. ASSUME NEW t \in Tasks, CancelTask(t)
        PROVE  LogStep
    <2>1. CASE opSnap[t] \in {"Cancelled", "Integrated"}
      BY <1>2, <2>1 DEF CancelTask, LogStep
    <2>2. CASE opSnap[t] \notin {"Cancelled", "Integrated"}
      <3>1. Append(t, opSnap[t], "Cancel")
        BY <1>2, <2>2 DEF CancelTask
      <3>2. opSnap[t] \in TaskStates /\ (Unrecorded(t) => opSnap[t] = "Pending")
        BY DEF IInv, TypeOK, Recorded
      <3>3. Legal(t, opSnap[t], "Cancel")
        BY <2>2, <3>2, Table DEF Legal, TaskStates
      <3>. QED
        BY <3>1, <3>2, <3>3 DEF LogStep, Events
    <2>. QED BY <2>1, <2>2
  <1>3. ASSUME NEW t \in Tasks, AcceptAppend(t)
        PROVE  LogStep
    <2>1. Append(t, "AwaitingReview", "HumanAcceptanceRecorded") /\ ~Unrecorded(t)
      BY <1>3 DEF AcceptAppend, IInv, Recorded
    <2>. QED
      BY <2>1, Table, AppendRecorded DEF TaskStates, Events
  <1>. QED BY <1>1, <1>2, <1>3 DEF Operate

LEMMA NextLog ==
  ASSUME IInv, Next
  PROVE  LogStep
  <1>1. CASE Start \/ Crash \/ World
    BY <1>1 DEF Start, Run, Resume, Crash, World, WorkerSettles, PaneCloses, LogStep, log
  <1>. QED
    BY <1>1, RecoverLog, TickLog, OperateLog DEF Next, Driver

-----------------------------------------------------------------------------
(* Every action keeps the types and takes a FoldStep. *)

\* What is left to show once the log's types are known.
Kept == TypeOK' /\ PcOK' /\ FoldStep

\* The common ends of actions.
LocalsReset ==
  /\ snap' = AllPending /\ snap' \in [Tasks -> TaskStates] /\ scan' = {}
  /\ cur' = NoTask /\ att' = NoId /\ sel' = {} /\ ok' = FALSE

WorkerTyped == worker' \in [Ids -> WorkerStates]

LEMMA NoLocalsResets ==
  ASSUME NoLocals
  PROVE  LocalsReset
  BY DEF NoLocals, LocalsReset, AllPending, TaskStates

LEMMA ExitKept ==
  ASSUME TypeOK, Exit
  PROVE  pc' = "off" /\ LocalsReset /\ tracked' = {} /\ pend' = {} /\ WorkerTyped
  BY NoLocalsResets DEF Exit, WorkerTyped, TypeOK, WorkerStates

LEMMA EndTickKept ==
  ASSUME EndTick
  PROVE  pc' = "top" /\ LocalsReset
  BY NoLocalsResets DEF EndTick

LEMMA OpDoneKept ==
  ASSUME OpDone
  PROVE  /\ op' = "none" /\ opTodo' = {} /\ opAtt' = NoId
         /\ opSnap' = AllPending /\ opSnap' \in [Tasks -> TaskStates]
  BY DEF OpDone, AllPending, TaskStates

LEMMA KilledType ==
  ASSUME TypeOK, NEW S
  PROVE  Killed(S) \in [Ids -> WorkerStates]
  BY DEF Killed, TypeOK, WorkerStates

LEMMA StartKept ==
  ASSUME IInv, Start \/ Crash, LogTyped
  PROVE  Kept
  <1>. USE DEF IInv, Kept, TypeOK, PcOK, FoldStep, LogTyped, AtTask, AtAttempt, Pcs,
               IdleReasons, log, tables, git, locals, memory, operator
  <1>1. CASE Run
    BY <1>1 DEF Run
  <1>2. ASSUME NEW retry \in BOOLEAN, Resume(retry)
        PROVE  Kept
    BY <1>2 DEF Resume
  <1>3. CASE Crash
    <2>1. pc' = "off" /\ LocalsReset /\ tracked' = {} /\ pend' = {} /\ WorkerTyped
      BY <1>3, ExitKept DEF Crash
    <2>2. crashes' \in Nat
      BY <1>3 DEF Crash
    <2>. QED
      BY <1>3, <2>1, <2>2 DEF Crash, LocalsReset, WorkerTyped
  <1>. QED BY <1>1, <1>2, <1>3 DEF Start

LEMMA WorldKept ==
  ASSUME IInv, World, LogTyped
  PROVE  Kept
  <1>. USE DEF IInv, Kept, TypeOK, PcOK, FoldStep, LogTyped, WorkerStates, log, tables,
               git, locals, memory, operator, bounds
  <1>1. ASSUME NEW a \in Ids, WorkerSettles(a)
        PROVE  Kept
    BY <1>1 DEF WorkerSettles
  <1>2. ASSUME NEW r \in attempts, PaneCloses(r)
        PROVE  Kept
    BY <1>2 DEF PaneCloses
  <1>. QED BY <1>1, <1>2 DEF World

LEMMA RecoverKept ==
  ASSUME IInv, Recover, LogTyped
  PROVE  Kept
  <1>. USE DEF IInv, Kept, TypeOK, PcOK, FoldStep, LogTyped, AtTask, AtAttempt, Pcs,
               log, tables, git, memory, operator, bounds
  <1>1. ASSUME NEW t \in Tasks, CrashFail(t) \/ RetryFailed(t)
        PROVE  Kept
    BY <1>1 DEF CrashFail, RetryFailed
  <1>2. CASE (CrashFailDone /\ pc' = "retry_failed") 
    BY <1>2 DEF CrashFailDone
  <1>3. CASE (CrashFailDone /\ pc' # "retry_failed") \/ RetryFailedDone
    <2>1. pc' = "top" /\ LocalsReset
      BY <1>3, NoLocalsResets DEF CrashFailDone, RetryFailedDone
    <2>. QED
      BY <1>3, <2>1 DEF CrashFailDone, RetryFailedDone, LocalsReset
  <1>. QED BY <1>1, <1>2, <1>3 DEF Recover

LEMMA OperateKept ==
  ASSUME IInv, Operate, LogTyped
  PROVE  Kept
  <1>1. /\ \A T : Killed(T) \in [Ids -> WorkerStates]
        /\ OpDone => /\ op' = "none" /\ opTodo' = {} /\ opAtt' = NoId
                     /\ opSnap' = AllPending /\ opSnap' \in [Tasks -> TaskStates]
    BY KilledType, OpDoneKept DEF IInv
  <1>. USE DEF IInv, Kept, TypeOK, PcOK, FoldStep, LogTyped, Ops, log, tables, git,
               locals, memory, operator, bounds
  <1>2. ASSUME NEW T \in SUBSET Tasks, CancelKill(T)
        PROVE  Kept
    <2>1. worker' \in [Ids -> WorkerStates]
      BY <1>1, <1>2 DEF CancelKill
    <2>2. ops' \in Nat
      BY <1>2 DEF CancelKill
    <2>. QED
      BY <1>2, <2>1, <2>2 DEF CancelKill
  <1>3. CASE CancelRead
    BY <1>1, <1>3 DEF CancelRead
  <1>4. ASSUME NEW t \in Tasks, CancelTask(t)
        PROVE  Kept
    <2>1. worker' \in [Ids -> WorkerStates]
      BY <1>1, <1>4 DEF CancelTask
    <2>. QED
      BY <1>1, <1>4, <2>1 DEF CancelTask
  <1>5. ASSUME NEW t \in Tasks, AcceptRead(t)
        PROVE  Kept
    BY <1>5 DEF AcceptRead, IsLatest, RowsOf, Row
  <1>6. ASSUME NEW t \in Tasks, AcceptAppend(t)
        PROVE  Kept
    BY <1>1, <1>6 DEF AcceptAppend
  <1>. QED BY <1>2, <1>3, <1>4, <1>5, <1>6 DEF Operate

\* Phases that end the tick (or, for FinishOrphaned, the process).
LEMMA PhaseKept ==
  ASSUME IInv, NEW t \in Tasks, LogTyped,
         \/ Reattach(t) \/ Harvest(t) \/ ClearBlocked(t) \/ PromotePending(t)
         \/ MergeAccepted(t) \/ DispatchStart(t)
  PROVE  Kept
  <1>1. /\ Exit => pc' = "off" /\ LocalsReset /\ tracked' = {} /\ pend' = {} /\ WorkerTyped
        /\ EndTick => pc' = "top" /\ LocalsReset
        /\ \A T : Killed(T) \in [Ids -> WorkerStates]
    BY ExitKept, EndTickKept, KilledType DEF IInv
  <1>. USE DEF IInv, Kept, TypeOK, PcOK, FoldStep, LogTyped, AtTask, AtAttempt, Pcs,
               log, tables, git, memory, operator, bounds
  <1>2. CASE Reattach(t)
    <2>1. pc' = "top" /\ LocalsReset
      BY <1>1, <1>2 DEF Reattach
    <2>2. /\ worker' \in [Ids -> WorkerStates]
          /\ tracked' \subseteq Ids /\ pend' \subseteq Ids
      BY <1>1, <1>2 DEF Reattach, WorkerStates, Row
    <2>. QED
      BY <1>2, <2>1, <2>2 DEF Reattach, LocalsReset
  <1>3. CASE Harvest(t)
    BY <1>3 DEF Harvest, Harvestable, Row
  <1>4. CASE ClearBlocked(t) \/ PromotePending(t)
    <2>1. pc' = "top" /\ LocalsReset
      BY <1>1, <1>4 DEF ClearBlocked, PromotePending
    <2>. QED
      BY <1>4, <2>1 DEF ClearBlocked, PromotePending, LocalsReset
  <1>5. CASE MergeAccepted(t)
    <2>1. snap[t] # "Pending"
      BY <1>5 DEF MergeAccepted, IsFirst, In
    <2>2. merged' \subseteq Tasks \X Ids
      BY <1>5 DEF MergeAccepted, MergeInWorktree
    <2>. QED
      BY <1>5, <2>1, <2>2 DEF MergeAccepted
  <1>6. CASE DispatchStart(t)
    <2>1. snap[t] # "Pending"
      BY <1>6 DEF DispatchStart, ReadyNow, In
    <2>2. CASE pc' = "off" /\ LocalsReset /\ tracked' = {} /\ pend' = {} /\ WorkerTyped
               /\ UNCHANGED log
      BY <1>6, <2>2 DEF DispatchStart, LocalsReset, WorkerTyped
    <2>3. ASSUME NEW S \in SUBSET Harnesses, NEW a \in Ids,
                 pc' = "worktree" /\ cur' = t /\ att' = a /\ sel' = S,
                 UNCHANGED <<worker, memory, snap, scan, ok>>
          PROVE  Kept
      BY <1>6, <2>1, <2>3 DEF DispatchStart
    <2>. QED
      BY <1>1, <1>6, <2>2, <2>3 DEF DispatchStart
  <1>. QED BY <1>2, <1>3, <1>4, <1>5, <1>6

LEMMA OrphanKept ==
  ASSUME IInv, NEW t \in Tasks, LogTyped, snap[t] # "Pending", FinishOrphaned(t),
         UNCHANGED <<tables, git, idle, operator, bounds>>
  PROVE  Kept
  <1>1. /\ Exit => pc' = "off" /\ LocalsReset /\ tracked' = {} /\ pend' = {} /\ WorkerTyped
        /\ EndTick => pc' = "top" /\ LocalsReset
    BY ExitKept, EndTickKept DEF IInv
  <1>. USE DEF IInv, Kept, TypeOK, PcOK, FoldStep, LogTyped, AtTask, AtAttempt, Pcs,
               tables, git, memory, operator, bounds
  <1>2. CASE Exit
    BY <1>1, <1>2 DEF LocalsReset, WorkerTyped
  <1>3. CASE EndTick /\ UNCHANGED <<worker, memory>>
    BY <1>1, <1>3 DEF LocalsReset
  <1>4. ASSUME pc' = "orphan" /\ cur' = t, att' \in Ids \cup {NoId},
               UNCHANGED <<worker, memory, snap, scan, sel, ok>>
        PROVE  Kept
    BY <1>4
  <1>. QED
    BY <1>2, <1>3, <1>4 DEF FinishOrphaned, Row

LEMMA VerifyKept ==
  ASSUME IInv, NEW t \in Tasks, LogTyped,
         ResumeOrphanedVerifyGate(t) \/ VerifyDeferred(t)
  PROVE  Kept
  <1>1. CASE ResumeOrphanedVerifyGate(t)
    BY <1>1, OrphanKept DEF ResumeOrphanedVerifyGate, IsFirst, GateOrphans, In
  <1>2. CASE VerifyDeferred(t)
    <2>1. snap[t] # "Pending"
      BY <1>2 DEF VerifyDeferred, IsFirst, DeferredNow, In
    <2>2. CASE FinishOrphaned(t)
      BY <1>2, <2>1, <2>2, OrphanKept DEF VerifyDeferred
    <2>3. CASE ~FinishOrphaned(t)
      BY <1>2, <2>1, <2>3 DEF VerifyDeferred, IInv, Kept, TypeOK, PcOK, FoldStep, LogTyped,
         AtTask, AtAttempt, Pcs, Row, tables, git, operator, bounds
    <2>. QED BY <2>2, <2>3
  <1>. QED BY <1>1, <1>2

\* The steps of a dispatch.
LEMMA DispatchKept ==
  ASSUME IInv, LogTyped,
         \/ AddWorktree \/ SaveAttempt \/ Invoke \/ SavePid \/ Collect \/ MaybeFallback
  PROVE  Kept
  <1>1. EndTick => pc' = "top" /\ LocalsReset
    BY EndTickKept
  <1>. USE DEF IInv, Kept, TypeOK, PcOK, FoldStep, LogTyped, AtTask, AtAttempt, Pcs,
               log, tables, git, locals, memory, operator, bounds
  <1>2. CASE AddWorktree
    BY <1>2 DEF AddWorktree
  <1>3. CASE SaveAttempt
    <2>1. attempts' \subseteq Row
      BY <1>3 DEF SaveAttempt, Row
    <2>. QED
      BY <1>3, <2>1 DEF SaveAttempt
  <1>4. CASE Invoke
    <2>1. worker' \in [Ids -> WorkerStates] /\ tracked' \subseteq Ids
      BY <1>4 DEF Invoke, WorkerStates, Row
    <2>. QED
      BY <1>4, <2>1 DEF Invoke
  <1>5. CASE SavePid
    BY <1>5 DEF SavePid
  <1>6. CASE Collect
    <2>1. /\ worker' \in [Ids -> WorkerStates]
          /\ tracked' \subseteq Ids /\ pend' \subseteq Ids
      BY <1>6 DEF Collect, WorkerStates
    <2>2. (pc' = "top" /\ LocalsReset) \/ (pc' = "fallback" /\ UNCHANGED locals)
      BY <1>1, <1>6 DEF Collect
    <2>. QED
      BY <1>6, <2>1, <2>2 DEF Collect, LocalsReset
  <1>7. CASE MaybeFallback
    BY <1>1, <1>7 DEF MaybeFallback, LocalsReset
  <1>. QED BY <1>2, <1>3, <1>4, <1>5, <1>6, <1>7

\* The merge record and the steps of a verification.
LEMMA RecordKept ==
  ASSUME IInv, LogTyped,
         RecordMerge \/ ChecksDone \/ OrphanFail \/ AppendResult \/ AppendVerifyGate
  PROVE  Kept
  <1>1. /\ Exit => pc' = "off" /\ LocalsReset /\ tracked' = {} /\ pend' = {} /\ WorkerTyped
        /\ EndTick => pc' = "top" /\ LocalsReset
    BY ExitKept, EndTickKept DEF IInv
  <1>. USE DEF IInv, Kept, TypeOK, PcOK, FoldStep, LogTyped, AtTask, AtAttempt, Pcs,
               log, tables, git, locals, memory, operator, bounds
  <1>2. CASE RecordMerge \/ OrphanFail
    BY <1>1, <1>2 DEF RecordMerge, OrphanFail, LocalsReset
  <1>3. CASE ChecksDone
    <2>1. passed' \subseteq Ids
      BY <1>3 DEF ChecksDone
    <2>2. \/ pc' = "off" /\ LocalsReset /\ tracked' = {} /\ pend' = {} /\ WorkerTyped
          \/ pc' = "gate" /\ UNCHANGED <<locals, memory, worker>>
          \/ pc' = "result" /\ ok' \in BOOLEAN
             /\ UNCHANGED <<snap, scan, cur, att, sel, memory, worker>>
      BY <1>1, <1>3 DEF ChecksDone
    <2>3. pc \in AtTask /\ UNCHANGED <<log, attempts, pidSaved, approved, git, idle, operator, bounds>>
      BY <1>3 DEF ChecksDone
    <2>. QED
      BY <2>1, <2>2, <2>3 DEF LocalsReset, WorkerTyped
  <1>4. CASE AppendResult
    BY <1>1, <1>4 DEF AppendResult, LocalsReset
  <1>5. CASE AppendVerifyGate
    BY <1>1, <1>5 DEF AppendVerifyGate, LocalsReset, WorkerTyped
  <1>. QED BY <1>2, <1>3, <1>4, <1>5

LEMMA IdleKept ==
  ASSUME IInv, LogTyped,
         \/ TickRead \/ TickCorrupt \/ WaitOnLiveWorker
         \/ IdleAwaiting \/ IdleNoCandidate \/ IdleComplete \/ IdleFailed
  PROVE  Kept
  <1>1. /\ Exit => pc' = "off" /\ LocalsReset /\ tracked' = {} /\ pend' = {} /\ WorkerTyped
        /\ EndTick => pc' = "top" /\ LocalsReset
    BY ExitKept, EndTickKept DEF IInv
  <1>. USE DEF IInv, Kept, TypeOK, PcOK, FoldStep, LogTyped, AtTask, AtAttempt, Pcs,
               log, tables, git, memory, operator, bounds
  <1>2. CASE TickRead
    BY <1>2 DEF TickRead
  <1>3. CASE TickCorrupt \/ WaitOnLiveWorker
    BY <1>1, <1>3 DEF TickCorrupt, WaitOnLiveWorker, LocalsReset, WorkerTyped
  <1>4. ASSUME NEW reason \in IdleReasons, GoIdle(reason)
        PROVE  Kept
    BY <1>1, <1>4 DEF GoIdle, LocalsReset, WorkerTyped
  <1>. QED
    BY <1>2, <1>3, <1>4 DEF IdleAwaiting, IdleNoCandidate, IdleComplete, IdleFailed,
       IdleReasons

-----------------------------------------------------------------------------
(* The theorems. *)

LEMMA InitIInv ==
  ASSUME Init
  PROVE  IInv
  BY LimitsAssumption DEF Init, IInv, TypeOK, PcOK, Recorded, Fresh, Unrecorded, AtTask,
     AtAttempt, TaskStates, WorkerStates, Pcs, IdleReasons, Ops

LEMMA StepIInv ==
  ASSUME IInv, [Next]_vars
  PROVE  IInv'
  <1>1. CASE Next
    <2>1. LogStep
      BY <1>1, NextLog
    <2>2. LogTyped
      BY <2>1, LogType DEF IInv
    <2>3. Kept
      BY <1>1, <2>2, StartKept, WorldKept, RecoverKept, OperateKept, PhaseKept,
         VerifyKept, DispatchKept, RecordKept, IdleKept DEF Next, Driver, Tick
    <2>. QED
      BY <2>1, <2>3, FoldKept DEF Kept, IInv
  <1>2. CASE UNCHANGED vars
    BY <1>2 DEF vars, log, tables, git, locals, memory, operator, bounds, IInv, TypeOK,
       PcOK, Recorded, Fresh, Unrecorded
  <1>. QED BY <1>1, <1>2

\* The inductive invariant holds in every reachable state.
THEOREM InductiveInvariant == Spec => []IInv
  BY InitIInv, StepIInv, PTL DEF Spec

\* Type correctness of the run loop: the folded log holds table states only,
\* worktrees, rows and evidence belong to a task and an attempt id, and every
\* step of a dispatch or a verification has a task to work on.
THEOREM TypeCorrect == Spec => []TypeOK
  <1>1. IInv => TypeOK
    BY DEF IInv
  <1>. QED BY <1>1, InductiveInvariant, PTL

\* Whatever the interleaving of driver, crashes, workers and operator, the
\* folded log follows the lifecycle table: a task becomes ready only over
\* integrated dependencies, although promote_pending decides on a stale fold.
THEOREM Refinement == Spec => ImplementsLifecycle
  <1>1. Init => Lifecycle!Init
    BY DEF Init, Lifecycle!Init
  <1>2. ASSUME IInv, [Next]_vars
        PROVE  [Lifecycle!Next]_st
    <2>1. CASE Next
      <3>1. LogStep
        BY <2>1, <1>2, NextLog
      <3>. QED
        BY <1>2, <3>1, LogRefines DEF IInv
    <2>2. CASE UNCHANGED vars
      BY <2>2 DEF vars, log
    <2>. QED BY <1>2, <2>1, <2>2
  <1>. QED
    BY <1>1, <1>2, InductiveInvariant, PTL DEF Spec, ImplementsLifecycle, Lifecycle!Spec

\* A task that has begun keeps every dependency integrated, for every graph
\* and every interleaving.
THEOREM DependencyOrder == Spec => []DependenciesFirst
  <1>1. Init => DependenciesFirst
    BY DepsAssumption DEF Init, DependenciesFirst, Begun
  <1>2. ASSUME IInv, DependenciesFirst, [Next]_vars
        PROVE  DependenciesFirst'
    <2>1. CASE UNCHANGED st
      BY <1>2, <2>1 DEF DependenciesFirst
    <2>2. CASE Next /\ ~UNCHANGED st
      <3>1. LogStep
        BY <1>2, <2>2, NextLog
      <3>2. \A d \in Tasks : st[d] = "Integrated" => st'[d] = "Integrated"
        BY <1>2, <3>1, IntegratedStays DEF IInv
      <3>3. PICK t \in Tasks, e \in Events : Lifecycle!Step(t, e)
        BY <1>2, <2>2, <3>1, LogRefines DEF IInv, Lifecycle!Next, Lifecycle!Events, Events
      <3>4. /\ st' = [st EXCEPT ![t] = transition(st[t], e)]
            /\ transition(st[t], e) # Illegal
            /\ e = "DependencySatisfied" => \A d \in Deps[t] : st[d] = "Integrated"
        BY <3>3 DEF Lifecycle!Step, Lifecycle!Allowed, Lifecycle!transition, transition,
           Lifecycle!Illegal, Illegal
      <3>5. transition(st[t], e) \in Begun => st[t] \in Begun \/ e = "DependencySatisfied"
        BY <1>2, <3>4, TransitionType, TableShape DEF IInv, TypeOK
      <3>. QED
        BY <1>2, <3>2, <3>4, <3>5, DepsAssumption DEF DependenciesFirst, IInv, TypeOK
    <2>3. CASE UNCHANGED vars
      BY <2>1, <2>3 DEF vars, log
    <2>. QED BY <1>2, <2>1, <2>2, <2>3
  <1>. QED
    BY <1>1, <1>2, InductiveInvariant, PTL DEF Spec

-----------------------------------------------------------------------------
(* The second invariant: what the driver may rely on between two effects.  *)

Dispatching == {"worktree", "save", "invoke", "pid", "collect"}
Checking == {"checks", "orphan", "result"}

\* As long as no operator has interfered, the state the driver works from is
\* the state of the log.
Exact ==
  ops = 0 =>
    /\ ~corrupt /\ op = "none"
    /\ pc = "tick" => snap = st
    /\ pc \in {"crash_fail", "retry_failed"} => \A t \in scan : snap[t] = st[t]
    /\ pc \in Dispatching => st[cur] = "Running"
    /\ pc = "fallback" => st[cur] = "Failed"
    /\ pc \in {"merged", "stale"} => st[cur] = "Accepted"
    /\ pc \in Checking => st[cur] = "Verifying"

\* Attempt ids are not reused, and a dispatch works with the largest.
RowIds ==
  /\ IsFiniteSet(attempts)
  /\ \A r, q \in attempts : r.id = q.id => r = q
  /\ pc \in {"worktree", "save"} => \A r \in attempts : r.id < att
  /\ pc \in {"invoke", "pid", "collect"} =>
       \A r \in attempts : r.id <= att /\ (r.id = att => r.task = cur)
  /\ pc \in {"invoke", "pid"} => (\E r \in attempts : r.id = att) /\ att \notin pidSaved
  /\ \A a \in pidSaved : \E r \in attempts : r.id = a

\* A task that is dispatched was Ready in the fold and is not under review.
Dispatched ==
  /\ pc = "tick" => \A t \in Tasks : snap[t] = "Ready" => st[t] \in {"Ready", "Cancelled"}
  /\ pc \in Dispatching =>
       st[cur] \in {"Running", "Cancelled"} \/ (corrupt /\ st[cur] = "Ready")

\* Where a retry was authorized there is room for a row.
Budget ==
  /\ \A t \in Tasks : st[t] \in {"Pending", "Blocked"} => RowsOf(t) = {}
  /\ \A t \in Tasks : st[t] = "Ready" /\ ~corrupt => RetriesLeft(t)
  /\ pc = "tick" => \A t \in Tasks : snap[t] = "Ready" => RetriesLeft(t)
  /\ pc \in {"worktree", "save"} => RetriesLeft(cur)

\* The latest attempt passed its checks, and was accepted.
PassedLatest(t) == \A r \in attempts : IsLatest(r, t) => r.id \in passed
AcceptedLatest(t) ==
  \A r \in attempts : IsLatest(r, t) => t \in VerifyGate \/ r.id \in approved

\* The verdict, the acceptance and the merge are about the latest attempt.
Verdicts ==
  /\ \A t \in Tasks : st[t] \in {"AwaitingReview", "Accepted"} => PassedLatest(t)
  /\ \A t \in Tasks : st[t] = "Accepted" => AcceptedLatest(t)
  /\ pc = "tick" => \A t \in Tasks :
       snap[t] = "Accepted" => PassedLatest(t) /\ AcceptedLatest(t)
  /\ pc \in Checking => \A r \in attempts : IsLatest(r, cur) => r.id = att
  /\ pc = "result" /\ ok => att \in passed
  /\ op = "accept" => \A t \in opTodo \ VerifyGate :
       st[t] = "AwaitingReview" /\ AcceptedLatest(t)
  /\ pc = "merged" => \E a \in Ids : <<cur, a>> \in merged

\* No recorded CLI worker of the task is alive.
Quiet(t) ==
  \A r \in RowsOf(t) : r.harness \notin Paned /\ r.id \in pidSaved => worker[r.id] # "live"

\* A task is dispatched again only when its workers are gone.
Workers ==
  /\ \A t \in Tasks : ~corrupt /\ st[t] \notin {"Running", "Cancelled"} => Quiet(t)
  /\ pc = "tick" => \A t \in Tasks : snap[t] = "Ready" => Quiet(t)
  /\ pc \in {"worktree", "save", "invoke", "pid"} => Quiet(cur)
  /\ \A r \in attempts : r.harness \notin Paned /\ r.id \in pidSaved /\ worker[r.id] = "live"
       => IsLatest(r, r.task)

\* The tasks SlotBound counts, and what the fold of a tick knows of them.
Counted == {t \in Tasks : /\ st[t] \in {"Running", "Verifying"}
                          /\ \A r \in RowsOf(t) : r.harness \notin Paned}
Slots == pc = "tick" => Counted \subseteq In({"Running", "Verifying"})

\* All that a step of the driver relies on.
Knowledge == Exact /\ RowIds /\ Dispatched /\ Budget /\ Verdicts /\ Workers /\ Slots
         /\ BranchMatchesLog /\ RetryBudget /\ SlotBound

-----------------------------------------------------------------------------
(* What a step may do to the log, to the tables and to the program counter. *)

\* An append as from: the task moves when it is in from, and otherwise the log
\* becomes unreadable.
Move(t, from, to) ==
  IF ~corrupt /\ st[t] = from THEN st' = [st EXCEPT ![t] = to] /\ ~corrupt'
                              ELSE st' = st /\ corrupt'

\* The driver takes t to be in from: it read so, or left it there itself.
Held(t, from) ==
  \/ pc = "tick" /\ snap[t] = from
  \/ pc \in {"crash_fail", "retry_failed"} /\ t \in scan /\ snap[t] = from
  \/ cur = t /\ \/ pc \in Dispatching /\ from = "Running"
                \/ pc = "fallback" /\ from = "Failed"
                \/ pc \in {"merged", "stale"} /\ from = "Accepted"
                \/ pc \in Checking /\ from = "Verifying"
  \/ ~corrupt /\ st[t] = from

\* No worker is started.
Calmer == \A a \in Ids : worker'[a] = "live" => worker[a] = "live"

\* No recorded CLI worker of t is left alive.
Calm(t) ==
  \A r \in RowsOf(t) : r.harness \notin Paned /\ r.id \in pidSaved => worker'[r.id] # "live"

\* What the driver has made sure of before it records a move.
Justified(t, from, to) ==
  \/ from = "Running" /\ to \in {"Failed", "Verifying"} /\ Calm(t)
  \/ from = "Failed" /\ to = "Ready" /\ RetriesLeft(t)
  \/ from = "Failed" /\ to = "Verifying" /\ \E r \in RowsOf(t) : r.harness \in Paned
  \/ from = "Blocked" /\ to = "Pending"
  \/ from = "Pending" /\ to \in {"Blocked", "Ready"}
  \/ from = "AwaitingReview" /\ to = "Accepted" /\ t \in VerifyGate
  \/ from = "Accepted" /\ to = "Integrated" /\ \E a \in Ids : <<t, a>> \in merged
  \/ from = "Accepted" /\ to = "Failed"
  \/ from = "Verifying" /\ to = "AwaitingReview" /\ PassedLatest(t)
  \/ from = "Verifying" /\ to = "Failed"

LogKept == UNCHANGED <<st, corrupt>>
Advance(t, from, to) == Held(t, from) /\ Justified(t, from, to) /\ Move(t, from, to)
DriverLog ==
  LogKept \/ \E t \in Tasks, from \in TaskStates, to \in TaskStates : Advance(t, from, to)

RowsKept == UNCHANGED <<attempts, pidSaved>>
TablesKept == RowsKept /\ merged' = merged /\ passed \subseteq passed' /\ approved' = approved
OpKept == UNCHANGED <<op, opTodo, ops>>
Frame == TablesKept /\ OpKept /\ Calmer

EStop == pc' \in {"off", "top", "gate"} /\ DriverLog /\ Frame
ERead == /\ pc' \in {"tick", "crash_fail", "retry_failed"} /\ snap' = st /\ ~corrupt
         /\ LogKept /\ Frame
ERecover ==
  /\ pc \in {"crash_fail", "retry_failed"} /\ pc' = pc /\ snap' = snap
  /\ \E t \in scan : /\ scan' = scan \ {t}
                     /\ LogKept \/ \E from, to \in TaskStates : Advance(t, from, to)
  /\ Frame
EDispatch ==
  /\ pc = "tick" /\ pc' = "worktree" /\ FreeSlot
  /\ cur' \in Tasks /\ snap[cur'] = "Ready" /\ \A r \in attempts : r.id < att'
  /\ Move(cur', "Ready", "Running") /\ Frame
EWorktree == pc = "worktree" /\ pc' = "save" /\ UNCHANGED <<cur, att>> /\ LogKept /\ Frame
ESave ==
  /\ pc = "save" /\ pc' = "invoke" /\ UNCHANGED <<cur, att, pidSaved, passed, approved, merged>>
  /\ \E h \in Harnesses : attempts' = attempts \cup {[id |-> att, task |-> cur, harness |-> h]}
  /\ LogKept /\ OpKept /\ UNCHANGED worker
EInvoke ==
  /\ pc = "invoke" /\ pc' = "pid" /\ UNCHANGED <<cur, att>> /\ LogKept /\ TablesKept /\ OpKept
  /\ worker' = [worker EXCEPT ![att] = "live"]
EPid ==
  /\ pc = "pid" /\ pc' = "collect" /\ UNCHANGED <<cur, att, attempts, passed, approved, merged>>
  /\ pidSaved' = pidSaved \cup {att}
  /\ LogKept /\ OpKept /\ UNCHANGED worker
EFall ==
  /\ pc \in Dispatching /\ pc' = "fallback" /\ cur' = cur
  /\ Advance(cur, "Running", "Failed") /\ Frame
ECheck ==
  /\ pc = "tick" /\ pc' = "checks" /\ cur' \in Tasks
  /\ \E r \in attempts : IsLatest(r, cur') /\ att' = r.id
  /\ \/ snap[cur'] = "Verifying" /\ LogKept
     \/ Advance(cur', "Failed", "Verifying")
  /\ Frame
EOrphan ==
  /\ pc = "tick" /\ pc' = "orphan" /\ cur' \in Tasks
  /\ RowsOf(cur') = {} \/ \E r \in attempts : IsLatest(r, cur') /\ att' = r.id
  /\ snap[cur'] \in {"AwaitingReview", "Verifying"} /\ st[cur'] # "AwaitingReview"
  /\ LogKept /\ Frame
EResult ==
  /\ pc \in {"checks", "orphan"} /\ pc' = "result" /\ UNCHANGED <<cur, att>>
  /\ ok' => att \in passed'
  /\ LogKept /\ Frame
EMerge ==
  /\ pc = "tick" /\ cur' \in Tasks /\ snap[cur'] = "Accepted"
  /\ \E r \in attempts :
       /\ IsLatest(r, cur')
       /\ \/ pc' = "merged" /\ merged' = merged \cup {<<cur', r.id>>}
          \/ pc' = "stale" /\ merged' = merged
  /\ LogKept /\ RowsKept /\ UNCHANGED <<passed, approved>> /\ OpKept /\ Calmer

\* A step of somebody else: the driver's own variables stay.
OthersStep ==
  /\ UNCHANGED <<pc, snap, scan, cur, att, ok, attempts, pidSaved, passed, merged>> /\ Calmer
  /\ \/ LogKept /\ OpKept /\ approved' = approved
     \/ /\ LogKept /\ ops' = ops + 1 /\ op' = "cancel_read" /\ approved' = approved
     \/ /\ op # "none" /\ op' \in {"none", "cancel"} /\ ops' = ops /\ approved' = approved
        /\ \/ LogKept
           \/ st' = st /\ corrupt'
           \/ ~corrupt /\ ~corrupt' /\ \E t \in Tasks : st' = [st EXCEPT ![t] = "Cancelled"]
           \/ \E t \in Tasks : /\ op = "accept" /\ opTodo = {t}
                               /\ Move(t, "AwaitingReview", "Accepted")
     \/ /\ LogKept /\ ops' = ops + 1 /\ op' = "accept"
        /\ \E t \in Tasks, r \in attempts :
             /\ opTodo' = {t} /\ st[t] = "AwaitingReview" /\ IsLatest(r, t)
             /\ approved' = approved \cup {r.id}

\* An append of a pair that only from allows is a Move.
LEMMA MoveOf ==
  ASSUME IInv, NEW t \in Tasks, NEW from \in TaskStates, NEW e \in Events,
         NEW to \in TaskStates, Append(t, from, e),
         Unrecorded(t) => from = "Pending",
         transition(from, e) = to,
         \A s \in TaskStates : transition(s, e) = to => s = from
  PROVE  Move(t, from, to)
  <1>1. corrupt \in BOOLEAN /\ st[t] \in TaskStates /\ (Unrecorded(t) => st[t] = "Pending")
    BY DEF IInv, TypeOK, Recorded
  <1>2. Folded(t, from, e) = transition(st[t], e)
    BY <1>1 DEF Folded, Unrecorded
  <1>3. Folded(t, from, e) = to <=> st[t] = from
    BY <1>1, <1>2
  <1>4. CASE ~corrupt /\ st[t] = from
    BY <1>1, <1>3, <1>4 DEF Append, Move
  <1>5. CASE ~(~corrupt /\ st[t] = from)
    BY <1>1, <1>3, <1>5 DEF Append, Move
  <1>. QED BY <1>4, <1>5

\* Every pair but Cancel is allowed from one state only.
LEMMA OneSource ==
  \A s \in TaskStates :
    /\ transition(s, "HarnessCrashedOrTimeout") = "Failed" => s = "Running"
    /\ transition(s, "HarnessExited") = "Verifying" => s = "Running"
    /\ transition(s, "RetryAuthorized") = "Ready" => s = "Failed"
    /\ transition(s, "LiveWorkerSettled") = "Verifying" => s = "Failed"
    /\ transition(s, "DependencyCleared") = "Pending" => s = "Blocked"
    /\ transition(s, "DependencyFailedOrScopeRevoked") = "Blocked" => s = "Pending"
    /\ transition(s, "DependencySatisfied") = "Ready" => s = "Pending"
    /\ transition(s, "VerifyGatePassed") = "Accepted" => s = "AwaitingReview"
    /\ transition(s, "HumanAcceptanceRecorded") = "Accepted" => s = "AwaitingReview"
    /\ transition(s, "IntegrationOwnerMerge") = "Integrated" => s = "Accepted"
    /\ transition(s, "StaleBaseDetected") = "Failed" => s = "Accepted"
    /\ transition(s, "AttemptStarted") = "Running" => s = "Ready"
    /\ transition(s, "DeterministicChecksPassed") = "AwaitingReview" => s = "Verifying"
    /\ transition(s, "DeterministicChecksFailed") = "Failed" => s = "Verifying"
    /\ transition(s, "Cancel") = "Cancelled" => s \notin {"Integrated", "Cancelled"}
  BY DEF transition, TaskStates, Illegal

\* The moves behind the appends of the run loop.
LEMMA Moves ==
  ASSUME IInv, NEW t \in Tasks
  PROVE  /\ ~Unrecorded(t) =>
              /\ Append(t, "Running", "HarnessCrashedOrTimeout") => Move(t, "Running", "Failed")
              /\ Append(t, "Running", "HarnessExited") => Move(t, "Running", "Verifying")
              /\ Append(t, "Failed", "RetryAuthorized") => Move(t, "Failed", "Ready")
              /\ Append(t, "Failed", "LiveWorkerSettled") => Move(t, "Failed", "Verifying")
              /\ Append(t, "Blocked", "DependencyCleared") => Move(t, "Blocked", "Pending")
              /\ Append(t, "AwaitingReview", "VerifyGatePassed")
                   => Move(t, "AwaitingReview", "Accepted")
              /\ Append(t, "AwaitingReview", "HumanAcceptanceRecorded")
                   => Move(t, "AwaitingReview", "Accepted")
              /\ Append(t, "Accepted", "IntegrationOwnerMerge")
                   => Move(t, "Accepted", "Integrated")
              /\ Append(t, "Accepted", "StaleBaseDetected") => Move(t, "Accepted", "Failed")
              /\ Append(t, "Ready", "AttemptStarted") => Move(t, "Ready", "Running")
              /\ Append(t, "Verifying", "DeterministicChecksPassed")
                   => Move(t, "Verifying", "AwaitingReview")
              /\ Append(t, "Verifying", "DeterministicChecksFailed")
                   => Move(t, "Verifying", "Failed")
         /\ Append(t, "Pending", "DependencyFailedOrScopeRevoked")
              => Move(t, "Pending", "Blocked")
         /\ Append(t, "Pending", "DependencySatisfied") => Move(t, "Pending", "Ready")
  <1>. USE Table, OneSource, MoveOf DEF TaskStates, Events
  <1>1. ASSUME ~Unrecorded(t)
        PROVE  /\ Append(t, "Running", "HarnessCrashedOrTimeout") => Move(t, "Running", "Failed")
               /\ Append(t, "Running", "HarnessExited") => Move(t, "Running", "Verifying")
               /\ Append(t, "Failed", "RetryAuthorized") => Move(t, "Failed", "Ready")
               /\ Append(t, "Failed", "LiveWorkerSettled") => Move(t, "Failed", "Verifying")
    BY <1>1
  <1>2. ASSUME ~Unrecorded(t)
        PROVE  /\ Append(t, "Blocked", "DependencyCleared") => Move(t, "Blocked", "Pending")
               /\ Append(t, "AwaitingReview", "VerifyGatePassed")
                    => Move(t, "AwaitingReview", "Accepted")
               /\ Append(t, "AwaitingReview", "HumanAcceptanceRecorded")
                    => Move(t, "AwaitingReview", "Accepted")
               /\ Append(t, "Accepted", "IntegrationOwnerMerge")
                    => Move(t, "Accepted", "Integrated")
    BY <1>2
  <1>3. ASSUME ~Unrecorded(t)
        PROVE  /\ Append(t, "Accepted", "StaleBaseDetected") => Move(t, "Accepted", "Failed")
               /\ Append(t, "Ready", "AttemptStarted") => Move(t, "Ready", "Running")
               /\ Append(t, "Verifying", "DeterministicChecksPassed")
                    => Move(t, "Verifying", "AwaitingReview")
               /\ Append(t, "Verifying", "DeterministicChecksFailed")
                    => Move(t, "Verifying", "Failed")
    BY <1>3
  <1>4. /\ Append(t, "Pending", "DependencyFailedOrScopeRevoked")
             => Move(t, "Pending", "Blocked")
        /\ Append(t, "Pending", "DependencySatisfied") => Move(t, "Pending", "Ready")
    OBVIOUS
  <1>. QED BY <1>1, <1>2, <1>3, <1>4

-----------------------------------------------------------------------------
(* The effect of each step. *)

\* Nothing here starts a worker.
LEMMA CalmEnds ==
  ASSUME IInv
  PROVE  /\ Exit => pc' = "off" /\ Calmer
         /\ EndTick => pc' = "top"
         /\ worker' = worker => Calmer
         /\ \A S : worker' = Killed(S) => Calmer
         /\ \A a \in Ids : worker' = [worker EXCEPT ![a] = "dead"] => Calmer
         /\ \A a \in Ids : worker' = [worker EXCEPT ![a] = "settled"] => Calmer
  BY DEF Exit, EndTick, Killed, Calmer, IInv, TypeOK

\* A live recorded CLI worker is its task's latest attempt.
LEMMA CalmLatest ==
  ASSUME IInv, Knowledge, Calmer, NEW t \in Tasks,
         \A r \in attempts : IsLatest(r, t) /\ r.harness \notin Paned /\ r.id \in pidSaved
                               => worker'[r.id] # "live"
  PROVE  Calm(t)
  <1>1. ASSUME NEW r \in RowsOf(t), r.harness \notin Paned, r.id \in pidSaved,
               worker'[r.id] = "live"
        PROVE  FALSE
    <2>1. r \in attempts /\ r.task = t /\ r.id \in Ids
      BY DEF RowsOf, IInv, TypeOK, Row
    <2>2. worker[r.id] = "live"
      BY <1>1, <2>1 DEF Calmer
    <2>3. IsLatest(r, t)
      BY <1>1, <2>1, <2>2 DEF Knowledge, Workers
    <2>. QED BY <1>1, <2>1, <2>3
  <1>. QED BY <1>1 DEF Calm

LEMMA QuietCalm ==
  ASSUME IInv, Calmer, NEW t \in Tasks, Quiet(t)
  PROVE  Calm(t)
  BY DEF Calmer, Quiet, Calm, RowsOf, IInv, TypeOK, Row

LEMMA StartEffect ==
  ASSUME IInv, Knowledge, Start \/ Crash
  PROVE  EStop \/ ERead
  <1>. USE CalmEnds DEF EStop, ERead, DriverLog, LogKept, Frame, TablesKept, RowsKept, OpKept,
               log, tables, git, operator
  <1>1. CASE Run
    BY <1>1 DEF Run
  <1>2. ASSUME NEW retry \in BOOLEAN, Resume(retry)
        PROVE  ERead
    BY <1>2 DEF Resume
  <1>3. CASE Crash
    BY <1>3 DEF Crash
  <1>. QED BY <1>1, <1>2, <1>3 DEF Start

LEMMA RecoverEffect ==
  ASSUME IInv, Knowledge, Recover
  PROVE  EStop \/ ERead \/ ERecover
  <1>. USE CalmEnds DEF Frame, TablesKept, RowsKept, OpKept, LogKept,
               log, tables, git, operator, memory, bounds
  <1>1. CASE CrashFailDone
    BY <1>1 DEF CrashFailDone, EStop, ERead, DriverLog
  <1>2. CASE RetryFailedDone
    BY <1>2 DEF RetryFailedDone, EStop, DriverLog
  <1>3. ASSUME NEW t \in Tasks, CrashFail(t)
        PROVE  ERecover
    <2>1. t \in scan /\ pc = "crash_fail" /\ pc' = pc /\ snap' = snap /\ scan' = scan \ {t} /\ Frame
      BY <1>3 DEF CrashFail, IsFirst
    <2>2. CASE LostRun(t)
      <3>1. Append(t, "Running", "HarnessCrashedOrTimeout") /\ ~Unrecorded(t)
        BY <1>3, <2>2 DEF CrashFail, LostRun, IInv, Recorded
      <3>2. Move(t, "Running", "Failed")
        BY <3>1, Moves
      <3>3. worker' = worker
        BY <1>3 DEF CrashFail
      <3>4. Calm(t)
        BY <2>1, <2>2, <3>3, CalmLatest DEF LostRun, DriverDead
      <3>5. Advance(t, "Running", "Failed")
        BY <2>1, <2>2, <3>2, <3>4 DEF Advance, Held, Justified, LostRun
      <3>. QED
        BY <2>1, <3>5 DEF ERecover, TaskStates
    <2>3. CASE ~LostRun(t)
      BY <1>3, <2>1, <2>3 DEF CrashFail, ERecover
    <2>. QED BY <2>2, <2>3
  <1>4. ASSUME NEW t \in Tasks, RetryFailed(t)
        PROVE  ERecover
    <2>1. t \in scan /\ pc = "retry_failed" /\ pc' = pc /\ snap' = snap /\ scan' = scan \ {t} /\ Frame
      BY <1>4 DEF RetryFailed, IsFirst
    <2>2. CASE snap[t] = "Failed" /\ RetriesLeft(t)
      <3>1. Append(t, "Failed", "RetryAuthorized") /\ ~Unrecorded(t)
        BY <1>4, <2>2 DEF RetryFailed, IInv, Recorded
      <3>2. Move(t, "Failed", "Ready")
        BY <3>1, Moves
      <3>5. Advance(t, "Failed", "Ready")
        BY <2>1, <2>2, <3>2 DEF Advance, Held, Justified
      <3>. QED
        BY <2>1, <3>5 DEF ERecover, TaskStates
    <2>3. CASE ~(snap[t] = "Failed" /\ RetriesLeft(t))
      BY <1>4, <2>1, <2>3 DEF RetryFailed, ERecover
    <2>. QED BY <2>2, <2>3
  <1>. QED BY <1>1, <1>2, <1>3, <1>4 DEF Recover

\* The steps of the operator and of the workers.
LEMMA OthersEffect ==
  ASSUME IInv, Knowledge, Operate \/ World
  PROVE  OthersStep
  <1>. USE CalmEnds DEF OthersStep, OpKept, LogKept, log, tables, git, locals, memory,
               operator, bounds
  <1>1. ASSUME NEW a \in Ids, WorkerSettles(a)
        PROVE  OthersStep
    BY <1>1 DEF WorkerSettles
  <1>2. ASSUME NEW r \in attempts, PaneCloses(r)
        PROVE  OthersStep
    BY <1>2 DEF PaneCloses, IInv, TypeOK, Row
  <1>3. ASSUME NEW T \in SUBSET Tasks, CancelKill(T)
        PROVE  OthersStep
    BY <1>3 DEF CancelKill
  <1>4. CASE CancelRead
    BY <1>4 DEF CancelRead, OpDone
  <1>5. ASSUME NEW t \in Tasks, CancelTask(t)
        PROVE  OthersStep
    <2>1. /\ UNCHANGED <<pc, snap, scan, cur, att, ok, attempts, pidSaved, passed, merged>>
          /\ op # "none" /\ op' \in {"none", "cancel"} /\ ops' = ops /\ approved' = approved
      BY <1>5 DEF CancelTask, OpDone
    <2>2. Calmer
      BY <1>5 DEF CancelTask
    <2>3. CASE opSnap[t] \in {"Cancelled", "Integrated"}
      BY <1>5, <2>1, <2>2, <2>3 DEF CancelTask
    <2>4. CASE opSnap[t] \notin {"Cancelled", "Integrated"}
      <3>1. Append(t, opSnap[t], "Cancel")
        BY <1>5, <2>4 DEF CancelTask
      <3>2. transition(opSnap[t], "Cancel") = "Cancelled" /\ corrupt \in BOOLEAN
        BY <2>4, Table DEF IInv, TypeOK
      <3>3. \/ st' = st /\ corrupt'
            \/ ~corrupt /\ ~corrupt' /\ st' = [st EXCEPT ![t] = "Cancelled"]
        BY <3>1, <3>2 DEF Append
      <3>. QED
        BY <2>1, <2>2, <3>3
    <2>. QED BY <2>3, <2>4
  <1>6. ASSUME NEW t \in Tasks, AcceptRead(t)
        PROVE  OthersStep
    BY <1>6 DEF AcceptRead
  <1>7. ASSUME NEW t \in Tasks, AcceptAppend(t)
        PROVE  OthersStep
    <2>1. Move(t, "AwaitingReview", "Accepted")
      BY <1>7, Moves DEF AcceptAppend, IInv, Recorded
    <2>. QED
      BY <1>7, <2>1 DEF AcceptAppend, OpDone
  <1>. QED BY <1>1, <1>2, <1>3, <1>4, <1>5, <1>6, <1>7 DEF Operate, World

LEMMA ReattachEffect ==
  ASSUME IInv, Knowledge, NEW t \in Tasks, Reattach(t)
  PROVE  EStop
  <1>1. PICK r \in attempts :
          /\ IsLatest(r, t)
          /\ \/ /\ ~SessionLive(r)
                /\ worker' = Killed({r.id})
                /\ Append(t, "Running", "HarnessCrashedOrTimeout")
             \/ /\ SessionLive(r) /\ worker[r.id] = "settled"
                /\ Append(t, "Running", "HarnessExited")
                /\ worker' = IF r.harness \in Paned THEN worker
                               ELSE [worker EXCEPT ![r.id] = "dead"]
             \/ /\ r.harness \notin Paned
                /\ Append(t, "Running", "HarnessCrashedOrTimeout")
                /\ worker' = [worker EXCEPT ![r.id] = "dead"]
    BY DEF Reattach
  <1>2. ~Unrecorded(t) /\ pc = "tick" /\ snap[t] = "Running"
    BY DEF Reattach, IInv, Recorded
  <1>3. r.id \in Ids /\ worker \in [Ids -> WorkerStates] /\ pidSaved \subseteq Ids
    BY DEF IInv, TypeOK, Row
  <1>4. Calmer
    BY <1>1, <1>3, CalmEnds
  <1>5. worker'[r.id] = "live" => r.id \notin pidSaved
    BY <1>1, <1>3 DEF Killed, WorkerStates
  <1>6. \A q \in attempts : IsLatest(q, t) => q.id = r.id
    BY <1>1 DEF IsLatest, RowsOf, IInv, TypeOK, Row, Ids
  <1>7. Calm(t)
    BY <1>4, <1>5, <1>6, CalmLatest
  <1>8. Move(t, "Running", "Failed") \/ Move(t, "Running", "Verifying")
    BY <1>1, <1>2, Moves
  <1>9. DriverLog
    BY <1>2, <1>7, <1>8 DEF DriverLog, Advance, Held, Justified, TaskStates
  <1>. QED
    BY <1>4, <1>9, CalmEnds DEF Reattach, EStop, Frame, TablesKept, RowsKept, OpKept, tables,
       git, operator, bounds

LEMMA HarvestEffect ==
  ASSUME IInv, Knowledge, NEW t \in Tasks, Harvest(t)
  PROVE  ECheck
  <1>1. PICK r \in attempts :
          /\ Harvestable(r, t) /\ Append(t, "Failed", "LiveWorkerSettled")
          /\ pc' = "checks" /\ cur' = t /\ att' = r.id
    BY DEF Harvest
  <1>2. /\ pc = "tick" /\ snap[t] = "Failed" /\ ~Unrecorded(t)
        /\ IsLatest(r, t) /\ \E q \in RowsOf(t) : q.harness \in Paned
    BY <1>1 DEF Harvest, PastReattach, Harvestable, IInv, Recorded, IsLatest
  <1>3. Move(t, "Failed", "Verifying")
    BY <1>1, <1>2, Moves
  <1>4. Advance(t, "Failed", "Verifying")
    BY <1>2, <1>3 DEF Advance, Held, Justified
  <1>5. Frame
    BY CalmEnds DEF Harvest, Frame, TablesKept, RowsKept, OpKept, tables, git, operator, bounds
  <1>. QED BY <1>1, <1>2, <1>4, <1>5 DEF ECheck

LEMMA PromoteEffect ==
  ASSUME IInv, Knowledge, NEW t \in Tasks, ClearBlocked(t) \/ PromotePending(t)
  PROVE  EStop
  <1>1. pc' = "top" /\ Frame
    BY CalmEnds DEF ClearBlocked, PromotePending, Frame, TablesKept, RowsKept, OpKept, tables,
       git, operator, bounds
  <1>2. CASE ClearBlocked(t)
    <2>1. pc = "tick" /\ snap[t] = "Blocked" /\ ~Unrecorded(t)
      BY <1>2 DEF ClearBlocked, PastHarvest, PastReattach, IsFirst, Clearable, In, IInv, Recorded
    <2>2. Move(t, "Blocked", "Pending")
      BY <1>2, <2>1, Moves DEF ClearBlocked
    <2>. QED
      BY <1>1, <2>1, <2>2 DEF EStop, DriverLog, Advance, Held, Justified, TaskStates
  <1>3. CASE PromotePending(t)
    <2>1. pc = "tick" /\ snap[t] = "Pending"
      BY <1>3 DEF PromotePending, PastClear, PastHarvest, PastReattach, IsFirst, Promotable, In
    <2>2. Move(t, "Pending", "Blocked") \/ Move(t, "Pending", "Ready")
      BY <1>3, Moves DEF PromotePending
    <2>. QED
      BY <1>1, <2>1, <2>2 DEF EStop, DriverLog, Advance, Held, Justified, TaskStates
  <1>. QED BY <1>2, <1>3

LEMMA OrphanEffect ==
  ASSUME IInv, Knowledge, NEW t \in Tasks, FinishOrphaned(t), pc = "tick",
         snap[t] \in {"AwaitingReview", "Verifying"},
         UNCHANGED <<tables, git, idle, operator, bounds>>
  PROVE  EStop \/ EOrphan
  <1>1. TablesKept /\ OpKept
    BY DEF TablesKept, RowsKept, OpKept, tables, git, operator, bounds
  <1>2. CASE Exit /\ UNCHANGED <<st, last, corrupt>>
    BY <1>1, <1>2, CalmEnds DEF EStop, DriverLog, LogKept, Frame
  <1>3. CASE /\ ~corrupt /\ st[t] = "AwaitingReview" /\ verify_gate_eligible(t)
             /\ Append(t, "AwaitingReview", "VerifyGatePassed")
             /\ EndTick /\ UNCHANGED <<worker, memory>>
    <2>1. ~Unrecorded(t)
      BY <1>3 DEF IInv, Recorded
    <2>2. Move(t, "AwaitingReview", "Accepted")
      BY <1>3, <2>1, Moves
    <2>3. Advance(t, "AwaitingReview", "Accepted")
      BY <1>3, <2>2 DEF Advance, Held, Justified, verify_gate_eligible
    <2>. QED
      BY <1>1, <1>3, <2>3, CalmEnds DEF EStop, DriverLog, Frame, TaskStates
  <1>4. CASE /\ ~corrupt /\ st[t] \notin {"Accepted", "Integrated", "AwaitingReview"}
             /\ pc' = "orphan" /\ cur' = t
             /\ \/ RowsOf(t) = {} /\ att' = NoId
                \/ \E r \in attempts : IsLatest(r, t) /\ att' = r.id
             /\ UNCHANGED <<st, last, corrupt, worker, memory, snap, scan, sel, ok>>
    BY <1>1, <1>4, CalmEnds DEF EOrphan, LogKept, Frame
  <1>. QED BY <1>2, <1>3, <1>4 DEF FinishOrphaned

LEMMA VerifyEffect ==
  ASSUME IInv, Knowledge, NEW t \in Tasks, ResumeOrphanedVerifyGate(t) \/ VerifyDeferred(t)
  PROVE  EStop \/ EOrphan \/ ECheck
  <1>1. CASE ResumeOrphanedVerifyGate(t)
    <2>1. pc = "tick" /\ snap[t] = "AwaitingReview"
      BY <1>1 DEF ResumeOrphanedVerifyGate, PastPromote, PastClear, PastHarvest, PastReattach,
         IsFirst, GateOrphans, In
    <2>. QED
      BY <1>1, <2>1, OrphanEffect DEF ResumeOrphanedVerifyGate
  <1>2. CASE VerifyDeferred(t)
    <2>1. pc = "tick" /\ snap[t] = "Verifying"
      BY <1>2 DEF VerifyDeferred, PastMerge, PastAwaiting, PastGate, PastPromote, PastClear,
         PastHarvest, PastReattach, IsFirst, DeferredNow, In
    <2>2. CASE FinishOrphaned(t)
      BY <1>2, <2>1, <2>2, OrphanEffect DEF VerifyDeferred
    <2>3. CASE ~FinishOrphaned(t)
      BY <1>2, <2>1, <2>3, CalmEnds DEF VerifyDeferred, ECheck, LogKept, Frame, TablesKept,
         RowsKept, OpKept, tables, git, operator, bounds
    <2>. QED BY <2>2, <2>3
  <1>. QED BY <1>1, <1>2

LEMMA MergeEffect ==
  ASSUME IInv, Knowledge, NEW t \in Tasks, MergeAccepted(t)
  PROVE  EMerge
  <1>1. pc = "tick" /\ snap[t] = "Accepted" /\ cur' = t
    BY DEF MergeAccepted, PastAwaiting, PastGate, PastPromote, PastClear, PastHarvest,
       PastReattach, IsFirst, In
  <1>2. \E r \in attempts :
          /\ IsLatest(r, t)
          /\ \/ pc' = "merged" /\ merged' = merged \cup {<<t, r.id>>}
             \/ pc' = "stale" /\ merged' = merged
    BY DEF MergeAccepted, MergeInWorktree
  <1>. QED
    BY <1>1, <1>2, CalmEnds DEF MergeAccepted, EMerge, LogKept, RowsKept, OpKept, log, tables,
       operator, bounds

LEMMA DispatchEffect ==
  ASSUME IInv, Knowledge, NEW t \in Tasks, DispatchStart(t)
  PROVE  EStop \/ EDispatch
  <1>1. pc = "tick" /\ snap[t] = "Ready" /\ FreeSlot /\ ~Unrecorded(t)
    BY DEF DispatchStart, PastMerge, PastAwaiting, PastGate, PastPromote, PastClear, PastHarvest,
       PastReattach, ReadyNow, In, IInv, Recorded
  <1>2. TablesKept /\ OpKept
    BY DEF DispatchStart, TablesKept, RowsKept, OpKept, tables, git, operator, bounds
  <1>3. CASE Exit /\ UNCHANGED log
    BY <1>2, <1>3, CalmEnds DEF EStop, DriverLog, LogKept, Frame, log
  <1>4. ASSUME NEW a \in Ids, IsNextId(a), Append(t, "Ready", "AttemptStarted"),
               pc' = "worktree", cur' = t, att' = a, worker' = worker
        PROVE  EDispatch
    BY <1>1, <1>2, <1>4, Moves, CalmEnds DEF EDispatch, Frame, IsNextId
  <1>. QED
    BY <1>3, <1>4 DEF DispatchStart

\* A step that ends the attempt of a dispatch.
LEMMA FallEffect ==
  ASSUME IInv, Knowledge, pc \in Dispatching, pc' = "fallback", cur' = cur,
         Append(cur, "Running", "HarnessCrashedOrTimeout"), Calm(cur), Frame
  PROVE  EFall
  <1>1. cur \in Tasks /\ ~Unrecorded(cur)
    BY DEF IInv, PcOK, Recorded, Dispatching, AtTask
  <1>2. Move(cur, "Running", "Failed")
    BY <1>1, Moves
  <1>. QED
    BY <1>2 DEF EFall, Advance, Held, Justified

LEMMA WorktreeEffect ==
  ASSUME IInv, Knowledge, AddWorktree \/ SaveAttempt \/ Invoke \/ SavePid
  PROVE  EWorktree \/ ESave \/ EInvoke \/ EPid \/ EFall
  <1>. USE DEF LogKept, Frame, TablesKept, RowsKept, OpKept, log, tables, git, locals, operator,
               bounds
  <1>1. ASSUME pc \in {"worktree", "invoke"}, worker' = worker
        PROVE  Calmer /\ Calm(cur)
    <2>1. cur \in Tasks /\ Quiet(cur)
      BY <1>1 DEF Knowledge, Workers, IInv, PcOK, AtTask
    <2>. QED
      BY <1>1, <2>1, CalmEnds, QuietCalm
  <1>2. CASE AddWorktree
    <2>1. CASE pc' = "save"
      BY <1>2, <2>1, CalmEnds DEF AddWorktree, EWorktree
    <2>2. CASE pc' # "save"
      BY <1>1, <1>2, <2>2, FallEffect DEF AddWorktree, Dispatching
    <2>. QED BY <2>1, <2>2
  <1>3. CASE SaveAttempt
    BY <1>3 DEF SaveAttempt, ESave, IInv, TypeOK
  <1>4. CASE Invoke
    <2>1. CASE pc' = "pid"
      BY <1>4, <2>1 DEF Invoke, EInvoke
    <2>2. CASE pc' # "pid"
      BY <1>1, <1>4, <2>2, FallEffect DEF Invoke, Dispatching
    <2>. QED BY <2>1, <2>2
  <1>5. CASE SavePid
    BY <1>5 DEF SavePid, EPid
  <1>. QED BY <1>2, <1>3, <1>4, <1>5

\* The worker that a collection ends is the latest of its task.
LEMMA CollectCalm ==
  ASSUME IInv, Knowledge, pc = "collect", NEW r \in attempts, r.id = att,
         worker' = IF r.harness \in Paned THEN worker ELSE [worker EXCEPT ![att] = "dead"]
  PROVE  Calmer /\ Calm(cur)
  <1>1. cur \in Tasks /\ att \in Ids /\ worker \in [Ids -> WorkerStates]
    BY DEF IInv, PcOK, TypeOK, AtTask, AtAttempt
  <1>2. Calmer
    BY <1>1, CalmEnds
  <1>3. r.task = cur /\ \A q \in attempts : q.id <= att /\ (q.id = att => q = r)
    BY DEF Knowledge, RowIds
  <1>4. ASSUME NEW q \in attempts, IsLatest(q, cur), q.harness \notin Paned
        PROVE  worker'[q.id] # "live"
    <2>1. q.id = att
      BY <1>3, <1>4 DEF IsLatest, RowsOf, IInv, TypeOK, Row, Ids
    <2>2. q = r
      BY <1>3, <2>1
    <2>. QED
      BY <1>1, <1>4, <2>1, <2>2
  <1>. QED
    BY <1>1, <1>2, <1>4, CalmLatest

LEMMA CollectEffect ==
  ASSUME IInv, Knowledge, Collect
  PROVE  EStop \/ EFall
  <1>. USE DEF TablesKept, RowsKept, OpKept, tables, git, operator, bounds
  <1>1. TablesKept /\ OpKept /\ pc = "collect"
    BY DEF Collect
  <1>2. cur \in Tasks /\ ~Unrecorded(cur)
    BY <1>1 DEF IInv, PcOK, Recorded, AtTask
  <1>3. CASE EndTick /\ UNCHANGED <<st, last, corrupt, worker, memory>>
    BY <1>1, <1>3, CalmEnds DEF EStop, DriverLog, LogKept, Frame
  <1>4. ASSUME NEW r \in attempts, r.id = att,
               Append(cur, "Running", "HarnessExited") /\ EndTick,
               worker' = IF r.harness \in Paned THEN worker
                           ELSE [worker EXCEPT ![att] = "dead"]
        PROVE  EStop
    <2>1. Calmer /\ Calm(cur)
      BY <1>1, <1>4, CollectCalm
    <2>2. Move(cur, "Running", "Verifying")
      BY <1>2, <1>4, Moves
    <2>3. Advance(cur, "Running", "Verifying")
      BY <1>1, <2>1, <2>2 DEF Advance, Held, Justified, Dispatching
    <2>. QED
      BY <1>1, <1>2, <1>4, <2>1, <2>3, CalmEnds DEF EStop, DriverLog, Frame, TaskStates
  <1>5. ASSUME NEW r \in attempts, r.id = att,
               Append(cur, "Running", "HarnessCrashedOrTimeout"), pc' = "fallback",
               worker' = IF r.harness \in Paned THEN worker
                           ELSE [worker EXCEPT ![att] = "dead"],
               UNCHANGED <<pend, locals>>
        PROVE  EFall
    <2>1. Calmer /\ Calm(cur)
      BY <1>1, <1>5, CollectCalm
    <2>. QED
      BY <1>1, <1>5, <2>1, FallEffect DEF Frame, Dispatching, locals
  <1>. QED
    BY <1>3, <1>4, <1>5 DEF Collect

LEMMA FallbackEffect ==
  ASSUME IInv, Knowledge, MaybeFallback \/ RecordMerge \/ OrphanFail
  PROVE  EStop
  <1>1. pc' = "top" /\ Frame
    BY CalmEnds DEF MaybeFallback, RecordMerge, OrphanFail, Frame, TablesKept, RowsKept, OpKept,
       tables, git, operator, bounds
  <1>2. cur \in Tasks /\ ~Unrecorded(cur)
    BY DEF IInv, PcOK, Recorded, AtTask, MaybeFallback, RecordMerge, OrphanFail
  <1>. USE DEF Advance, Held, Justified, TaskStates, DriverLog, EStop
  <1>3. CASE MaybeFallback
    <2>1. LogKept \/ (RetriesLeft(cur) /\ Append(cur, "Failed", "RetryAuthorized"))
      BY <1>3 DEF MaybeFallback, LogKept
    <2>2. LogKept \/ (RetriesLeft(cur) /\ Move(cur, "Failed", "Ready"))
      BY <1>2, <2>1, Moves
    <2>. QED
      BY <1>1, <1>2, <1>3, <2>2 DEF MaybeFallback
  <1>4. CASE pc = "merged" /\ Append(cur, "Accepted", "IntegrationOwnerMerge")
    <2>1. Move(cur, "Accepted", "Integrated") /\ \E a \in Ids : <<cur, a>> \in merged
      BY <1>2, <1>4, Moves DEF Knowledge, Verdicts
    <2>. QED
      BY <1>1, <1>2, <1>4, <2>1
  <1>5. CASE pc = "stale" /\ Append(cur, "Accepted", "StaleBaseDetected")
    <2>1. Move(cur, "Accepted", "Failed")
      BY <1>2, <1>5, Moves
    <2>. QED
      BY <1>1, <1>2, <1>5, <2>1
  <1>6. CASE OrphanFail
    <2>1. Move(cur, "Verifying", "Failed")
      BY <1>2, <1>6, Moves DEF OrphanFail
    <2>. QED
      BY <1>1, <1>2, <1>6, <2>1 DEF OrphanFail, Checking
  <1>. QED BY <1>3, <1>4, <1>5, <1>6 DEF RecordMerge

LEMMA ChecksEffect ==
  ASSUME IInv, Knowledge, ChecksDone
  PROVE  EStop \/ EResult
  <1>1. PICK p \in BOOLEAN :
          /\ passed' = IF p THEN passed \cup {att} ELSE passed
          /\ \/ Exit
             \/ pc' = "gate" /\ UNCHANGED <<locals, memory, worker>>
             \/ /\ pc' = "result" /\ ok' = p
                /\ UNCHANGED <<snap, scan, cur, att, sel, memory, worker>>
    BY DEF ChecksDone
  <1>2. TablesKept /\ OpKept /\ LogKept /\ pc \in {"checks", "orphan"}
    BY <1>1 DEF ChecksDone, TablesKept, RowsKept, OpKept, LogKept, log, git, operator, bounds
  <1>. QED
    BY <1>1, <1>2, CalmEnds DEF EStop, EResult, DriverLog, Frame

LEMMA ResultEffect ==
  ASSUME IInv, Knowledge, AppendResult \/ AppendVerifyGate
  PROVE  EStop
  <1>1. cur \in Tasks /\ ~Unrecorded(cur)
    BY DEF IInv, PcOK, Recorded, AtTask, AppendResult, AppendVerifyGate
  <1>2. TablesKept /\ OpKept
    BY DEF AppendResult, AppendVerifyGate, TablesKept, RowsKept, OpKept, tables, git, operator,
       bounds
  <1>. USE DEF Advance, Held, Justified, TaskStates, DriverLog, EStop, Frame, LogKept
  <1>3. CASE AppendResult
    <2>0. pc = "result" /\ worker' = worker
      BY <1>3 DEF AppendResult
    <2>1. CASE ok
      <3>1. Move(cur, "Verifying", "AwaitingReview") /\ pc' = "gate"
        BY <1>1, <1>3, <2>1, Moves DEF AppendResult
      <3>2. PassedLatest(cur)
        BY <2>0, <2>1 DEF Knowledge, Verdicts, PassedLatest, Checking
      <3>. QED
        BY <1>1, <1>2, <2>0, <3>1, <3>2, CalmEnds DEF Checking
    <2>2. CASE ~ok
      <3>1. Move(cur, "Verifying", "Failed") /\ pc' = "top"
        BY <1>1, <1>3, <2>2, Moves, CalmEnds DEF AppendResult
      <3>. QED
        BY <1>1, <1>2, <2>0, <3>1, CalmEnds DEF Checking
    <2>. QED BY <2>1, <2>2
  <1>4. CASE AppendVerifyGate
    <2>1. CASE corrupt \/ ~(st[cur] = "AwaitingReview" /\ verify_gate_eligible(cur))
      BY <1>2, <1>4, <2>1, CalmEnds DEF AppendVerifyGate
    <2>2. CASE ~corrupt /\ st[cur] = "AwaitingReview" /\ verify_gate_eligible(cur)
      <3>1. Append(cur, "AwaitingReview", "VerifyGatePassed") /\ EndTick /\ worker' = worker
        BY <1>4, <2>2 DEF AppendVerifyGate
      <3>2. Move(cur, "AwaitingReview", "Accepted")
        BY <1>1, <3>1, Moves
      <3>. QED
        BY <1>1, <1>2, <2>2, <3>1, <3>2, CalmEnds DEF verify_gate_eligible
    <2>. QED BY <2>1, <2>2
  <1>. QED BY <1>3, <1>4

LEMMA IdleEffect ==
  ASSUME IInv, Knowledge,
         \/ TickRead \/ TickCorrupt \/ WaitOnLiveWorker
         \/ IdleAwaiting \/ IdleNoCandidate \/ IdleComplete \/ IdleFailed
  PROVE  EStop \/ ERead
  <1>. USE CalmEnds DEF EStop, ERead, DriverLog, LogKept, Frame, TablesKept, RowsKept, OpKept,
               log, tables, git, operator, bounds
  <1>1. CASE TickRead
    BY <1>1 DEF TickRead
  <1>2. CASE TickCorrupt \/ WaitOnLiveWorker
    BY <1>2 DEF TickCorrupt, WaitOnLiveWorker
  <1>3. ASSUME NEW reason, GoIdle(reason)
        PROVE  EStop
    BY <1>3 DEF GoIdle
  <1>. QED
    BY <1>1, <1>2, <1>3 DEF IdleAwaiting, IdleNoCandidate, IdleComplete, IdleFailed

Effect ==
  \/ EStop \/ ERead \/ ERecover \/ EDispatch \/ EWorktree \/ ESave \/ EInvoke \/ EPid
  \/ EFall \/ ECheck \/ EOrphan \/ EResult \/ EMerge \/ OthersStep

\* Every step of the system is one of these effects.
LEMMA NextEffect ==
  ASSUME IInv, Knowledge, Next
  PROVE  Effect
  <1>1. CASE Tick
    BY <1>1, ReattachEffect, HarvestEffect, PromoteEffect, VerifyEffect, MergeEffect,
       DispatchEffect, WorktreeEffect, CollectEffect, FallbackEffect, ChecksEffect,
       ResultEffect, IdleEffect DEF Tick, Effect
  <1>. QED
    BY <1>1, StartEffect, RecoverEffect, OthersEffect DEF Next, Driver, Effect

-----------------------------------------------------------------------------
(* Each part of Knowledge is kept by every effect. *)

\* Undisturbed, the driver is right about the state it works from.
LEMMA HeldExact ==
  ASSUME Knowledge, ops = 0, NEW t, NEW from, Held(t, from)
  PROVE  st[t] = from /\ ~corrupt
  BY DEF Knowledge, Exact, Held

LEMMA ExactKept ==
  ASSUME IInv, Knowledge, Effect
  PROVE  Exact'
  <1>. SUFFICES ASSUME ops' = 0
                PROVE  Exact'
    BY DEF Exact
  <1>. USE DEF Dispatching, Checking
  <1>1. ops \in Nat /\ st \in [Tasks -> TaskStates] /\ scan \subseteq Tasks
    BY DEF IInv, TypeOK
  <1>2. CASE OthersStep
    <2>1. op = "none" /\ ops = 0
      BY <1>1, <1>2 DEF OthersStep, OpKept, Knowledge, Exact
    <2>2. LogKept /\ op' = op /\ UNCHANGED <<pc, snap, scan, cur>>
      BY <1>1, <1>2, <2>1 DEF OthersStep, OpKept
    <2>. QED
      BY <2>1, <2>2 DEF LogKept, Knowledge, Exact
  <1>3. CASE ~OthersStep
    <2>1. ops = 0 /\ op' = "none" /\ ~corrupt
      BY <1>3 DEF Effect, EStop, ERead, ERecover, EDispatch, EWorktree, ESave, EInvoke, EPid,
         EFall, ECheck, EOrphan, EResult, EMerge, Frame, OpKept, Knowledge, Exact
    <2>2. ASSUME NEW t \in Tasks, NEW from, NEW to, Advance(t, from, to)
          PROVE  st' = [st EXCEPT ![t] = to] /\ ~corrupt'
      <3>1. st[t] = from
        BY <2>1, <2>2, HeldExact DEF Advance
      <3>. QED
        BY <2>1, <2>2, <3>1 DEF Advance, Move
    <2>3. CASE EStop
      <3>1. ~corrupt'
        BY <2>1, <2>2, <2>3 DEF EStop, DriverLog, LogKept
      <3>. QED
        BY <2>1, <2>3, <3>1 DEF EStop, Exact
    <2>4. CASE ERead
      BY <2>1, <2>4 DEF ERead, LogKept, Exact
    <2>5. CASE ERecover
      <3>1. PICK t \in scan : /\ scan' = scan \ {t}
                              /\ LogKept \/ \E from, to \in TaskStates : Advance(t, from, to)
        BY <2>5 DEF ERecover
      <3>2. ~corrupt' /\ \A u \in scan' : st'[u] = st[u]
        BY <1>1, <2>1, <2>2, <3>1 DEF LogKept
      <3>. QED
        BY <2>1, <2>5, <3>1, <3>2 DEF ERecover, Exact, Knowledge
    <2>6. CASE EDispatch
      <3>1. st[cur'] = "Ready"
        BY <2>1, <2>6 DEF EDispatch, Knowledge, Exact
      <3>. QED
        BY <1>1, <2>1, <2>6, <3>1 DEF EDispatch, Move, Exact
    <2>7. CASE EWorktree \/ ESave \/ EInvoke \/ EPid
      BY <2>1, <2>7 DEF EWorktree, ESave, EInvoke, EPid, LogKept, Exact, Knowledge
    <2>8. CASE EFall
      <3>1. cur \in Tasks
        BY <2>8 DEF EFall, IInv, PcOK, AtTask
      <3>. QED
        BY <1>1, <2>1, <2>2, <2>8, <3>1 DEF EFall, Exact
    <2>9. CASE ECheck
      BY <1>1, <2>1, <2>2, <2>9 DEF ECheck, LogKept, Exact, Knowledge
    <2>10. CASE EOrphan \/ EMerge
      BY <2>1, <2>10 DEF EOrphan, EMerge, LogKept, Exact, Knowledge
    <2>11. CASE EResult
      BY <2>1, <2>11 DEF EResult, LogKept, Exact, Knowledge
    <2>. QED
      BY <1>3, <2>3, <2>4, <2>5, <2>6, <2>7, <2>8, <2>9, <2>10, <2>11 DEF Effect
  <1>. QED BY <1>2, <1>3

\* Effects that leave the attempts and their pids alone.
LEMMA RowsEffect ==
  ASSUME Effect
  PROVE  RowsKept \/ ESave \/ EPid
  BY DEF Effect, EStop, ERead, ERecover, EDispatch, EWorktree, EInvoke,
         EFall, ECheck, EOrphan, EResult, EMerge, Frame, TablesKept, RowsKept, OthersStep

LEMMA RowIdsKept ==
  ASSUME IInv, Knowledge, Effect
  PROVE  RowIds'
  <1>. USE DEF RowIds, Knowledge
  <1>1. CASE ESave
    <2>1. PICK h \in Harnesses :
            attempts' = attempts \cup {[id |-> att, task |-> cur, harness |-> h]}
      BY <1>1 DEF ESave
    <2>2. IsFiniteSet(attempts')
      BY <2>1, FS_AddElement
    <2>3. \A r \in attempts : r.id \in Int /\ r.id < att
      BY <1>1 DEF ESave, IInv, TypeOK, Row, Ids
    <2>4. att \in Ids
      BY <1>1 DEF ESave, IInv, PcOK, AtAttempt
    <2>5. \A r, q \in attempts' : r.id = q.id => r = q
      BY <2>1, <2>3, <2>4 DEF Ids
    <2>6. att' = att /\ cur' = cur
      BY <1>1 DEF ESave
    <2>8. \A r \in attempts' : r.id <= att /\ (r.id = att => r.task = cur)
      <3>1. \A r \in attempts : r.id <= att /\ r.id # att
        BY <2>3, <2>4 DEF Ids
      <3>2. ASSUME NEW r, r = [id |-> att, task |-> cur, harness |-> h]
            PROVE  r.id <= att /\ r.task = cur
        BY <2>4, <3>2 DEF Ids
      <3>. QED BY <2>1, <3>1, <3>2
    <2>9. \E r \in attempts' : r.id = att
      <3>1. [id |-> att, task |-> cur, harness |-> h].id = att
        OBVIOUS
      <3>. QED BY <2>1, <3>1
    <2>7. att' \notin pidSaved' /\ \A a \in pidSaved' : \E r \in attempts' : r.id = a
      BY <1>1, <2>1, <2>3, <2>4 DEF Ids, ESave
    <2>. QED
      BY <1>1, <2>2, <2>5, <2>6, <2>7, <2>8, <2>9 DEF ESave
  <1>2. CASE EPid
    BY <1>2 DEF EPid
  <1>3. CASE RowsKept
    <2>1. CASE EDispatch
      BY <1>3, <2>1 DEF EDispatch, RowsKept
    <2>2. CASE EWorktree
      BY <1>3, <2>2 DEF EWorktree, RowsKept
    <2>3. CASE EInvoke
      BY <1>3, <2>3 DEF EInvoke, RowsKept
    <2>4. CASE OthersStep
      BY <1>3, <2>4 DEF OthersStep, RowsKept
    <2>5. CASE EStop \/ ERead \/ ERecover \/ EFall \/ ECheck \/ EOrphan \/ EResult \/ EMerge
      BY <1>3, <2>5 DEF EStop, ERead, ERecover, EFall, ECheck, EOrphan, EResult, EMerge, RowsKept
    <2>. QED
      BY <1>1, <1>2, <2>1, <2>2, <2>3, <2>4, <2>5 DEF Effect
  <1>. QED BY <1>1, <1>2, <1>3, RowsEffect

\* The moves of the log, whoever makes them.
LogMove ==
  \/ LogKept
  \/ \E t \in Tasks, from \in TaskStates, to \in TaskStates :
       Justified(t, from, to) /\ Move(t, from, to)
  \/ EDispatch
  \/ st' = st /\ corrupt'
  \/ ~corrupt /\ ~corrupt' /\ \E t \in Tasks : st' = [st EXCEPT ![t] = "Cancelled"]
  \/ \E t \in Tasks : /\ op = "accept" /\ opTodo = {t}
                      /\ Move(t, "AwaitingReview", "Accepted")

LEMMA LogEffect ==
  ASSUME IInv, Knowledge, Effect
  PROVE  LogMove
  <1>1. CASE EStop
    BY <1>1 DEF EStop, DriverLog, Advance, LogMove
  <1>2. CASE ERecover
    BY <1>2 DEF ERecover, Advance, LogMove, IInv, TypeOK
  <1>3. CASE EFall
    <2>1. cur \in Tasks
      BY <1>3 DEF EFall, IInv, PcOK, AtTask, Dispatching
    <2>. QED
      BY <1>3, <2>1 DEF EFall, Advance, LogMove, TaskStates
  <1>4. CASE ECheck
    BY <1>4 DEF ECheck, Advance, LogMove, TaskStates
  <1>5. CASE OthersStep
    BY <1>5 DEF OthersStep, LogMove
  <1>. QED
    BY <1>1, <1>2, <1>3, <1>4, <1>5 DEF Effect, ERead, EWorktree, ESave, EInvoke, EPid, EOrphan,
       EResult, EMerge, LogMove


\* Why a task may leave its state for another.
Reason(t) ==
  \/ Justified(t, st[t], st'[t])
  \/ EDispatch /\ cur' = t /\ st[t] = "Ready" /\ st'[t] = "Running"
  \/ st'[t] = "Cancelled"
  \/ op = "accept" /\ opTodo = {t} /\ st[t] = "AwaitingReview" /\ st'[t] = "Accepted"

LEMMA Reasons ==
  ASSUME IInv, Knowledge, LogMove
  PROVE  /\ corrupt => corrupt'
         /\ \A t \in Tasks : st'[t] # st[t] => ~corrupt /\ ~corrupt' /\ Reason(t)
  <1>1. st \in [Tasks -> TaskStates] /\ corrupt \in BOOLEAN
    BY DEF IInv, TypeOK
  <1>2. CASE LogKept \/ (st' = st /\ corrupt')
    BY <1>1, <1>2 DEF LogKept
  <1>3. ASSUME NEW t \in Tasks, NEW from \in TaskStates, NEW to \in TaskStates,
               Move(t, from, to)
        PROVE  /\ corrupt => corrupt'
               /\ \A u \in Tasks : st'[u] # st[u] =>
                    ~corrupt /\ ~corrupt' /\ u = t /\ st[u] = from /\ st'[u] = to
    BY <1>1, <1>3 DEF Move
  <1>4. CASE EDispatch
    BY <1>3, <1>4 DEF EDispatch, Reason, TaskStates
  <1>5. CASE ~corrupt /\ ~corrupt' /\ \E t \in Tasks : st' = [st EXCEPT ![t] = "Cancelled"]
    BY <1>1, <1>5 DEF Reason
  <1>6. ASSUME NEW t \in Tasks, op = "accept" /\ opTodo = {t},
               Move(t, "AwaitingReview", "Accepted")
        PROVE  /\ corrupt => corrupt'
               /\ \A u \in Tasks : st'[u] # st[u] => ~corrupt /\ ~corrupt' /\ Reason(u)
    BY <1>3, <1>6 DEF Reason, TaskStates
  <1>7. ASSUME NEW t \in Tasks, NEW from \in TaskStates, NEW to \in TaskStates,
               Justified(t, from, to), Move(t, from, to)
        PROVE  /\ corrupt => corrupt'
               /\ \A u \in Tasks : st'[u] # st[u] => ~corrupt /\ ~corrupt' /\ Reason(u)
    BY <1>3, <1>7 DEF Reason
  <1>. QED BY <1>2, <1>4, <1>5, <1>6, <1>7 DEF LogMove

LEMMA DispatchedKept ==
  ASSUME IInv, Knowledge, Effect
  PROVE  Dispatched'
  <1>1. /\ corrupt => corrupt'
        /\ \A t \in Tasks : st'[t] # st[t] => ~corrupt /\ ~corrupt' /\ Reason(t)
    BY LogEffect, Reasons
  <1>. USE DEF Knowledge, Dispatched, Dispatching
  <1>2. CASE OthersStep
    <2>1. \A t \in Tasks : st'[t] = st[t] \/ st'[t] = "Cancelled" \/ st[t] = "AwaitingReview"
      BY <1>2 DEF OthersStep, LogKept, Move, IInv, TypeOK
    <2>2. pc \in Dispatching => cur \in Tasks
      BY DEF IInv, PcOK, AtTask
    <2>. QED
      BY <1>1, <1>2, <2>1, <2>2 DEF OthersStep
  <1>3. CASE EDispatch
    <2>1. st[cur'] \in {"Ready", "Cancelled"}
      BY <1>3 DEF EDispatch
    <2>. QED
      BY <1>3, <2>1 DEF EDispatch, Move, IInv, TypeOK
  <1>4. CASE EWorktree \/ ESave \/ EInvoke \/ EPid
    BY <1>4 DEF EWorktree, ESave, EInvoke, EPid, LogKept
  <1>5. CASE ERead
    BY <1>5 DEF ERead, LogKept
  <1>6. CASE EStop \/ ERecover \/ EFall \/ ECheck \/ EOrphan \/ EResult \/ EMerge
    BY <1>6 DEF EStop, ERecover, EFall, ECheck, EOrphan, EResult, EMerge
  <1>. QED BY <1>2, <1>3, <1>4, <1>5, <1>6 DEF Effect

\* One row more for the task being dispatched, none for the others.
LEMMA SavedRows ==
  ASSUME IInv, Knowledge, ESave
  PROVE  /\ cur \in Tasks /\ RetriesLeft(cur)
         /\ \A t \in Tasks \ {cur} : RowsOf(t)' = RowsOf(t)
         /\ \A t \in Tasks : t = cur => Cardinality(RowsOf(t)') <= MaxRetries
  <1>1. cur \in Tasks /\ RetriesLeft(cur)
    BY DEF ESave, IInv, PcOK, AtTask, Knowledge, Budget
  <1>2. PICK h \in Harnesses :
          attempts' = attempts \cup {[id |-> att, task |-> cur, harness |-> h]}
    BY DEF ESave
  <1>7. [id |-> att, task |-> cur, harness |-> h].task = cur /\ cur' = cur
    BY DEF ESave
  <1>3. \A t \in Tasks \ {cur} : RowsOf(t)' = RowsOf(t)
    BY <1>2, <1>7 DEF RowsOf
  <1>4. RowsOf(cur)' = RowsOf(cur) \cup {[id |-> att, task |-> cur, harness |-> h]}
    BY <1>2, <1>7 DEF RowsOf
  <1>5. IsFiniteSet(RowsOf(cur))
    BY FS_Subset DEF Knowledge, RowIds, RowsOf
  <1>6. /\ Cardinality(RowsOf(cur)) \in Nat
        /\ Cardinality(RowsOf(cur)') \in Nat
        /\ Cardinality(RowsOf(cur)') <= Cardinality(RowsOf(cur)) + 1
    <2>. DEFINE R == RowsOf(cur)
                x == [id |-> att, task |-> cur, harness |-> h]
    <2>1. Cardinality(R) \in Nat
      BY <1>5, FS_CardinalityType
    <2>2. Cardinality(R \cup {x}) = IF x \in R THEN Cardinality(R) ELSE Cardinality(R) + 1
      BY <1>5, FS_AddElement
    <2>. HIDE DEF R, x
    <2>3. Cardinality(R \cup {x}) \in Nat /\ Cardinality(R \cup {x}) <= Cardinality(R) + 1
      BY <2>1, <2>2
    <2>. QED
      BY <1>4, <2>1, <2>3 DEF R, x
  <1>. QED
    BY <1>1, <1>3, <1>6, <1>7, LimitsAssumption DEF RetriesLeft

LEMMA BudgetKept ==
  ASSUME IInv, Knowledge, Effect
  PROVE  Budget' /\ RetryBudget'
  <1>1. /\ corrupt => corrupt'
        /\ \A t \in Tasks : st'[t] # st[t] => ~corrupt /\ ~corrupt' /\ Reason(t)
    BY LogEffect, Reasons
  <1>. USE DEF Knowledge, Budget
  <1>2. CASE ESave
    <2>1. st[cur] \in {"Running", "Cancelled"} \/ (corrupt /\ st[cur] = "Ready")
      BY <1>2 DEF ESave, Dispatched, Dispatching
    <2>2. \A t \in Tasks \ {cur} : (RetriesLeft(t)' <=> RetriesLeft(t))
      BY <1>2, SavedRows DEF RetriesLeft
    <2>3. RetryBudget'
      BY <1>2, SavedRows DEF RetryBudget
    <2>4. pc' = "invoke" /\ st' = st /\ corrupt' = corrupt
      BY <1>2 DEF ESave, LogKept
    <2>5. ASSUME NEW t \in Tasks
          PROVE  /\ st[t] \in {"Pending", "Blocked"} => RowsOf(t)' = {}
                 /\ st[t] = "Ready" /\ ~corrupt => RetriesLeft(t)'
      BY <1>2, <2>1, <2>2, SavedRows
    <2>. QED
      BY <2>3, <2>4, <2>5
  <1>3. CASE UNCHANGED attempts
    <2>1. \A t \in Tasks : RowsOf(t)' = RowsOf(t) /\ (RetriesLeft(t)' <=> RetriesLeft(t))
      BY <1>3 DEF RowsOf, RetriesLeft
    <2>2. \A t \in Tasks : RowsOf(t) = {} => RetriesLeft(t)
      BY FS_EmptySet, LimitsAssumption DEF RetriesLeft
    <2>3. RetryBudget'
      BY <2>1 DEF RetryBudget
    <2>4. ASSUME NEW t \in Tasks
          PROVE  /\ st'[t] \in {"Pending", "Blocked"} => RowsOf(t) = {}
                 /\ st'[t] = "Ready" /\ ~corrupt' => RetriesLeft(t)
      <3>1. CASE st'[t] = st[t]
        BY <1>1, <3>1
      <3>2. CASE st'[t] # st[t]
        BY <1>1, <2>2, <3>2 DEF Reason, Justified
      <3>. QED BY <3>1, <3>2
    <2>5. pc' = "tick" => \A t \in Tasks : snap'[t] = "Ready" => RetriesLeft(t)
      <3>1. CASE ERead
        BY <3>1 DEF ERead
      <3>2. CASE OthersStep
        BY <3>2 DEF OthersStep
      <3>. QED
        BY <3>1, <3>2 DEF Effect, EStop, ERecover, EDispatch, EWorktree, ESave, EInvoke, EPid,
           EFall, ECheck, EOrphan, EResult, EMerge, Dispatching
    <2>6. pc' \in {"worktree", "save"} => RetriesLeft(cur')
      <3>1. CASE EDispatch \/ EWorktree
        BY <3>1 DEF EDispatch, EWorktree
      <3>2. CASE OthersStep
        BY <3>2 DEF OthersStep
      <3>. QED
        BY <3>1, <3>2 DEF Effect, EStop, ERead, ERecover, ESave, EInvoke, EPid,
           EFall, ECheck, EOrphan, EResult, EMerge, Dispatching
    <2>7. pc' \in {"worktree", "save"} => cur' \in Tasks
      <3>1. CASE OthersStep \/ EWorktree
        BY <3>1 DEF OthersStep, EWorktree, IInv, PcOK, AtTask
      <3>2. CASE EDispatch
        BY <3>2 DEF EDispatch
      <3>. QED
        BY <3>1, <3>2 DEF Effect, EStop, ERead, ERecover, ESave, EInvoke, EPid,
           EFall, ECheck, EOrphan, EResult, EMerge, Dispatching
    <2>. QED
      BY <2>1, <2>3, <2>4, <2>5, <2>6, <2>7
  <1>. QED
    BY <1>2, <1>3, RowsEffect DEF RowsKept, EPid

\* A verdict about the latest attempt stays one while the rows stay.
LEMMA LatestKept ==
  ASSUME NEW t, RowsOf(t)' = RowsOf(t), passed \subseteq passed', approved \subseteq approved'
  PROVE  /\ \A r : IsLatest(r, t)' <=> IsLatest(r, t)
         /\ PassedLatest(t) => PassedLatest(t)'
         /\ AcceptedLatest(t) => AcceptedLatest(t)'
  <1>1. \A r : IsLatest(r, t)' <=> IsLatest(r, t)
    BY DEF IsLatest
  <1>2. \A r : IsLatest(r, t) => r \in attempts
    BY DEF IsLatest, RowsOf
  <1>. QED
    BY <1>1, <1>2 DEF PassedLatest, AcceptedLatest

LEMMA EvidenceGrows ==
  ASSUME Effect
  PROVE  passed \subseteq passed' /\ approved \subseteq approved'
  <1>1. CASE OthersStep
    BY <1>1 DEF OthersStep
  <1>. QED
    BY <1>1 DEF Effect, EStop, ERead, ERecover, EDispatch, EWorktree, ESave, EInvoke, EPid, EFall,
       ECheck, EOrphan, EResult, EMerge, Frame, TablesKept

LEMMA VerdictsKept ==
  ASSUME IInv, Knowledge, Effect
  PROVE  Verdicts'
  <1>1. /\ corrupt => corrupt'
        /\ \A t \in Tasks : st'[t] # st[t] => ~corrupt /\ ~corrupt' /\ Reason(t)
    BY LogEffect, Reasons
  <1>2. passed \subseteq passed' /\ approved \subseteq approved'
    BY EvidenceGrows
  <1>. USE DEF Knowledge, Verdicts
  <1>3. CASE ESave
    <2>1. st[cur] \in {"Running", "Cancelled", "Ready"} /\ cur \in Tasks
      BY <1>3, SavedRows DEF ESave, Dispatched, Dispatching
    <2>2. /\ pc' = "invoke" /\ LogKept /\ OpKept
      BY <1>3 DEF ESave
    <2>3. \A t \in Tasks \ {cur} : /\ PassedLatest(t) => PassedLatest(t)'
                                   /\ AcceptedLatest(t) => AcceptedLatest(t)'
      BY <1>2, <1>3, SavedRows, LatestKept
    <2>4. opTodo \subseteq Tasks
      BY DEF IInv, TypeOK
    <2>. QED
      BY <2>1, <2>2, <2>3, <2>4 DEF LogKept, OpKept, Checking
  <1>4. CASE ~ESave
    <2>1. attempts' = attempts
      BY <1>4, RowsEffect DEF RowsKept, EPid
    <2>2. \A t : /\ \A r : IsLatest(r, t)' <=> IsLatest(r, t)
                 /\ PassedLatest(t) => PassedLatest(t)'
                 /\ AcceptedLatest(t) => AcceptedLatest(t)'
      <3>1. \A t : RowsOf(t)' = RowsOf(t)
        BY <2>1 DEF RowsOf
      <3>. QED BY <1>2, <3>1, LatestKept
    <2>3. ASSUME NEW t \in Tasks
          PROVE  /\ st'[t] \in {"AwaitingReview", "Accepted"} => PassedLatest(t)'
                 /\ st'[t] = "Accepted" => AcceptedLatest(t)'
      <3>1. CASE st'[t] = st[t]
        BY <2>2, <3>1
      <3>2. CASE st'[t] # st[t] /\ Justified(t, st[t], st'[t])
        BY <2>2, <3>2 DEF Justified, AcceptedLatest
      <3>3. CASE st[t] = "AwaitingReview" /\ op = "accept" /\ opTodo = {t}
        BY <2>2, <3>3 DEF AcceptedLatest
      <3>. QED BY <1>1, <3>1, <3>2, <3>3 DEF Reason
    <2>4. pc' = "tick" => \A t \in Tasks :
            snap'[t] = "Accepted" => PassedLatest(t)' /\ AcceptedLatest(t)'
      <3>1. CASE ERead
        BY <2>3, <3>1 DEF ERead, LogKept
      <3>2. CASE OthersStep
        BY <2>2, <3>2 DEF OthersStep
      <3>. QED
        BY <3>1, <3>2 DEF Effect, EStop, ERecover, EDispatch, EWorktree, ESave, EInvoke, EPid,
           EFall, ECheck, EOrphan, EResult, EMerge, Dispatching
    <2>5. pc' \in Checking => \A r \in attempts : IsLatest(r, cur') => r.id = att'
      <3>1. CASE ECheck \/ EOrphan
        BY <3>1 DEF ECheck, EOrphan, IsLatest, RowsOf, IInv, TypeOK, Row, Ids
      <3>2. CASE EResult \/ OthersStep
        BY <3>2 DEF EResult, OthersStep, Checking
      <3>. QED
        BY <3>1, <3>2 DEF Effect, EStop, ERead, ERecover, EDispatch, EWorktree, ESave, EInvoke,
           EPid, EFall, EMerge, Checking
    <2>6. pc' = "result" /\ ok' => att' \in passed'
      <3>1. CASE EResult
        BY <3>1 DEF EResult
      <3>2. CASE OthersStep
        BY <3>2 DEF OthersStep
      <3>. QED
        BY <3>1, <3>2 DEF Effect, EStop, ERead, ERecover, EDispatch, EWorktree, ESave, EInvoke,
           EPid, EFall, ECheck, EOrphan, EMerge
    <2>7. op' = "accept" => \A t \in opTodo' \ VerifyGate :
            st'[t] = "AwaitingReview" /\ AcceptedLatest(t)'
      <3>1. CASE OpKept
        <4>1. ASSUME op' = "accept", NEW t \in opTodo' \ VerifyGate
              PROVE  st'[t] = "AwaitingReview" /\ AcceptedLatest(t)'
          <5>1. op = "accept" /\ t \in opTodo \ VerifyGate /\ t \in Tasks
            BY <3>1, <4>1 DEF OpKept, IInv, TypeOK
          <5>2. st[t] = "AwaitingReview" /\ AcceptedLatest(t)'
            BY <2>2, <5>1
          <5>3. st'[t] = st[t]
            <6>1. ASSUME OthersStep PROVE LogKept
              BY <3>1, <5>1, <6>1 DEF OthersStep, OpKept
            <6>2. CASE OthersStep
              BY <6>1, <6>2 DEF LogKept
            <6>3. CASE ~OthersStep
              <7>1. \/ LogKept
                    \/ \E u \in Tasks, from \in TaskStates, to \in TaskStates :
                         Justified(u, from, to) /\ Move(u, from, to)
                    \/ EDispatch
                BY <6>3 DEF Effect, EStop, ERead, ERecover, EWorktree, ESave, EInvoke, EPid,
                   EFall, ECheck, EOrphan, EResult, EMerge, DriverLog, Advance, IInv, TypeOK,
                   PcOK, AtTask, Dispatching, TaskStates
              <7>2. CASE LogKept
                BY <7>2 DEF LogKept
              <7>3. CASE EDispatch
                BY <5>1, <5>2, <7>3 DEF EDispatch, Move, IInv, TypeOK
              <7>4. ASSUME NEW u \in Tasks, NEW from \in TaskStates, NEW to \in TaskStates,
                           Justified(u, from, to), Move(u, from, to)
                    PROVE  st'[t] = st[t]
                <8>1. CASE u = t /\ from = "AwaitingReview"
                  BY <5>1, <7>4, <8>1 DEF Justified
                <8>2. CASE ~(u = t /\ from = "AwaitingReview")
                  BY <5>1, <5>2, <7>4, <8>2 DEF Move, IInv, TypeOK
                <8>. QED BY <8>1, <8>2
              <7>. QED BY <7>1, <7>2, <7>3, <7>4
            <6>. QED BY <6>2, <6>3
          <5>. QED BY <5>2, <5>3
        <4>. QED BY <4>1
      <3>2. CASE OthersStep /\ op' = "accept" /\ ~OpKept
        <4>1. PICK t \in Tasks, r \in attempts :
                /\ opTodo' = {t} /\ st[t] = "AwaitingReview" /\ IsLatest(r, t)
                /\ approved' = approved \cup {r.id} /\ LogKept
          BY <3>2 DEF OthersStep
        <4>2. \A q \in attempts : IsLatest(q, t) => q.id = r.id
          BY <4>1 DEF IsLatest, RowsOf, IInv, TypeOK, Row, Ids
        <4>. QED
          BY <2>1, <2>2, <4>1, <4>2 DEF AcceptedLatest, LogKept
      <3>. QED
        BY <3>1, <3>2 DEF Effect, EStop, ERead, ERecover, EDispatch, EWorktree, ESave, EInvoke,
           EPid, EFall, ECheck, EOrphan, EResult, EMerge, Frame, OthersStep
    <2>8. pc' = "merged" => \E a \in Ids : <<cur', a>> \in merged'
      <3>1. CASE EMerge
        BY <3>1 DEF EMerge, IInv, TypeOK, Row
      <3>2. CASE OthersStep
        BY <3>2 DEF OthersStep
      <3>. QED
        BY <3>1, <3>2 DEF Effect, EStop, ERead, ERecover, EDispatch, EWorktree, ESave, EInvoke,
           EPid, EFall, ECheck, EOrphan, EResult
    <2>. QED
      BY <2>1, <2>2, <2>3, <2>4, <2>5, <2>6, <2>7, <2>8
  <1>. QED BY <1>3, <1>4

LEMMA BranchKept ==
  ASSUME IInv, Knowledge, Effect
  PROVE  BranchMatchesLog'
  <1>1. passed \subseteq passed' /\ approved \subseteq approved'
    BY EvidenceGrows
  <1>2. merged' = merged \/ EMerge
    BY DEF Effect, EStop, ERead, ERecover, EDispatch, EWorktree, ESave, EInvoke, EPid, EFall,
       ECheck, EOrphan, EResult, OthersStep, Frame, TablesKept
  <1>3. merged \subseteq merged'
    BY <1>2 DEF EMerge
  <1>4. OnlyAcceptedMerges'
    <2>1. CASE merged' = merged
      BY <1>1, <2>1 DEF Knowledge, BranchMatchesLog, OnlyAcceptedMerges
    <2>2. CASE EMerge
      <3>1. PICK r \in attempts :
              IsLatest(r, cur') /\ (merged' = merged \/ merged' = merged \cup {<<cur', r.id>>})
        BY <2>2 DEF EMerge
      <3>2. r.id \in passed /\ (cur' \in VerifyGate \/ r.id \in approved)
        BY <2>2, <3>1 DEF EMerge, Knowledge, Verdicts, PassedLatest, AcceptedLatest
      <3>. QED
        BY <1>1, <3>1, <3>2 DEF Knowledge, BranchMatchesLog, OnlyAcceptedMerges
    <2>. QED BY <1>2, <2>1, <2>2
  <1>5. IntegratedIsMerged'
    <2>1. ASSUME NEW t \in Tasks, st'[t] = "Integrated"
          PROVE  \E a \in Ids : <<t, a>> \in merged
      <3>1. CASE st'[t] = st[t]
        BY <2>1, <3>1 DEF Knowledge, BranchMatchesLog, IntegratedIsMerged
      <3>2. CASE st'[t] # st[t]
        BY <2>1, <3>2, LogEffect, Reasons DEF Reason, Justified
      <3>. QED BY <3>1, <3>2
    <2>. QED
      BY <1>3, <2>1 DEF IntegratedIsMerged
  <1>. QED BY <1>4, <1>5 DEF BranchMatchesLog

\* Only the effects of a dispatch add rows, workers or pids.
LEMMA QuietEffect ==
  ASSUME IInv, Knowledge, Effect
  PROVE  (RowsKept /\ Calmer) \/ ESave \/ EInvoke \/ EPid
  BY DEF Effect, EStop, ERead, ERecover, EDispatch, EWorktree, EFall, ECheck, EOrphan, EResult,
         EMerge, OthersStep, Frame, TablesKept, RowsKept

LEMMA QuietKept ==
  ASSUME IInv, RowsKept, Calmer, NEW t \in Tasks
  PROVE  Calm(t) \/ Quiet(t) => Quiet(t)'
  BY DEF RowsKept, Calmer, Calm, Quiet, RowsOf, IInv, TypeOK, Row

\* The attempt being started has no pid yet, so it does not count.
LEMMA StartingQuiet ==
  ASSUME IInv, Knowledge, ESave \/ EInvoke, NEW t \in Tasks, Quiet(t)
  PROVE  Quiet(t)'
  <1>1. cur \in Tasks /\ att \in Ids /\ worker \in [Ids -> WorkerStates]
    BY DEF ESave, EInvoke, IInv, PcOK, TypeOK, AtTask, AtAttempt
  <1>2. att \notin pidSaved /\ pidSaved' = pidSaved
    BY <1>1 DEF ESave, EInvoke, TablesKept, RowsKept, Knowledge, RowIds, IInv, TypeOK, Row, Ids
  <1>3. CASE EInvoke
    BY <1>1, <1>2, <1>3 DEF EInvoke, TablesKept, RowsKept, Quiet, RowsOf, IInv, TypeOK, Row
  <1>4. CASE ESave
    <2>1. PICK h \in Harnesses :
            attempts' = attempts \cup {[id |-> att, task |-> cur, harness |-> h]}
      BY <1>4 DEF ESave
    <2>2. \A r \in RowsOf(t)' : r \in RowsOf(t) \/ r.id = att
      BY <2>1 DEF RowsOf
    <2>3. worker' = worker
      BY <1>4 DEF ESave
    <2>. QED
      BY <1>2, <2>2, <2>3 DEF Quiet
  <1>. QED BY <1>3, <1>4

LEMMA WorkersKept ==
  ASSUME IInv, Knowledge, Effect
  PROVE  Workers'
  <1>1. /\ corrupt => corrupt'
        /\ \A t \in Tasks : st'[t] # st[t] => ~corrupt /\ ~corrupt' /\ Reason(t)
    BY LogEffect, Reasons
  <1>2. \A t \in Tasks : ~corrupt /\ st[t] \notin {"Running", "Cancelled"} => Quiet(t)
    BY DEF Knowledge, Workers
  <1>3. pc = "tick" => \A t \in Tasks : snap[t] = "Ready" => Quiet(t)
    BY DEF Knowledge, Workers
  <1>4. pc \in {"worktree", "save", "invoke", "pid"} => Quiet(cur)
    BY DEF Knowledge, Workers
  <1>5. \A r \in attempts : r.harness \notin Paned /\ r.id \in pidSaved /\ worker[r.id] = "live"
          => IsLatest(r, r.task)
    BY DEF Knowledge, Workers
  <1>6. pc \in Dispatching =>
          /\ cur \in Tasks /\ att \in Ids
          /\ st[cur] \in {"Running", "Cancelled"} \/ (corrupt /\ st[cur] = "Ready")
    BY DEF Dispatching, Knowledge, Dispatched, IInv, PcOK, AtTask, AtAttempt
  <1>7. attempts \subseteq Row /\ worker \in [Ids -> WorkerStates]
    BY DEF IInv, TypeOK
  <1>8. CASE RowsKept /\ Calmer
    <2>1. ASSUME NEW t \in Tasks, ~corrupt', st'[t] \notin {"Running", "Cancelled"}
          PROVE  Quiet(t)'
      <3>1. Quiet(t) \/ Calm(t)
        <4>1. CASE st'[t] = st[t]
          BY <1>1, <1>2, <2>1, <4>1
        <4>2. CASE st'[t] # st[t]
          BY <1>1, <1>2, <2>1, <4>2 DEF Reason, Justified
        <4>. QED BY <4>1, <4>2
      <3>. QED BY <1>8, <3>1, QuietKept
    <2>2. pc' = "tick" => \A t \in Tasks : snap'[t] = "Ready" => Quiet(t)'
      <3>1. CASE ERead
        BY <1>2, <1>8, <3>1, QuietKept DEF ERead
      <3>2. CASE OthersStep
        BY <1>3, <1>8, <3>2, QuietKept DEF OthersStep
      <3>. QED
        BY <3>1, <3>2 DEF Effect, EStop, ERecover, EDispatch, EWorktree, ESave, EInvoke, EPid,
           EFall, ECheck, EOrphan, EResult, EMerge, Dispatching
    <2>3. pc' \in {"worktree", "save", "invoke", "pid"} =>
            (cur' \in Tasks /\ \A t \in Tasks : t = cur' => Quiet(t)')
      <3>1. CASE EDispatch
        BY <1>3, <1>8, <3>1, QuietKept DEF EDispatch
      <3>2. CASE EWorktree \/ OthersStep
        BY <1>4, <1>6, <1>8, <3>2, QuietKept DEF EWorktree, OthersStep, Dispatching
      <3>3. CASE ESave \/ EInvoke \/ EPid
        BY <1>4, <1>6, <1>8, <3>3, QuietKept DEF ESave, EInvoke, EPid, Dispatching
      <3>. QED
        BY <3>1, <3>2, <3>3 DEF Effect, EStop, ERead, ERecover, EFall, ECheck, EOrphan, EResult,
           EMerge
    <2>4. \A r \in attempts' :
            r.harness \notin Paned /\ r.id \in pidSaved' /\ worker'[r.id] = "live"
              => IsLatest(r, r.task)'
      BY <1>5, <1>7, <1>8 DEF RowsKept, Calmer, IsLatest, RowsOf, Row
    <2>5. pc' \in {"worktree", "save", "invoke", "pid"} => Quiet(cur)'
      BY <2>3
    <2>. QED
      BY <2>1, <2>2, <2>4, <2>5 DEF Workers
  <1>9. CASE ESave \/ EInvoke
    <2>1. /\ pc \in Dispatching /\ Quiet(cur) /\ pc' \in {"invoke", "pid"} /\ cur' = cur
          /\ LogKept /\ pidSaved' = pidSaved /\ att \notin pidSaved
      BY <1>4, <1>6, <1>9 DEF ESave, EInvoke, TablesKept, RowsKept, Dispatching, Knowledge, RowIds,
         IInv, TypeOK, Row, Ids
    <2>2. \A t \in Tasks : Quiet(t) => Quiet(t)'
      BY <1>9, StartingQuiet
    <2>3. Quiet(cur)'
      BY <1>6, <2>1, <2>2
    <2>4. ASSUME NEW r \in attempts', r.harness \notin Paned, r.id \in pidSaved',
                 worker'[r.id] = "live"
          PROVE  IsLatest(r, r.task)'
      <3>1. CASE EInvoke
        <4>1. r \in attempts /\ attempts' = attempts /\ r.id \in Ids
          BY <1>7, <3>1 DEF EInvoke, TablesKept, RowsKept, Row
        <4>2. worker[r.id] = "live"
          BY <1>7, <2>1, <2>4, <3>1, <4>1 DEF EInvoke
        <4>. QED
          BY <1>5, <2>1, <2>4, <4>1, <4>2 DEF IsLatest, RowsOf
      <3>2. CASE ESave
        <4>1. PICK h \in Harnesses :
                attempts' = attempts \cup {[id |-> att, task |-> cur, harness |-> h]}
          BY <3>2 DEF ESave
        <4>2. worker' = worker /\ [id |-> att, task |-> cur, harness |-> h].id = att
          BY <3>2 DEF ESave
        <4>3. r \in attempts
          BY <2>1, <2>4, <4>1, <4>2
        <4>4. IsLatest(r, r.task)
          BY <1>5, <2>1, <2>4, <4>2, <4>3
        <4>5. r.task # cur
          BY <2>1, <2>4, <4>2, <4>3 DEF Quiet, RowsOf
        <4>6. r.task \in Tasks /\ RowsOf(r.task)' = RowsOf(r.task)
          BY <1>7, <3>2, <4>3, <4>5, SavedRows DEF Row
        <4>. QED
          BY <4>4, <4>6 DEF IsLatest
      <3>. QED BY <1>9, <3>1, <3>2
    <2>5. \A t \in Tasks : ~corrupt' /\ st'[t] \notin {"Running", "Cancelled"} => Quiet(t)'
      BY <1>2, <2>1, <2>2 DEF LogKept
    <2>. QED
      BY <2>1, <2>3, <2>4, <2>5 DEF Workers
  <1>10. CASE EPid
    <2>1. /\ pc = "pid" /\ pc' = "collect" /\ cur' = cur /\ attempts' = attempts
          /\ pidSaved' = pidSaved \cup {att} /\ worker' = worker /\ LogKept
      BY <1>10 DEF EPid
    <2>2. \A r \in attempts : r.id <= att /\ (r.id = att => r.task = cur)
      BY <2>1 DEF Knowledge, RowIds
    <2>3. \A t \in Tasks : Quiet(t) => Quiet(t)' \/ t = cur
      BY <2>1, <2>2 DEF Quiet, RowsOf
    <2>4. \A t \in Tasks : ~corrupt' /\ st'[t] \notin {"Running", "Cancelled"} => Quiet(t)'
      BY <1>2, <1>6, <2>1, <2>3 DEF LogKept, Dispatching
    <2>5. ASSUME NEW r \in attempts, r.harness \notin Paned, r.id \in pidSaved',
                 worker[r.id] = "live"
          PROVE  IsLatest(r, r.task)
      <3>1. CASE r.id \in pidSaved
        BY <1>5, <2>5, <3>1
      <3>2. CASE r.id = att
        BY <1>7, <2>2, <2>5, <3>2 DEF IsLatest, RowsOf
      <3>. QED BY <2>1, <2>5, <3>1, <3>2
    <2>6. \A r \in attempts : IsLatest(r, r.task)' <=> IsLatest(r, r.task)
      BY <2>1 DEF IsLatest, RowsOf
    <2>. QED
      BY <2>1, <2>4, <2>5, <2>6 DEF Workers
  <1>. QED BY <1>8, <1>9, <1>10, QuietEffect

\* Only a dispatch adds to the tasks that hold a slot.
LEMMA CountedKept ==
  ASSUME IInv, Knowledge, Effect
  PROVE  Counted' \subseteq Counted \/ (EDispatch /\ Counted' \subseteq Counted \cup {cur'})
  <1>1. attempts \subseteq attempts'
    BY RowsEffect DEF RowsKept, ESave, EPid
  <1>2. ASSUME NEW t \in Counted'
        PROVE  t \in Counted \/ (EDispatch /\ t = cur')
    <2>1. t \in Tasks /\ st'[t] \in {"Running", "Verifying"}
      BY <1>2 DEF Counted
    <2>2. \A r \in RowsOf(t) : r.harness \notin Paned
      BY <1>1, <1>2 DEF Counted, RowsOf
    <2>3. CASE st'[t] = st[t]
      BY <2>1, <2>2, <2>3 DEF Counted
    <2>4. CASE st'[t] # st[t]
      <3>1. Reason(t)
        BY <2>1, <2>4, LogEffect, Reasons
      <3>. QED
        BY <2>1, <2>2, <3>1 DEF Reason, Justified, Counted
    <2>. QED BY <2>3, <2>4
  <1>. QED BY <1>2

LEMMA SlotsKept ==
  ASSUME IInv, Knowledge, Effect
  PROVE  Slots' /\ SlotBound'
  <1>1. IsFiniteSet(Counted) /\ IsFiniteSet(In({"Running", "Verifying"}))
    BY TasksAssumption, FS_Subset DEF Counted, In
  <1>2. Cardinality(Counted) <= MaxWorkers /\ Cardinality(Counted) \in Nat
    BY <1>1, FS_CardinalityType DEF Knowledge, SlotBound, Counted
  <1>3. CASE Counted' \subseteq Counted
    <2>1. Cardinality(Counted') <= Cardinality(Counted) /\ Cardinality(Counted') \in Nat
      BY <1>1, <1>3, FS_Subset, FS_CardinalityType
    <2>2. SlotBound'
      BY <1>2, <2>1, LimitsAssumption DEF SlotBound, Counted
    <2>3. Slots'
      <3>1. CASE ERead
        BY <1>3, <3>1 DEF Slots, ERead, In, Counted
      <3>2. CASE OthersStep
        BY <1>3, <3>2 DEF OthersStep, Knowledge, Slots, In
      <3>. QED
        BY <3>1, <3>2 DEF Slots, Effect, EStop, ERecover, EDispatch, EWorktree, ESave, EInvoke,
           EPid, EFall, ECheck, EOrphan, EResult, EMerge, Dispatching
    <2>. QED BY <2>2, <2>3
  <1>4. CASE EDispatch /\ Counted' \subseteq Counted \cup {cur'}
    <2>1. /\ Counted \subseteq In({"Running", "Verifying"})
          /\ Cardinality(In({"Running", "Verifying"})) < MaxWorkers
      BY <1>4 DEF EDispatch, Knowledge, Slots, FreeSlot
    <2>2. /\ Cardinality(Counted) <= Cardinality(In({"Running", "Verifying"}))
          /\ Cardinality(In({"Running", "Verifying"})) \in Nat
      BY <1>1, <2>1, FS_Subset, FS_CardinalityType
    <2>3. /\ IsFiniteSet(Counted \cup {cur'})
          /\ Cardinality(Counted \cup {cur'}) \in {Cardinality(Counted), Cardinality(Counted) + 1}
      BY <1>1, FS_AddElement
    <2>4. /\ Cardinality(Counted') <= Cardinality(Counted \cup {cur'})
          /\ Cardinality(Counted') \in Nat
      BY <1>4, <2>3, FS_Subset, FS_CardinalityType
    <2>5. Cardinality(Counted') <= MaxWorkers
      BY <1>2, <2>1, <2>2, <2>3, <2>4, LimitsAssumption
    <2>6. SlotBound'
      BY <2>5 DEF SlotBound, Counted
    <2>7. Slots'
      BY <1>4 DEF EDispatch, Slots
    <2>. QED BY <2>6, <2>7
  <1>. QED BY <1>3, <1>4, CountedKept

-----------------------------------------------------------------------------
(* The theorems of the second argument. *)

LEMMA InitKnowledge ==
  ASSUME Init
  PROVE  Knowledge
  <1>1. /\ \A t : RowsOf(t) = {}
        /\ IsFiniteSet({}) /\ Cardinality({}) = 0
    BY FS_EmptySet DEF Init, RowsOf
  <1>2. Exact
    BY DEF Init, Exact, Dispatching, Checking
  <1>3. RowIds /\ Dispatched
    BY <1>1 DEF Init, RowIds, Dispatched, Dispatching
  <1>4. Budget /\ RetryBudget
    BY <1>1, LimitsAssumption DEF Init, Budget, RetriesLeft, RetryBudget
  <1>5. Verdicts /\ BranchMatchesLog
    BY DEF Init, Verdicts, Checking, BranchMatchesLog, OnlyAcceptedMerges, IntegratedIsMerged
  <1>6. Workers
    BY <1>1 DEF Init, Workers, Quiet
  <1>7. Slots /\ SlotBound
    <2>1. Counted = {}
      BY DEF Init, Counted
    <2>. QED
      BY <1>1, <2>1, LimitsAssumption DEF Init, Slots, SlotBound, Counted
  <1>. QED BY <1>2, <1>3, <1>4, <1>5, <1>6, <1>7 DEF Knowledge

LEMMA StepKnowledge ==
  ASSUME IInv, Knowledge, [Next]_vars
  PROVE  Knowledge'
  <1>1. CASE Next
    BY <1>1, NextEffect, ExactKept, RowIdsKept, DispatchedKept, BudgetKept, VerdictsKept,
       BranchKept, WorkersKept, SlotsKept DEF Knowledge
  <1>2. CASE UNCHANGED vars
    <2>1. Effect
      BY <1>2, CalmEnds DEF Effect, OthersStep, OpKept, LogKept, vars, log, tables, git, locals,
         operator, bounds
    <2>. QED
      BY <2>1, ExactKept, RowIdsKept, DispatchedKept, BudgetKept, VerdictsKept, BranchKept,
         WorkersKept, SlotsKept DEF Knowledge
  <1>. QED BY <1>1, <1>2

\* What the driver relies on between two effects holds in every reachable state.
THEOREM KnowledgeHolds == Spec => []Knowledge
  BY InitKnowledge, StepKnowledge, InductiveInvariant, PTL DEF Spec

\* The driver alone, through any crashes, resumes and late panes, never writes a
\* log that replay_tasks refuses: what it holds in memory is what the log says.
THEOREM LogLegal == Spec => []DriverAloneKeepsLogLegal
  <1>1. Knowledge => DriverAloneKeepsLogLegal
    BY DEF Knowledge, Exact, DriverAloneKeepsLogLegal
  <1>. QED BY <1>1, KnowledgeHolds, PTL

\* Only attempts that passed and were accepted are merged, and what the log
\* calls Integrated is in the branch, whatever cancel and accept do meanwhile.
THEOREM BranchTheorem == Spec => []BranchMatchesLog
  <1>1. Knowledge => BranchMatchesLog
    BY DEF Knowledge
  <1>. QED BY <1>1, KnowledgeHolds, PTL

\* Fallback and resume --retry together stay within max_retries attempts of a task,
\* for every max_retries and any number of resumes.
THEOREM RetryTheorem == Spec => []RetryBudget
  <1>1. Knowledge => RetryBudget
    BY DEF Knowledge
  <1>. QED BY <1>1, KnowledgeHolds, PTL

\* Running and Verifying tasks without a pane never outnumber the slots, although
\* the slots are counted on a fold that may be stale.
THEOREM SlotTheorem == Spec => []SlotBound
  <1>1. Knowledge => SlotBound
    BY DEF Knowledge
  <1>. QED BY <1>1, KnowledgeHolds, PTL

\* A task never has two recorded live CLI workers, whoever started them.
THEOREM WorkerTheorem == Spec => []OneWorkerPerTask
  <1>1. ASSUME IInv, Knowledge
        PROVE  OneWorkerPerTask
    <2>1. ASSUME NEW t \in Tasks
          PROVE  Cardinality({r \in RowsOf(t) : /\ r.harness \notin Paned
                                                /\ worker[r.id] = "live"
                                                /\ r.id \in pidSaved}) <= 1
      <3>. DEFINE W == {r \in RowsOf(t) : /\ r.harness \notin Paned
                                          /\ worker[r.id] = "live" /\ r.id \in pidSaved}
      <3>1. ASSUME NEW r \in W, NEW q \in W
            PROVE  r = q
        <4>1. r \in attempts /\ q \in attempts /\ r.task = t /\ q.task = t
          BY DEF RowsOf
        <4>2. IsLatest(r, t) /\ IsLatest(q, t)
          BY <1>1, <4>1 DEF Knowledge, Workers
        <4>3. r.id = q.id
          BY <1>1, <4>1, <4>2 DEF IsLatest, RowsOf, IInv, TypeOK, Row, Ids
        <4>. QED
          BY <1>1, <4>1, <4>3 DEF Knowledge, RowIds
      <3>. HIDE DEF W
      <3>2. CASE W = {}
        <4>1. Cardinality(W) = 0
          BY <3>2, FS_EmptySet
        <4>. QED
          BY <4>1 DEF W
      <3>3. CASE W # {}
        <4>1. PICK x : x \in W
          BY <3>3
        <4>2. W = {x}
          BY <3>1, <4>1
        <4>3. Cardinality(W) = 1
          BY <4>2, FS_Singleton
        <4>. QED
          BY <4>3 DEF W
      <3>. QED BY <3>2, <3>3
    <2>. QED BY <2>1 DEF OneWorkerPerTask
  <1>. QED BY <1>1, InductiveInvariant, KnowledgeHolds, PTL

\* The fold of a tick keeps the order of the dependencies: it was the log once.
FoldOrder ==
  pc = "tick" =>
    \A t \in Tasks : snap[t] \in Begun => \A d \in Deps[t] : snap[d] = "Integrated"

LEMMA FoldOrderStep ==
  ASSUME IInv, Knowledge, DependenciesFirst, FoldOrder, [Next]_vars
  PROVE  FoldOrder'
  <1>1. CASE UNCHANGED vars
    BY <1>1 DEF vars, locals, FoldOrder
  <1>2. CASE Next
    <2>1. Effect
      BY <1>2, NextEffect
    <2>2. CASE ERead
      BY <2>2 DEF ERead, FoldOrder, DependenciesFirst
    <2>3. CASE OthersStep
      BY <2>3 DEF OthersStep, FoldOrder
    <2>. QED
      BY <2>1, <2>2, <2>3 DEF FoldOrder, Effect, EStop, ERecover, EDispatch, EWorktree, ESave,
         EInvoke, EPid, EFall, ECheck, EOrphan, EResult, EMerge, Dispatching
  <1>. QED BY <1>1, <1>2

\* When the loop gives up, a task of its fold really failed and no work is left.
LEMMA FailedIsHonest ==
  ASSUME IInv, FoldOrder, IdleFailed
  PROVE  /\ In({"Failed", "Cancelled", "Blocked"}) # {}
         /\ In({"Ready", "Running", "Verifying", "AwaitingReview", "Accepted"}) = {}
  <1>1. /\ pc = "tick" /\ ReadyNow = {} /\ In({"Running"}) = {} /\ In({"Verifying"}) = {}
        /\ In({"Accepted"}) = {} /\ Promotable = {} /\ ~MustWaitForHuman
        /\ In({"Integrated"}) # Tasks
    BY DEF IdleFailed, PastVerify, PastMerge, PastAwaiting, PastGate, PastPromote, PastClear,
       PastHarvest, PastReattach
  <1>2. In({"Ready"}) = {}
    BY <1>1 DEF ReadyNow, In, DepsIntegrated, FoldOrder, Begun
  <1>3. In({"AwaitingReview"}) = {}
    BY <1>1, <1>2 DEF MustWaitForHuman, In
  <1>4. snap \in [Tasks -> TaskStates]
    BY DEF IInv, TypeOK
  <1>5. ASSUME In({"Failed", "Cancelled", "Blocked"}) = {}
        PROVE  FALSE
    <2>1. \A t \in Tasks : snap[t] \in {"Pending", "Integrated"}
      BY <1>1, <1>2, <1>3, <1>4, <1>5 DEF In, TaskStates
    <2>2. In({"Pending"}) # {} /\ In({"Pending"}) \in SUBSET Tasks
      BY <1>1, <2>1 DEF In
    <2>3. PICK t \in In({"Pending"}) : Deps[t] \cap In({"Pending"}) = {}
      BY <2>2, AcyclicAssumption
    <2>4. t \in Tasks /\ Deps[t] \subseteq Tasks
      BY <2>3, DepsAssumption DEF In
    <2>5. DepsIntegrated(t)
      BY <2>1, <2>3, <2>4 DEF DepsIntegrated, In
    <2>. QED
      BY <1>1, <2>3, <2>5 DEF Promotable
  <1>. QED
    BY <1>1, <1>2, <1>3, <1>5 DEF In

\* The reasons the driver stops with are true of the fold, and GraphComplete of the
\* log itself, for every acyclic graph.
THEOREM IdleTheorem == Spec => HonestIdle
  <1>1. Init => FoldOrder
    BY DEF Init, FoldOrder
  <1>2. ASSUME IInv, Knowledge, FoldOrder, [Next]_vars
        PROVE  [/\ (idle' = "FailedTerminal" /\ idle # idle') =>
                     /\ In({"Failed", "Cancelled", "Blocked"}) # {}
                     /\ In({"Ready", "Running", "Verifying", "AwaitingReview", "Accepted"}) = {}
                /\ (idle' = "GraphComplete" /\ idle # idle') =>
                     \A t \in Tasks : st[t] = "Integrated"]_vars
    <2>1. \/ idle' = idle \/ idle' = "none"
          \/ IdleAwaiting \/ IdleNoCandidate \/ IdleComplete \/ IdleFailed
      <3>1. CASE Next
        <4>1. CASE Start \/ Crash \/ World
          BY <4>1 DEF Start, Run, Resume, Crash, World, WorkerSettles, PaneCloses
        <4>2. CASE Operate
          BY <4>2 DEF Operate, CancelRead, CancelKill, CancelTask, AcceptRead, AcceptAppend
        <4>3. CASE Recover
          BY <4>3 DEF Recover, CrashFail, CrashFailDone, RetryFailed, RetryFailedDone
        <4>4. CASE Tick
          BY <4>4 DEF Tick, TickRead, TickCorrupt, Reattach, Harvest, ClearBlocked,
             PromotePending, ResumeOrphanedVerifyGate, MergeAccepted, DispatchStart,
             VerifyDeferred, RecordMerge, AddWorktree, SaveAttempt, Invoke, SavePid, Collect,
             MaybeFallback, ChecksDone, OrphanFail, AppendResult, AppendVerifyGate,
             WaitOnLiveWorker
        <4>. QED BY <3>1, <4>1, <4>2, <4>3, <4>4 DEF Next, Driver
      <3>2. CASE UNCHANGED vars
        BY <3>2 DEF vars
      <3>. QED BY <1>2, <3>1, <3>2
    <2>2. CASE IdleAwaiting \/ IdleNoCandidate
      BY <2>2 DEF IdleAwaiting, IdleNoCandidate, GoIdle
    <2>3. CASE IdleFailed
      BY <1>2, <2>3, FailedIsHonest DEF IdleFailed, GoIdle
    <2>4. CASE IdleComplete
      <3>1. idle' = "GraphComplete" /\ In({"Integrated"}) = Tasks
        BY <2>4 DEF IdleComplete, GoIdle
      <3>2. \A t \in Tasks : st[t] = "Integrated"
        BY <1>2, <3>1 DEF In, IInv, Fresh
      <3>. QED BY <3>1, <3>2
    <2>. QED BY <2>1, <2>2, <2>3, <2>4
  <1>. QED
    BY <1>1, <1>2, FoldOrderStep, InductiveInvariant, KnowledgeHolds, DependencyOrder, PTL
       DEF Spec, HonestIdle

=============================================================================
