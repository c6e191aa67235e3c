------------------------------- MODULE RunLoop -------------------------------
(***************************************************************************)
(* The orchestrator saga of crates/meshloop-engine/src/run_loop.rs over    *)
(* one accepted task graph: the driver process (run, resume, the tick), the *)
(* harness workers it spawns, and the operator commands (cancel, accept)    *)
(* that other processes run against the same SQLite store while the driver  *)
(* is in the middle of a tick.                                              *)
(*                                                                         *)
(* Durable state is the event log (folded per task), the attempts and       *)
(* evidence tables, and the git worktrees and integrate branch.  A step of  *)
(* the driver is one durable effect, so the process can die between any two *)
(* of them; the fold a tick reads is kept in snap and may be stale when the *)
(* tick appends.  Store.append validates nothing: an event whose recorded   *)
(* target disagrees with the fold makes the whole log unreadable.           *)
(***************************************************************************)
EXTENDS Naturals, FiniteSets, TaskState

CONSTANTS
  Tasks,          \* node positions in graph.nodes (TaskId 0 is reserved)
  Deps,           \* node -> its depends_on
  VerifyGate,     \* nodes for which verify_gate_eligible holds
  Harnesses,      \* configured harness candidates
  Paned,          \* those that run their worker in an external pane
  MaxRetries,     \* RunLimits.max_retries: attempts per task
  MaxWorkers,     \* RunLimits.max_concurrent_workers
  MaxAttemptId,   \* bound: attempt ids explored
  MaxCrashes,     \* bound: deaths of the driver process
  MaxResumes,     \* bound: run and resume commands
  MaxOps          \* bound: operator commands

Ids == 1..MaxAttemptId

ASSUME TasksAssumption == Tasks \subseteq Nat \ {0} /\ IsFiniteSet(Tasks)
ASSUME DepsAssumption == Deps \in [Tasks -> SUBSET Tasks]
\* TaskGraph::validate refuses a cycle: every set of nodes has one that depends on
\* none of the set.
ASSUME AcyclicAssumption ==
  \A S \in SUBSET Tasks : S # {} => \E t \in S : Deps[t] \cap S = {}
ASSUME HarnessAssumption == VerifyGate \subseteq Tasks /\ Paned \subseteq Harnesses
ASSUME LimitsAssumption ==
  /\ MaxRetries \in Nat \ {0} /\ MaxWorkers \in Nat \ {0}
  /\ MaxAttemptId \in Nat /\ MaxCrashes \in Nat
  /\ MaxResumes \in Nat /\ MaxOps \in Nat

NoEvent == "NoEvent"
NoTask == 0
NoId == 0

VARIABLES
  \* the event log, folded by replay_tasks
  st,        \* task -> state of the fold
  last,      \* task -> event of its last record (NoEvent: no record yet)
  corrupt,   \* replay_tasks returns StoreError::Corrupt
  \* the attempts and evidence tables
  attempts,  \* rows [id, task, harness]
  pidSaved,  \* attempt ids whose row has its pid and pane
  passed,    \* attempt ids with passing deterministic evidence
  approved,  \* attempt ids with human acceptance evidence
  \* git
  wt,        \* <<task, id>> whose worktree and branch exist
  merged,    \* <<task, id>> merged into the integrate branch
  \* operating system
  worker,    \* attempt id -> its worker process
  \* the driver process
  pc, snap, scan, cur, att, sel, ok,
  tracked,   \* the harness registry of running children
  pend,      \* pending_outcomes
  idle,      \* the reason loop_until_idle returned last
  \* one operator command process
  op, opSnap, opTodo, opAtt,
  \* bounds
  crashes, resumes, ops

log == <<st, last, corrupt>>
tables == <<attempts, pidSaved, passed, approved>>
git == <<wt, merged>>
locals == <<snap, scan, cur, att, sel, ok>>
memory == <<tracked, pend>>
operator == <<op, opSnap, opTodo, opAtt>>
bounds == <<crashes, resumes, ops>>
vars == <<log, tables, git, worker, pc, locals, memory, idle, operator, bounds>>

Row == [id : Ids, task : Tasks, harness : Harnesses]
WorkerStates == {"none", "live", "settled", "dead"}
Pcs == {"off", "crash_fail", "retry_failed", "top", "tick", "worktree", "save",
        "invoke", "pid", "collect", "fallback", "merged", "stale", "checks",
        "orphan", "result", "gate"}
IdleReasons == {"none", "AwaitingHumanAcceptance", "GraphComplete",
                "FailedTerminal", "NoCapableCandidate"}
Ops == {"none", "cancel_read", "cancel", "accept"}

-----------------------------------------------------------------------------
(* The store. *)

\* attempts_for_task and latest_attempt_for_task.
RowsOf(t) == {r \in attempts : r.task = t}
IsLatest(r, t) == r \in RowsOf(t) /\ \A q \in RowsOf(t) : q.id <= r.id

\* next_attempt_id: one past the largest id in the attempts table.
IsNextId(a) ==
  /\ \A r \in attempts : r.id < a
  /\ a = 1 \/ \E r \in attempts : r.id + 1 = a

\* append_as: the caller's view of the state decides the recorded target; the
\* row is inserted unchecked.  A reader folds it from the state the log really
\* has (from the record's own `from` when the task has no record yet) and
\* refuses the whole log when the targets differ.
Folded(t, from, event) ==
  transition(IF last[t] = NoEvent THEN from ELSE st[t], event)

\* Mutant: the fold keeps whatever transition() answers.
AppendUnchecked(t, from, event) ==
  /\ st' = [st EXCEPT ![t] = Folded(t, from, event)]
  /\ last' = [last EXCEPT ![t] = event]
  /\ UNCHANGED corrupt

Append(t, from, event) ==
  IF corrupt \/ Folded(t, from, event) # transition(from, event)
    THEN corrupt' = TRUE /\ UNCHANGED <<st, last>>
    ELSE /\ st' = [st EXCEPT ![t] = transition(from, event)]
         /\ last' = [last EXCEPT ![t] = event]
         /\ UNCHANGED corrupt

\* Mutant: the budget counts retries after the first attempt.
RetriesLeftPlusOne(t) == Cardinality(RowsOf(t)) <= MaxRetries

\* The retry count is the number of attempt rows of the task.
RetriesLeft(t) == Cardinality(RowsOf(t)) < MaxRetries

\* Mutant: an omitted tier counts as eligible.
AnyTierEligible(t) == TRUE

verify_gate_eligible(t) == t \in VerifyGate

-----------------------------------------------------------------------------
(* Workers.  "settled": the process has exited and try_collect would return  *)
(* its outcome; a settled pane stays on screen and keeps looking live.       *)

\* attempt_live: a CLI harness knows only the children of this process, a
\* pane is visible from every process.
SessionLive(r) ==
  IF r.harness \in Paned THEN worker[r.id] \in {"live", "settled"}
                         ELSE r.id \in tracked

\* Mutant: only the children of this process count as alive.
DeadUnlessTracked(r) == ~SessionLive(r)

\* attempt_driver_dead: no recorded pid, no pane, or no such process.
DriverDead(r) ==
  \/ r.id \notin pidSaved
  \/ r.harness \in Paned    /\ ~SessionLive(r)
  \/ r.harness \notin Paned /\ worker[r.id] # "live"

\* A kill by recorded pid: the process is gone, and a driver that still tracks
\* it will collect the (partial) outcome.
Killed(ids) ==
  [a \in Ids |-> IF a \in ids \cap pidSaved /\ worker[a] = "live"
                   THEN "settled" ELSE worker[a]]

WorkerSettles(a) ==
  /\ worker[a] = "live"
  /\ worker' = [worker EXCEPT ![a] = "settled"]
  /\ UNCHANGED <<log, tables, git, pc, locals, memory, idle, operator, bounds>>

PaneCloses(r) ==
  /\ r.harness \in Paned
  /\ worker[r.id] \in {"live", "settled"}
  /\ worker' = [worker EXCEPT ![r.id] = "dead"]
  /\ UNCHANGED <<log, tables, git, pc, locals, memory, idle, operator, bounds>>

-----------------------------------------------------------------------------
(* The driver process comes and goes. *)

NoLocals ==
  /\ snap' = [t \in Tasks |-> "Pending"]
  /\ scan' = {} /\ cur' = NoTask /\ att' = NoId /\ sel' = {} /\ ok' = FALSE

\* The process ends: its memory is lost.  A CLI worker it spawned dies with it
\* where the job object is closed (Windows) and survives elsewhere.
Exit ==
  /\ pc' = "off"
  /\ NoLocals
  /\ tracked' = {} /\ pend' = {}
  /\ worker' \in {worker, [a \in Ids |-> IF a \in tracked /\ worker[a] = "live"
                                           THEN "dead" ELSE worker[a]]}

\* The driver dies, or any port call returns an error the tick passes on.
Crash ==
  /\ pc # "off" /\ crashes < MaxCrashes
  /\ Exit
  /\ crashes' = crashes + 1
  /\ UNCHANGED <<log, tables, git, idle, operator, resumes, ops>>

\* `run` refuses a graph that already has records (DuplicateGraph).
Run ==
  /\ pc = "off" /\ ~corrupt
  /\ \A t \in Tasks : last[t] = NoEvent
  /\ pc' = "top" /\ resumes < MaxResumes /\ resumes' = resumes + 1
  /\ idle' = "none"
  /\ UNCHANGED <<log, tables, git, worker, locals, memory, operator, crashes, ops>>

\* `resume`: crash_fail over a fresh fold, then --retry, then the loop.
\* ok remembers the --retry flag until retry_failed starts.
Resume(retry) ==
  /\ pc = "off" /\ ~corrupt
  /\ resumes < MaxResumes /\ resumes' = resumes + 1
  /\ pc' = "crash_fail" /\ snap' = st /\ scan' = Tasks /\ ok' = retry
  /\ idle' = "none"
  /\ UNCHANGED <<log, tables, git, worker, cur, att, sel, memory, operator,
                 crashes, ops>>

IsFirst(t, S) == t \in S /\ \A u \in S : t <= u

\* Mutant: a task left in Verifying is failed as if it were Running.
LostRunOrCheck(t) ==
  /\ snap[t] \in {"Running", "Verifying"}
  /\ \A r \in attempts : IsLatest(r, t) => DriverDead(r)

\* Running, with no attempt row or one whose process is confirmed gone.
LostRun(t) ==
  snap[t] = "Running" /\ \A r \in attempts : IsLatest(r, t) => DriverDead(r)

CrashFail(t) ==
  /\ pc = "crash_fail" /\ IsFirst(t, scan)
  /\ scan' = scan \ {t}
  /\ IF LostRun(t)
       THEN Append(t, "Running", "HarnessCrashedOrTimeout")
       ELSE UNCHANGED <<st, last, corrupt>>
  /\ UNCHANGED <<tables, git, worker, pc, snap, cur, att, sel, ok, memory,
                 idle, operator, bounds>>

CrashFailDone ==
  /\ pc = "crash_fail" /\ scan = {}
  /\ IF ok /\ ~corrupt
       THEN /\ pc' = "retry_failed" /\ snap' = st /\ scan' = Tasks /\ ok' = FALSE
            /\ UNCHANGED <<cur, att, sel>>
       ELSE pc' = "top" /\ NoLocals
  /\ UNCHANGED <<log, tables, git, worker, memory, idle, operator, bounds>>

RetryFailed(t) ==
  /\ pc = "retry_failed" /\ IsFirst(t, scan)
  /\ scan' = scan \ {t}
  /\ IF snap[t] = "Failed" /\ RetriesLeft(t)
       THEN Append(t, "Failed", "RetryAuthorized")
       ELSE UNCHANGED <<st, last, corrupt>>
  /\ UNCHANGED <<tables, git, worker, pc, snap, cur, att, sel, ok, memory,
                 idle, operator, bounds>>

RetryFailedDone ==
  /\ pc = "retry_failed" /\ scan = {}
  /\ pc' = "top" /\ NoLocals
  /\ UNCHANGED <<log, tables, git, worker, memory, idle, operator, bounds>>

-----------------------------------------------------------------------------
(* One tick: read the fold, then take the first phase that applies. *)

TickRead ==
  /\ pc = "top" /\ ~corrupt
  /\ pc' = "tick" /\ snap' = st
  /\ UNCHANGED <<log, tables, git, worker, scan, cur, att, sel, ok, memory, idle,
                 operator, bounds>>

\* tasks() fails on an unreadable log: the command ends with an error.
TickCorrupt ==
  /\ pc = "top" /\ corrupt
  /\ Exit
  /\ UNCHANGED <<log, tables, git, idle, operator, bounds>>

EndTick == pc' = "top" /\ NoLocals

In(S) == {t \in Tasks : snap[t] \in S}

\* reattach_running leaves a task alone while its worker is live and has
\* nothing to collect, or while it has no attempt row.
MustReattach(t) ==
  /\ snap[t] = "Running"
  /\ \E r \in attempts : IsLatest(r, t) /\ (~SessionLive(r) \/ worker[r.id] = "settled")

Reattach(t) ==
  /\ pc = "tick" /\ snap[t] = "Running"
  /\ \A u \in Tasks : u < t => ~MustReattach(u)
  /\ \E r \in attempts :
       /\ IsLatest(r, t)
       /\ \/ /\ ~SessionLive(r)
             /\ worker' = Killed({r.id})
             /\ Append(t, "Running", "HarnessCrashedOrTimeout")
             /\ UNCHANGED memory
          \/ /\ SessionLive(r) /\ worker[r.id] = "settled"
             /\ Append(t, "Running", "HarnessExited")
             /\ pend' = pend \cup {r.id}
             /\ tracked' = tracked \ {r.id}
             /\ worker' = IF r.harness \in Paned THEN worker
                            ELSE [worker EXCEPT ![r.id] = "dead"]
          \/ \* try_collect: timeout, capture fault or exhausted capacity.  The
             \* CLI harness kills the tree and forgets it; a pane that errs
             \* while it is live is left alone.
             /\ r.harness \notin Paned /\ r.id \in tracked
             /\ Append(t, "Running", "HarnessCrashedOrTimeout")
             /\ tracked' = tracked \ {r.id}
             /\ worker' = [worker EXCEPT ![r.id] = "dead"]
             /\ UNCHANGED pend
  /\ EndTick
  /\ UNCHANGED <<tables, git, idle, operator, bounds>>

\* harvest_live_failures: a premature failure whose pane has settled since.
Harvestable(r, t) ==
  /\ snap[t] = "Failed" /\ IsLatest(r, t)
  /\ r.harness \in Paned /\ worker[r.id] = "settled"
  /\ last[t] = "HarnessCrashedOrTimeout"

CanHarvest(t) == \E r \in attempts : Harvestable(r, t)

PastReattach == pc = "tick" /\ \A t \in Tasks : ~MustReattach(t)

Harvest(t) ==
  /\ PastReattach /\ IsFirst(t, {u \in Tasks : CanHarvest(u)})
  /\ \E r \in attempts :
       /\ Harvestable(r, t)
       /\ Append(t, "Failed", "LiveWorkerSettled")
       /\ pc' = "checks" /\ cur' = t /\ att' = r.id
  /\ UNCHANGED <<tables, git, worker, snap, scan, sel, ok, memory, idle,
                 operator, bounds>>

Unsat(t) == \E d \in Deps[t] : snap[d] \in {"Failed", "Cancelled", "Blocked"}

\* Mutant: the state of the dependencies is not looked at again.
AnyBlocked == In({"Blocked"})

Clearable == {t \in In({"Blocked"}) : ~Unsat(t)}

PastHarvest == PastReattach /\ \A t \in Tasks : ~CanHarvest(t)

ClearBlocked(t) ==
  /\ PastHarvest /\ IsFirst(t, Clearable)
  /\ Append(t, "Blocked", "DependencyCleared")
  /\ EndTick
  /\ UNCHANGED <<tables, git, worker, memory, idle, operator, bounds>>

\* Mutant: a dependency that has not failed is good enough.
DepsNotFailed(t) == ~Unsat(t)

DepsIntegrated(t) == \A d \in Deps[t] : snap[d] = "Integrated"

Promotable == {t \in In({"Pending"}) : Unsat(t) \/ DepsIntegrated(t)}

PastClear == PastHarvest /\ Clearable = {}

PromotePending(t) ==
  /\ PastClear /\ IsFirst(t, Promotable)
  /\ IF Unsat(t) THEN Append(t, "Pending", "DependencyFailedOrScopeRevoked")
                 ELSE Append(t, "Pending", "DependencySatisfied")
  /\ EndTick
  /\ UNCHANGED <<tables, git, worker, memory, idle, operator, bounds>>

PastPromote == PastClear /\ Promotable = {}

GateOrphans == {t \in In({"AwaitingReview"}) : verify_gate_eligible(t)}

\* finish_orphaned_verification begins by folding the log again.
FinishOrphaned(t) ==
  \/ /\ corrupt \/ st[t] \in {"Accepted", "Integrated"}
     /\ Exit
     /\ UNCHANGED <<st, last, corrupt>>
  \/ /\ ~corrupt /\ st[t] = "AwaitingReview"
     /\ IF RowsOf(t) # {} /\ verify_gate_eligible(t)
          THEN /\ Append(t, "AwaitingReview", "VerifyGatePassed")
               /\ EndTick
               /\ UNCHANGED <<worker, memory>>
          ELSE Exit /\ UNCHANGED <<st, last, corrupt>>
  \/ /\ ~corrupt /\ st[t] \notin {"Accepted", "Integrated", "AwaitingReview"}
     /\ pc' = "orphan" /\ cur' = t
     /\ \/ RowsOf(t) = {} /\ att' = NoId
        \/ \E r \in attempts : IsLatest(r, t) /\ att' = r.id
     /\ UNCHANGED <<st, last, corrupt, worker, memory, snap, scan, sel, ok>>

ResumeOrphanedVerifyGate(t) ==
  /\ PastPromote /\ IsFirst(t, GateOrphans)
  /\ FinishOrphaned(t)
  /\ UNCHANGED <<tables, git, idle, operator, bounds>>

PastGate == PastPromote /\ GateOrphans = {}

\* Mutant: a node awaiting review never stops the loop by itself.
NeverWaits == FALSE

MustWaitForHuman ==
  In({"AwaitingReview"}) # {} /\ In({"Ready", "Accepted", "Running", "Verifying"}) = {}

GoIdle(reason) ==
  /\ Exit /\ idle' = reason
  /\ UNCHANGED <<log, tables, git, operator, bounds>>

IdleAwaiting == PastGate /\ MustWaitForHuman /\ GoIdle("AwaitingHumanAcceptance")

PastAwaiting == PastGate /\ ~MustWaitForHuman

\* Mutant: the merge is aborted but reported as done.
MergeLost(t, a) == UNCHANGED merged

\* git merge --no-ff in the integrate worktree: needs the branch; merging it
\* again is a no-op.
MergeInWorktree(t, a) == <<t, a>> \in wt /\ merged' = merged \cup {<<t, a>>}

\* merge_accepted, first half: git merge of the latest attempt's branch.  A
\* conflict or a missing branch is aborted and becomes a stale base.
MergeAccepted(t) ==
  /\ PastAwaiting /\ IsFirst(t, In({"Accepted"}))
  /\ \E r \in attempts :
       /\ IsLatest(r, t)
       /\ \/ MergeInWorktree(t, r.id) /\ pc' = "merged"
          \/ pc' = "stale" /\ UNCHANGED merged
  /\ cur' = t
  /\ UNCHANGED <<log, tables, wt, worker, snap, scan, att, sel, ok, memory, idle,
                 operator, bounds>>

\* merge_accepted, second half: the record.
RecordMerge ==
  /\ \/ pc = "merged" /\ Append(cur, "Accepted", "IntegrationOwnerMerge")
     \/ pc = "stale"  /\ Append(cur, "Accepted", "StaleBaseDetected")
  /\ EndTick
  /\ UNCHANGED <<tables, git, worker, memory, idle, operator, bounds>>

PastMerge == PastAwaiting /\ In({"Accepted"}) = {}

-----------------------------------------------------------------------------
(* Dispatch. *)

ReadyNow == {t \in In({"Ready"}) : DepsIntegrated(t)}

\* Mutant: a task under verification holds no slot.
FreeSlotWhileVerifying == Cardinality(In({"Running"})) < MaxWorkers

FreeSlot == Cardinality(In({"Running", "Verifying"})) < MaxWorkers

UsedBy(t) == {r.harness : r \in RowsOf(t)}

\* dispatch_ready up to AttemptStarted.  S is the router's selection (a node
\* with an empty one is skipped); an unused harness is preferred.
DispatchStart(t) ==
  /\ PastMerge /\ t \in ReadyNow /\ FreeSlot
  /\ \E S \in SUBSET Harnesses \ {{}}, a \in Ids :
       /\ IsNextId(a)
       /\ IF <<t, a>> \in wt
            THEN \* leftover worktree or branch: the command ends with an error
                 Exit /\ UNCHANGED log
            ELSE /\ Append(t, "Ready", "AttemptStarted")
                 /\ pc' = "worktree" /\ cur' = t /\ att' = a /\ sel' = S
                 /\ UNCHANGED <<worker, memory, snap, scan, ok>>
  /\ UNCHANGED <<tables, git, idle, operator, bounds>>

\* add_worktree_from the head of the integrate branch.
AddWorktree ==
  /\ pc = "worktree"
  /\ \/ /\ wt' = wt \cup {<<cur, att>>} /\ pc' = "save"
        /\ UNCHANGED <<st, last, corrupt>>
     \/ /\ Append(cur, "Running", "HarnessCrashedOrTimeout")
        /\ pc' = "fallback" /\ UNCHANGED wt
  /\ UNCHANGED <<tables, merged, worker, locals, memory, idle, operator, bounds>>

SaveAttempt ==
  /\ pc = "save"
  /\ \E h \in sel :
       /\ h \notin UsedBy(cur) \/ sel \subseteq UsedBy(cur)
       /\ attempts' = attempts \cup {[id |-> att, task |-> cur, harness |-> h]}
  /\ pc' = "invoke"
  /\ UNCHANGED <<log, pidSaved, passed, approved, git, worker, locals, memory, idle,
                 operator, bounds>>

Invoke ==
  /\ pc = "invoke"
  /\ \/ /\ worker' = [worker EXCEPT ![att] = "live"]
        /\ tracked' = tracked \cup {r.id : r \in {q \in attempts :
                                   q.id = att /\ q.harness \notin Paned}}
        /\ pc' = "pid"
        /\ UNCHANGED <<st, last, corrupt>>
     \/ /\ Append(cur, "Running", "HarnessCrashedOrTimeout")
        /\ pc' = "fallback" /\ UNCHANGED <<worker, tracked>>
  /\ UNCHANGED <<tables, git, locals, pend, idle, operator, bounds>>

SavePid ==
  /\ pc = "pid"
  /\ pidSaved' = pidSaved \cup {att} /\ pc' = "collect"
  /\ UNCHANGED <<log, attempts, passed, approved, git, worker, locals, memory, idle,
                 operator, bounds>>

\* The first try_collect, still inside dispatch_ready.  A pane may err
\* (prompt stalled) while its worker lives on.
Collect ==
  /\ pc = "collect"
  /\ \E r \in attempts :
       /\ r.id = att
       /\ \/ /\ worker[att] = "live"
             /\ EndTick
             /\ UNCHANGED <<st, last, corrupt, worker, memory>>
          \/ /\ worker[att] = "settled"
             /\ Append(cur, "Running", "HarnessExited")
             /\ pend' = pend \cup {att}
             /\ tracked' = tracked \ {att}
             /\ worker' = IF r.harness \in Paned THEN worker
                            ELSE [worker EXCEPT ![att] = "dead"]
             /\ EndTick
          \/ /\ Append(cur, "Running", "HarnessCrashedOrTimeout")
             /\ tracked' = tracked \ {att}
             /\ worker' = IF r.harness \in Paned THEN worker
                            ELSE [worker EXCEPT ![att] = "dead"]
             /\ pc' = "fallback"
             /\ UNCHANGED <<pend, locals>>
  /\ UNCHANGED <<tables, git, idle, operator, bounds>>

\* maybe_fallback: another candidate may take over in the same run, unless a
\* pane of this task is still live or the attempts are used up.
LivePane(t) ==
  \E r \in RowsOf(t) : r.harness \in Paned /\ worker[r.id] \in {"live", "settled"}

MaybeFallback ==
  /\ pc = "fallback"
  /\ IF /\ ~LivePane(cur)
        /\ RetriesLeft(cur)
        /\ ~(sel \subseteq UsedBy(cur))
       THEN Append(cur, "Failed", "RetryAuthorized")
       ELSE UNCHANGED <<st, last, corrupt>>
  /\ EndTick
  /\ UNCHANGED <<tables, git, worker, memory, idle, operator, bounds>>

-----------------------------------------------------------------------------
(* Verification. *)

\* An exit still held in memory.
Deferred(t) == \E r \in attempts : IsLatest(r, t) /\ r.id \in pend
DeferredNow == {t \in In({"Verifying"}) : Deferred(t)}

\* verify_deferred runs when nothing can be dispatched: no ready node, no
\* free slot, or no candidate for any ready node.
VerifyDeferred(t) ==
  /\ PastMerge
  /\ \/ /\ IsFirst(t, DeferredNow)
        /\ \E r \in attempts :
             /\ IsLatest(r, t)
             /\ pend' = pend \ {r.id} /\ pc' = "checks" /\ cur' = t /\ att' = r.id
        /\ UNCHANGED <<st, last, corrupt, worker, tracked, snap, scan, sel, ok>>
     \/ /\ DeferredNow = {} /\ IsFirst(t, In({"Verifying"}))
        /\ FinishOrphaned(t)
  /\ UNCHANGED <<tables, git, idle, operator, bounds>>

\* verify_attempt and the orphan path: the checks (the repair rounds included)
\* end with a verdict, the evidence is recorded, and
\* append_deterministic_result folds the log again before it appends.
ChecksDone ==
  /\ \/ pc = "checks"
     \/ pc = "orphan" /\ att # NoId /\ <<cur, att>> \in wt
  /\ \E p \in BOOLEAN :
       /\ passed' = IF p THEN passed \cup {att} ELSE passed
       /\ \/ /\ \/ corrupt
                \/ st[cur] \in {"Accepted", "Integrated"}
                \/ st[cur] = "AwaitingReview" /\ (~p \/ ~verify_gate_eligible(cur))
             /\ Exit
          \/ /\ ~corrupt /\ st[cur] = "AwaitingReview" /\ p
             /\ verify_gate_eligible(cur)
             /\ pc' = "gate" /\ UNCHANGED <<locals, memory, worker>>
          \/ /\ ~corrupt /\ st[cur] \notin {"Accepted", "Integrated", "AwaitingReview"}
             /\ pc' = "result" /\ ok' = p
             /\ UNCHANGED <<snap, scan, cur, att, sel, memory, worker>>
  /\ UNCHANGED <<log, attempts, pidSaved, approved, git, idle, operator, bounds>>

\* fail_orphaned_verification: no row, no worktree, or checks that cannot run.
OrphanFail ==
  /\ pc = "orphan"
  /\ Append(cur, "Verifying", "DeterministicChecksFailed")
  /\ EndTick
  /\ UNCHANGED <<tables, git, worker, memory, idle, operator, bounds>>

AppendResult ==
  /\ pc = "result"
  /\ Append(cur, "Verifying", IF ok THEN "DeterministicChecksPassed"
                                    ELSE "DeterministicChecksFailed")
  /\ IF ok THEN pc' = "gate" /\ UNCHANGED locals ELSE EndTick
  /\ UNCHANGED <<tables, git, worker, memory, idle, operator, bounds>>

\* append_verify_gate folds the log again; a failed fold ends the command.
AppendVerifyGate ==
  /\ pc = "gate"
  /\ IF corrupt THEN Exit /\ UNCHANGED <<st, last, corrupt>>
     ELSE /\ IF st[cur] = "AwaitingReview" /\ verify_gate_eligible(cur)
               THEN Append(cur, "AwaitingReview", "VerifyGatePassed")
               ELSE UNCHANGED <<st, last, corrupt>>
          /\ EndTick /\ UNCHANGED <<worker, memory>>
  /\ UNCHANGED <<tables, git, idle, operator, bounds>>

-----------------------------------------------------------------------------
(* The end of a tick that found nothing to do. *)

PastVerify == PastMerge /\ In({"Verifying"}) = {}

WaitOnLiveWorker ==
  /\ PastVerify
  /\ \/ ReadyNow = {} /\ In({"Running"}) # {}
     \/ ReadyNow # {} /\ ~FreeSlot
  /\ EndTick
  /\ UNCHANGED <<log, tables, git, worker, memory, idle, operator, bounds>>

IdleNoCandidate ==
  PastVerify /\ ReadyNow # {} /\ FreeSlot /\ GoIdle("NoCapableCandidate")

IdleComplete ==
  /\ PastVerify /\ ReadyNow = {} /\ In({"Integrated"}) = Tasks
  /\ GoIdle("GraphComplete")

IdleFailed ==
  /\ PastVerify /\ ReadyNow = {} /\ In({"Running"}) = {} /\ In({"Integrated"}) # Tasks
  /\ GoIdle("FailedTerminal")

-----------------------------------------------------------------------------
(* Operator commands, each in a process of its own, with no lock against the *)
(* driver.  At most one is in flight.                                        *)

\* cmd_cancel first kills the recorded process of every node's latest attempt,
\* whichever tasks T are to be cancelled.
CancelKill(T) ==
  /\ op = "none" /\ ops < MaxOps /\ ops' = ops + 1
  /\ worker' = Killed({r.id : r \in {q \in attempts : IsLatest(q, q.task)}})
  /\ op' = "cancel_read" /\ opTodo' = T
  /\ UNCHANGED <<log, tables, git, pc, locals, memory, idle, opSnap, opAtt, crashes,
                 resumes>>

OpDone ==
  /\ op' = "none" /\ opTodo' = {} /\ opAtt' = NoId
  /\ opSnap' = [t \in Tasks |-> "Pending"]

CancelRead ==
  /\ op = "cancel_read"
  /\ IF corrupt THEN OpDone
                ELSE op' = "cancel" /\ opSnap' = st /\ UNCHANGED <<opTodo, opAtt>>
  /\ UNCHANGED <<log, tables, git, worker, pc, locals, memory, idle, bounds>>

CancelTask(t) ==
  /\ op = "cancel" /\ IsFirst(t, opTodo)
  /\ IF opSnap[t] \in {"Cancelled", "Integrated"}
       THEN UNCHANGED <<st, last, corrupt, worker>>
       ELSE /\ Append(t, opSnap[t], "Cancel")
            /\ worker' = IF opSnap[t] = "Running"
                           THEN Killed({r.id : r \in {q \in attempts : IsLatest(q, t)}})
                           ELSE worker
  /\ IF opTodo = {t} THEN OpDone
                     ELSE opTodo' = opTodo \ {t} /\ UNCHANGED <<op, opSnap, opAtt>>
  /\ UNCHANGED <<tables, git, pc, locals, memory, idle, bounds>>

\* accept_human: the fold and the latest attempt are read, the acceptance
\* evidence is recorded, then the event is appended.
AcceptRead(t) ==
  /\ op = "none" /\ ops < MaxOps /\ ops' = ops + 1
  /\ ~corrupt /\ st[t] = "AwaitingReview"
  /\ \E r \in attempts :
       IsLatest(r, t) /\ opAtt' = r.id /\ approved' = approved \cup {r.id}
  /\ op' = "accept" /\ opTodo' = {t}
  /\ UNCHANGED <<log, attempts, pidSaved, passed, git, worker, pc, locals, memory,
                 idle, opSnap, crashes, resumes>>

AcceptAppend(t) ==
  /\ op = "accept" /\ opTodo = {t}
  /\ Append(t, "AwaitingReview", "HumanAcceptanceRecorded")
  /\ OpDone
  /\ UNCHANGED <<tables, git, worker, pc, locals, memory, idle, bounds>>

-----------------------------------------------------------------------------

Init ==
  /\ st = [t \in Tasks |-> "Pending"]
  /\ last = [t \in Tasks |-> NoEvent]
  /\ corrupt = FALSE
  /\ attempts = {} /\ pidSaved = {} /\ passed = {} /\ approved = {}
  /\ wt = {} /\ merged = {}
  /\ worker = [a \in Ids |-> "none"]
  /\ pc = "off" /\ snap = [t \in Tasks |-> "Pending"]
  /\ scan = {} /\ cur = NoTask /\ att = NoId /\ sel = {} /\ ok = FALSE
  /\ tracked = {} /\ pend = {} /\ idle = "none"
  /\ op = "none" /\ opSnap = [t \in Tasks |-> "Pending"] /\ opTodo = {} /\ opAtt = NoId
  /\ crashes = 0 /\ resumes = 0 /\ ops = 0

Recover == CrashFailDone \/ RetryFailedDone
           \/ \E t \in Tasks : CrashFail(t) \/ RetryFailed(t)

Tick ==
  \/ TickRead \/ TickCorrupt
  \/ \E t \in Tasks : \/ Reattach(t) \/ Harvest(t) \/ ClearBlocked(t)
                      \/ PromotePending(t) \/ ResumeOrphanedVerifyGate(t)
                      \/ MergeAccepted(t) \/ DispatchStart(t) \/ VerifyDeferred(t)
  \/ RecordMerge \/ AddWorktree \/ SaveAttempt \/ Invoke \/ SavePid \/ Collect
  \/ MaybeFallback \/ ChecksDone \/ OrphanFail \/ AppendResult \/ AppendVerifyGate
  \/ IdleAwaiting \/ WaitOnLiveWorker \/ IdleNoCandidate \/ IdleComplete \/ IdleFailed

Operate ==
  \/ CancelRead
  \/ \E t \in Tasks : \/ CancelKill({t}) \/ CancelTask(t)
                      \/ AcceptRead(t) \/ AcceptAppend(t)
  \/ CancelKill(Tasks)

World ==
  \/ \E a \in Ids : WorkerSettles(a)
  \/ \E r \in attempts : PaneCloses(r)

Driver == Recover \/ Tick

Start == Run \/ \E retry \in BOOLEAN : Resume(retry)

Next == Start \/ Driver \/ Crash \/ Operate \/ World

Spec == Init /\ [][Next]_vars

\* Where the driver is inside a call that another program may keep from returning:
\* `invoke` writes the prompt to a worker that need not read it, and the checks, with
\* the rounds of repair, read their output without a deadline.
Waits == {"invoke", "checks", "orphan"}

\* The driver keeps running while it is scheduled and not in such a call, and a worker it
\* tracks finishes (or its task_timeout makes it collectable).  Nothing is promised about
\* those calls, panes, the operator, crashes or anyone starting the driver again.
FairSpec ==
  /\ Spec
  /\ WF_vars(pc \notin Waits /\ Driver)
  /\ \A a \in Ids : WF_vars(a \in tracked /\ WorkerSettles(a))

-----------------------------------------------------------------------------
(* What the run loop promises. *)

TypeOK ==
  /\ st \in [Tasks -> TaskStates]
  /\ last \in [Tasks -> Events \cup {NoEvent}]
  /\ corrupt \in BOOLEAN
  /\ attempts \subseteq Row
  /\ pidSaved \subseteq Ids /\ passed \subseteq Ids /\ approved \subseteq Ids
  /\ wt \subseteq Tasks \X Ids /\ merged \subseteq Tasks \X Ids
  /\ worker \in [Ids -> WorkerStates]
  /\ pc \in Pcs /\ snap \in [Tasks -> TaskStates]
  /\ scan \subseteq Tasks /\ cur \in Tasks \cup {NoTask}
  /\ att \in Ids \cup {NoId} /\ sel \subseteq Harnesses /\ ok \in BOOLEAN
  /\ tracked \subseteq Ids /\ pend \subseteq Ids /\ idle \in IdleReasons
  /\ op \in Ops /\ opSnap \in [Tasks -> TaskStates]
  /\ opTodo \subseteq Tasks /\ opAtt \in Ids \cup {NoId}
  /\ crashes \in Nat /\ resumes \in Nat /\ ops \in Nat

\* A task that has ever been made ready, and was not cancelled, has every
\* dependency integrated: promote_pending and dispatch_ready decide from a
\* fold read earlier in the tick, while cancel and accept append from other
\* processes.
Begun == {"Ready", "Running", "Verifying", "AwaitingReview", "Accepted",
          "Integrated", "Failed"}
DependenciesFirst ==
  \A t \in Tasks : st[t] \in Begun => \A d \in Deps[t] : st[d] = "Integrated"

\* Nothing reaches the integrate branch unless that very attempt passed its
\* deterministic checks and was accepted, by a human for that attempt or by
\* the verify gate: merge_accepted picks the latest attempt on its own.
OnlyAcceptedMerges ==
  \A p \in merged : p[2] \in passed /\ (p[1] \in VerifyGate \/ p[2] \in approved)

\* A task the log calls Integrated has an attempt in the integrate branch.
IntegratedIsMerged ==
  \A t \in Tasks : st[t] = "Integrated" => \E a \in Ids : <<t, a>> \in merged

\* The integrate branch is what the log says: what is in it was checked and
\* accepted (merge_accepted), and what the log calls Integrated is in it, although
\* the merge and its record are two effects.
BranchMatchesLog == OnlyAcceptedMerges /\ IntegratedIsMerged

\* Running and Verifying tasks never outnumber the slots, although occupancy is
\* counted on a fold that is stale by the time AttemptStarted is appended.  Work
\* harvested from a pane comes back to Verifying without asking for a slot, so
\* a task that has had a pane is not counted.
SlotBound ==
  Cardinality({t \in Tasks : /\ st[t] \in {"Running", "Verifying"}
                             /\ \A r \in RowsOf(t) : r.harness \notin Paned}) <= MaxWorkers

\* The attempts table never holds more than max_retries attempts of a task,
\* whether the retry came from fallback or from resume --retry.
RetryBudget == \A t \in Tasks : Cardinality(RowsOf(t)) <= MaxRetries

\* The driver alone, across any crashes and resumes, never writes a log that
\* replay_tasks refuses.
DriverAloneKeepsLogLegal == ops = 0 => ~corrupt

\* Two live CLI workers of one task only when one of them was spawned just before
\* its pid could be recorded: otherwise an attempt is ended before the next.  A
\* pane is not counted: resume --retry does not look whether one is still live.
OneWorkerPerTask ==
  \A t \in Tasks :
    Cardinality({r \in RowsOf(t) : /\ r.harness \notin Paned
                                   /\ worker[r.id] = "live" /\ r.id \in pidSaved}) <= 1

\* FailedTerminal is reported only when some task of the tick's fold did fail,
\* and none of the work the driver itself could do was left.
HonestIdle ==
  [][/\ (idle' = "FailedTerminal" /\ idle # idle') =>
          /\ In({"Failed", "Cancelled", "Blocked"}) # {}
          /\ In({"Ready", "Running", "Verifying", "AwaitingReview", "Accepted"}) = {}
     /\ (idle' = "GraphComplete" /\ idle # idle') => \A t \in Tasks : st[t] = "Integrated"]_vars

Lifecycle == INSTANCE TaskLifecycle WITH Tasks <- Tasks, Deps <- Deps, st <- st

\* The folded log changes only by the transitions of the lifecycle table,
\* whatever the interleaving of the driver, its crashes and the operator: a
\* record that is out of place makes the log unreadable instead.
ImplementsLifecycle == Lifecycle!Spec

\* A driver that was started eventually stops: it runs out of work, waits for a human, or
\* fails.  It never polls for ever and never trades states with itself, but where it is
\* kept in one call (Waits), or git refuses it a worktree again and again, which leaves
\* no row for the retry budget to count (maybe_fallback).
WorktreeRefused == pc = "worktree" /\ pc' = "fallback"
DriverStops ==
  \/ (pc # "off") ~> (pc = "off" \/ [](pc \in Waits))
  \/ []<><<WorktreeRefused>>_vars
=============================================================================
