----------------------------- MODULE DriverWatch -----------------------------
(***************************************************************************)
(* Detached drivers and those who look at them: `meshloop resume' started   *)
(* by `run --detach', with its row in run_driver_liveness, `meshloop watch'  *)
(* and `meshloop status'.  All of them first open the state file, which      *)
(* `meshloop plan' migrates and which the others only accept at version 7    *)
(* or later.                                                                 *)
(*                                                                           *)
(* The run is seen as its readers see it: the task states of the folded log, *)
(* which move along TaskState's transitions.  A tick does one thing; the     *)
(* races inside a tick are the subject of RunLoop.                           *)
(***************************************************************************)
EXTENDS StoreSchema, TaskState

CONSTANTS
  Tasks, Deps,
  Gated,        \* tasks accepted by the verify gate; the others by a human
  Planners,     \* meshloop plan
  Drivers,      \* meshloop resume, detached
  Watchers,     \* meshloop watch
  Timed,        \* those with --timeout
  Viewers,      \* meshloop status
  Pids,
  Casts,        \* bound: which processes run beside each other, whether the file is
                \* current, and the plan states and task states the run is found in
  MaxRetries,   \* limits.max_retries
  MaxDeaths,    \* bound: processes that die
  MaxOps,       \* bound: accepts, cancels and plan decisions
  NoTask, NoPid

PlanStates == {"AwaitingPlanReview", "PlanAccepted"}

ASSUME WatchAssumption ==
  /\ Deps \in [Tasks -> SUBSET Tasks] /\ Gated \subseteq Tasks
  /\ NoTask \notin Tasks \cup Drivers
  /\ Processes = Planners \cup Drivers \cup Watchers \cup Viewers
  /\ Planners \cap (Drivers \cup Watchers \cup Viewers) = {}
  /\ Drivers \cap (Watchers \cup Viewers) = {} /\ Watchers \cap Viewers = {}
  /\ Casts \subseteq [who : SUBSET Processes, current : BOOLEAN,
                     plans : SUBSET PlanStates, found : [Tasks -> {"Pending", "Integrated"}]]
  /\ Timed \subseteq Watchers /\ NoPid \notin Pids
  /\ MaxRetries \in Nat \ {0} /\ MaxDeaths \in Nat /\ MaxOps \in Nat

\* The plan was validated: a set of tasks has one that waits for none of it.
ASSUME AcyclicAssumption ==
  \A S \in SUBSET Tasks : S # {} => \E t \in S : Deps[t] \cap S = {}

VARIABLES
  plan,       \* plan_state
  st,         \* task states of the folded log
  attempts,   \* attempt rows per task
  row,        \* run_driver_liveness: pid, exit code, and a recent heartbeat
  newest,     \* the driver that registered last
  pid,        \* of each driver
  again,      \* the task a driver has failed and will fall back on
  reason,     \* why a driver's loop ended
  frame,      \* the task states a viewer has read and not yet shown
  deaths, ops

graphRun == <<plan, st, attempts>>
liveness == <<row, newest, pid>>
driving == <<again, reason>>
bounds == <<deaths, ops>>
vars == <<database, pc, saw, graphRun, liveness, driving, frame, bounds>>

NoFrame == [t \in Tasks |-> "Pending"]
NoRow == [pid |-> NoPid, exit |-> "none", fresh |-> FALSE]
Alive(d) == pc[d] \notin {"off", "refused", "over", "dead"}

-----------------------------------------------------------------------------
(* The tick, as the log shows it. *)

In(s) == {t \in Tasks : st[t] \in s}
Unsat(t) == \E d \in Deps[t] : st[d] \in {"Failed", "Cancelled", "Blocked"}
Integrated(t) == \A d \in Deps[t] : st[d] = "Integrated"

\* What clear_blocked and promote_pending would append.
Housekeeping(t) ==
  IF st[t] = "Blocked" /\ ~Unsat(t) THEN {"DependencyCleared"}
  ELSE IF st[t] = "Pending" /\ Unsat(t) THEN {"DependencyFailedOrScopeRevoked"}
  ELSE IF st[t] = "Pending" /\ Integrated(t) THEN {"DependencySatisfied"}
  ELSE IF st[t] = "AwaitingReview" /\ t \in Gated THEN {"VerifyGatePassed"} ELSE {}

Tidy == \A t \in Tasks : Housekeeping(t) = {}

\* The rest of the tick: merge, dispatch, collect and verify.
Progress(t) ==
  IF st[t] = "Accepted" THEN {"IntegrationOwnerMerge", "StaleBaseDetected"}
  ELSE IF st[t] = "Ready" THEN {"AttemptStarted"}
  ELSE IF st[t] = "Running" THEN {"HarnessExited", "HarnessCrashedOrTimeout"}
  ELSE IF st[t] = "Verifying" THEN {"DeterministicChecksPassed", "DeterministicChecksFailed"}
  ELSE {}

\* Mutant: one attempt too many.
RetryLeft_plus(t) == attempts[t] <= MaxRetries

\* limits.max_retries counts attempt rows.
RetryLeft(t) == attempts[t] < MaxRetries

\* The idle reasons of the tick (WaitingOnLiveWorker goes on looping).
AwaitingHuman ==
  /\ In({"AwaitingReview"}) # {}
  /\ In({"Ready", "Accepted", "Running", "Verifying"}) = {}
Complete == In({"Integrated"}) = Tasks
FailedTerminal ==
  /\ ~Complete /\ ~AwaitingHuman
  /\ In({"Ready", "Accepted", "Running", "Verifying"}) = {}

IdleReason ==
  IF AwaitingHuman THEN "awaiting" ELSE IF Complete THEN "complete"
  ELSE IF FailedTerminal THEN "failed" ELSE "none"

idle_exit_code(r) ==
  IF r = "complete" \/ (r = "awaiting" /\ In({"Failed", "Blocked"}) = {}) THEN 0 ELSE 1

-----------------------------------------------------------------------------
(* What status and watch make of a frame. *)

AtRest == plan = "PlanAccepted" /\ Tidy /\ IdleReason # "none"

\* Mutant: a dependency that waits for a human counts as met.
Unmet_lenient(s, t) ==
  {d \in Deps[t] : s[d] \notin {"AwaitingReview", "Accepted", "Integrated"}}

\* status_snapshot: blocked_by.
Unmet(s, t) == {d \in Deps[t] : s[d] \notin {"Accepted", "Integrated"}}

\* status_snapshot: waiting_for; a frame of a bound run reports by the same rule.
waiting_for(s, t) ==
  IF plan = "AwaitingPlanReview" /\ s[t] \notin {"Accepted", "Integrated", "Cancelled"}
    THEN "PlanAcceptance"
  ELSE IF s[t] = "AwaitingReview" THEN "Acceptance"
  ELSE IF s[t] \in {"Pending", "Ready", "Blocked"} /\ Unmet(s, t) # {} THEN "Dependency"
  ELSE IF s[t] = "Failed" /\ attempts[t] >= MaxRetries THEN "RetryBudgetExhausted"
  ELSE "none"

needs_driver(s) ==
  \E t \in Tasks : s[t] \notin {"Integrated", "Failed", "Cancelled", "Blocked"}

\* Mutant: a review stop outranks a failure.
watch_exit_review_first ==
  IF In({"AwaitingReview"}) # {} THEN "awaiting_review"
  ELSE IF In({"Failed"}) # {} THEN "failed"
  ELSE IF In({"Cancelled"}) # {} THEN "cancelled"
  ELSE IF plan = "AwaitingPlanReview" THEN "awaiting_plan_acceptance"
  ELSE IF Complete THEN "completed" ELSE "none"

\* Mutant: a cancelled node is no reason to stop.
watch_exit_uncancelled ==
  IF In({"Failed"}) # {} THEN "failed"
  ELSE IF In({"AwaitingReview"}) # {} THEN "awaiting_review"
  ELSE IF plan = "AwaitingPlanReview" THEN "awaiting_plan_acceptance"
  ELSE IF Complete THEN "completed" ELSE "none"

watch_exit ==
  IF In({"Failed"}) # {} THEN "failed"
  ELSE IF In({"Cancelled"}) # {} THEN "cancelled"
  ELSE IF In({"AwaitingReview"}) # {} THEN "awaiting_review"
  ELSE IF plan = "AwaitingPlanReview" THEN "awaiting_plan_acceptance"
  ELSE IF Complete THEN "completed"
  ELSE IF In({"Blocked"}) # {} /\ In({"Integrated", "Blocked"}) = Tasks THEN "blocked"
  ELSE "none"

watch_status_code(r) == IF r \in {"failed", "cancelled", "blocked"} THEN 1 ELSE 0

\* is_live: the look-up may fail; of a pid that is free again some program may
\* have got hold, and ps does not look at the image.
IsLive(n) ==
  {"Live", "Ambiguous"} \cup
  IF \E d \in Drivers : Alive(d) /\ pid[d] = n THEN {} ELSE {"Dead"}

driver_label(live) ==
  IF row.exit # "none" THEN "exited"
  ELSE IF live = "Live" \/ (live = "Ambiguous" /\ row.fresh) THEN "alive" ELSE "lost"

-----------------------------------------------------------------------------
(* meshloop plan *)

PlanOpens(p) ==
  /\ p \in Planners /\ pc[p] = "off" /\ Go(p, "opening")
  /\ UNCHANGED <<database, saw, graphRun, liveness, driving, frame, bounds>>

PlanDone(p) ==
  /\ p \in Planners /\ pc[p] = "open" /\ Go(p, "over")
  /\ UNCHANGED <<database, saw, graphRun, liveness, driving, frame, bounds>>

-----------------------------------------------------------------------------
(* meshloop resume, with MESHLOOP_DRIVER_LOG set *)

\* spawn_detached; the system gives it a free pid.
Spawn(d) ==
  /\ d \in Drivers /\ pc[d] = "off" /\ Go(d, "start")
  /\ \E n \in Pids \ {pid[e] : e \in {e \in Drivers : Alive(e)}} :
       pid' = [pid EXCEPT ![d] = n]
  /\ UNCHANGED <<database, saw, graphRun, row, newest, driving, frame, bounds>>

Preflight(d) ==
  /\ d \in Drivers /\ SeeReadOnly(d, "start", "opening")
  /\ UNCHANGED <<graphRun, liveness, driving, frame, bounds>>

\* legacy_mutation_preflight: the read-only view, and the mark of the run.
PreflightDone(d) ==
  /\ d \in Drivers /\ pc[d] = "peek"
  /\ Go(d, IF ReadOnlyOpens(d) /\ ~marked THEN "opening" ELSE "refused")
  /\ UNCHANGED <<database, saw, graphRun, liveness, driving, frame, bounds>>

\* resolve_graph_id and legacy_mutation_admission.
Admitted == run # "none" /\ ~marked

\* Mutant: the exit code of the last driver is kept.
Registered_keeping(d) == [pid |-> pid[d], exit |-> row.exit, fresh |-> TRUE]

\* upsert_driver replaces the row.
Registered(d) == [pid |-> pid[d], exit |-> "none", fresh |-> TRUE]

Register(d) ==
  /\ d \in Drivers /\ pc[d] = "open"
  /\ IF Admitted
     THEN row' = Registered(d) /\ newest' = d /\ Go(d, "recover")
     ELSE Go(d, "over") /\ UNCHANGED <<row, newest>>
  /\ UNCHANGED <<database, saw, graphRun, pid, driving, frame, bounds>>

Append(t, event) ==
  /\ transition(st[t], event) # Illegal
  /\ st' = [st EXCEPT ![t] = transition(st[t], event)]

\* crash_fail on the tasks whose worker is gone; with --retry, retry_failed.
Recover(d) ==
  /\ d \in Drivers /\ pc[d] = "recover"
  /\ \/ \E t \in In({"Running"}) : Append(t, "HarnessCrashedOrTimeout") /\ UNCHANGED pc
     \/ \E t \in In({"Failed"}) :
          RetryLeft(t) /\ Append(t, "RetryAuthorized") /\ UNCHANGED pc
     \/ Go(d, "loop") /\ UNCHANGED st
  /\ UNCHANGED <<database, saw, plan, attempts, liveness, driving, frame, bounds>>

\* record_driver_heartbeat, between two ticks.
Beat(d) ==
  /\ d \in Drivers /\ pc[d] = "loop" /\ again[d] = NoTask
  /\ row.pid = pid[d] /\ row.exit = "none" /\ ~row.fresh
  /\ row' = [row EXCEPT !.fresh = TRUE]
  /\ UNCHANGED <<database, pc, saw, graphRun, newest, pid, driving, frame, bounds>>

\* A tick that appends.  After a worker's failure the driver may fall back: then
\* RetryAuthorized is its next record.
Tick(d) ==
  /\ d \in Drivers /\ pc[d] = "loop" /\ again[d] = NoTask /\ plan = "PlanAccepted"
  /\ \E t \in Tasks, event \in Events :
       /\ event \in Housekeeping(t) \cup (IF Tidy THEN Progress(t) ELSE {})
       /\ Append(t, event)
       /\ attempts' = IF event = "AttemptStarted" THEN [attempts EXCEPT ![t] = @ + 1]
                      ELSE attempts
       /\ again' = [again EXCEPT ![d] = IF event = "HarnessCrashedOrTimeout" THEN t ELSE NoTask]
  /\ UNCHANGED <<database, pc, saw, plan, liveness, reason, frame, bounds>>

\* maybe_fallback: the second record of a failed attempt, if another harness is
\* left (which Routing decides).
FallBack(d) ==
  /\ d \in Drivers /\ pc[d] = "loop" /\ again[d] # NoTask
  /\ again' = [again EXCEPT ![d] = NoTask]
  /\ \/ UNCHANGED st
     \/ st[again[d]] = "Failed" /\ RetryLeft(again[d]) /\ Append(again[d], "RetryAuthorized")
  /\ UNCHANGED <<database, pc, saw, plan, attempts, liveness, reason, frame, bounds>>

\* The loop ends: idle, no candidate for a ready node, or a refused tick.
LoopEnds(d) ==
  /\ d \in Drivers /\ pc[d] = "loop" /\ again[d] = NoTask
  /\ \/ plan # "PlanAccepted" /\ reason' = [reason EXCEPT ![d] = "error"]
     \/ /\ plan = "PlanAccepted" /\ Tidy
        /\ \/ IdleReason # "none" /\ reason' = [reason EXCEPT ![d] = IdleReason]
           \/ In({"Ready"}) # {} /\ reason' = [reason EXCEPT ![d] = "nocandidate"]
  /\ Go(d, "finish")
  /\ UNCHANGED <<database, saw, graphRun, liveness, again, frame, bounds>>

\* Mutant: the update does not look at the pid.
RecordsExit_any(d) == row # NoRow

\* record_driver_exit: WHERE pid is the driver's own.
RecordsExit(d) == row.pid = pid[d]

\* The exit code comes from a status read after the loop.
FinishDriver(d) ==
  /\ d \in Drivers /\ pc[d] = "finish" /\ Go(d, "over")
  /\ row' = IF RecordsExit(d)
            THEN [row EXCEPT !.exit = IF idle_exit_code(reason[d]) = 0 THEN "0" ELSE "1",
                             !.fresh = TRUE]
            ELSE row
  /\ UNCHANGED <<database, saw, graphRun, newest, pid, driving, frame, bounds>>

-----------------------------------------------------------------------------
(* meshloop watch *)

WatchOpens(w) ==
  /\ w \in Watchers /\ SeeReadOnly(w, "off", "over")
  /\ UNCHANGED <<graphRun, liveness, driving, frame, bounds>>

\* The view is composed and the selection captured.
WatchStarts(w) ==
  /\ w \in Watchers /\ pc[w] = "peek"
  /\ Go(w, IF ~ReadOnlyOpens(w) THEN "refused" ELSE IF run = "none" THEN "over" ELSE "watching")
  /\ UNCHANGED <<database, saw, graphRun, liveness, driving, frame, bounds>>

\* One round: the frame says why to stop.
WatchStops(w) ==
  /\ w \in Watchers /\ pc[w] = "watching" /\ watch_exit # "none" /\ Go(w, "over")
  /\ UNCHANGED <<database, saw, graphRun, liveness, driving, frame, bounds>>

WatchTimesOut(w) ==
  /\ w \in Timed /\ pc[w] = "watching" /\ watch_exit = "none" /\ Go(w, "over")
  /\ UNCHANGED <<database, saw, graphRun, liveness, driving, frame, bounds>>

-----------------------------------------------------------------------------
(* meshloop status *)

StatusOpens(v) ==
  /\ v \in Viewers /\ SeeReadOnly(v, "off", "over")
  /\ UNCHANGED <<graphRun, liveness, driving, frame, bounds>>

\* read_current_frame, in one read transaction.
StatusReads(v) ==
  /\ v \in Viewers /\ pc[v] = "peek"
  /\ Go(v, IF ~ReadOnlyOpens(v) THEN "refused" ELSE IF run = "none" THEN "over" ELSE "framed")
  /\ frame' = st
  /\ UNCHANGED <<database, saw, graphRun, liveness, driving, bounds>>

\* observe: the driver's row and its process, looked up after the frame.
Observe(v, live) ==
  /\ v \in Viewers /\ pc[v] = "framed" /\ live \in IsLive(row.pid)
  /\ Go(v, IF row = NoRow THEN "over"
           ELSE IF driver_label(live) # "alive" /\ needs_driver(frame) THEN "hinted"
           ELSE "over")
  /\ frame' = NoFrame
  /\ UNCHANGED <<database, saw, graphRun, liveness, driving, bounds>>

-----------------------------------------------------------------------------
(* The operator, the system and time. *)

HumanAccepts(t) ==
  /\ ops < MaxOps /\ ops' = ops + 1
  /\ st[t] = "AwaitingReview" /\ Append(t, "HumanAcceptanceRecorded")
  /\ UNCHANGED <<database, pc, saw, plan, attempts, liveness, driving, frame, deaths>>

CancelTask(t) ==
  /\ ops < MaxOps /\ ops' = ops + 1
  /\ run # "none" /\ version >= 7 /\ ~marked /\ Append(t, "Cancel")
  /\ UNCHANGED <<database, pc, saw, plan, attempts, liveness, driving, frame, deaths>>

AcceptPlan ==
  /\ ops < MaxOps /\ ops' = ops + 1
  /\ run # "none" /\ version >= 7 /\ ~marked
  /\ plan = "AwaitingPlanReview" /\ plan' = "PlanAccepted"
  /\ UNCHANGED <<database, pc, saw, st, attempts, liveness, driving, frame, deaths>>

Dies(p) ==
  /\ deaths < MaxDeaths /\ deaths' = deaths + 1
  /\ p \in Planners \cup Drivers /\ Alive(p) /\ Go(p, "dead")
  /\ again' = [d \in Drivers |-> IF d = p THEN NoTask ELSE again[d]]
  /\ UNCHANGED <<database, saw, graphRun, liveness, reason, frame, ops>>

\* DRIVER_HEARTBEAT has passed since the last beat.
BeatAges ==
  /\ row.fresh /\ row' = [row EXCEPT !.fresh = FALSE]
  /\ UNCHANGED <<database, pc, saw, graphRun, newest, pid, driving, frame, bounds>>

-----------------------------------------------------------------------------
Init ==
  /\ SchemaInit
  /\ \E cast \in Casts :
       /\ pc = [p \in Processes |-> IF p \in cast.who THEN "off" ELSE "over"]
       /\ cast.current => version = 8 /\ odd = {} /\ run = "new"
       /\ plan \in cast.plans /\ st = cast.found
  /\ attempts = [t \in Tasks |-> IF st[t] = "Integrated" THEN 1 ELSE 0]
  /\ row = NoRow /\ newest = NoTask
  /\ pid = [d \in Drivers |-> NoPid]
  /\ again = [d \in Drivers |-> NoTask] /\ reason = [d \in Drivers |-> "none"]
  /\ frame = NoFrame
  /\ deaths = 0 /\ ops = 0

Opens(p) == Open(p) /\ UNCHANGED <<graphRun, liveness, driving, frame, bounds>>

Driver(d) ==
  \/ Spawn(d) \/ Preflight(d) \/ PreflightDone(d) \/ Register(d) \/ Recover(d)
  \/ Beat(d) \/ Tick(d) \/ FallBack(d) \/ LoopEnds(d) \/ FinishDriver(d)

Watcher(w) == WatchOpens(w) \/ WatchStarts(w) \/ WatchStops(w) \/ WatchTimesOut(w)

Viewer(v) ==
  \/ StatusOpens(v) \/ StatusReads(v)
  \/ \E live \in {"Live", "Ambiguous", "Dead"} : Observe(v, live)

World ==
  \/ \E t \in Tasks : HumanAccepts(t) \/ CancelTask(t)
  \/ \E p \in Processes : Dies(p)
  \/ AcceptPlan \/ BeatAges

Next ==
  \/ \E p \in Processes : Opens(p) \/ PlanOpens(p) \/ PlanDone(p)
  \/ \E d \in Drivers : Driver(d)
  \/ \E w \in Watchers : Watcher(w)
  \/ \E v \in Viewers : Viewer(v)
  \/ World

Spec == Init /\ [][Next]_vars

\* A watch polls on; nothing is assumed of drivers, operators or the system.
FairSpec == Spec /\ \A w \in Watchers : WF_vars(Watcher(w))

-----------------------------------------------------------------------------
(* Properties *)

TypeOK ==
  /\ SchemaTypeOK
  /\ pc \in [Processes -> {"off", "start", "peek", "opening", "seen", "base", "to7", "to8",
                           "open", "refused", "recover", "loop", "finish", "watching",
                           "framed", "hinted", "over", "dead"}]
  /\ plan \in PlanStates
  /\ st \in [Tasks -> TaskStates] /\ attempts \in [Tasks -> 0..MaxRetries]
  /\ row \in [pid : Pids \cup {NoPid}, exit : {"none", "0", "1"}, fresh : BOOLEAN]
  /\ newest \in Drivers \cup {NoTask} /\ pid \in [Drivers -> Pids \cup {NoPid}]
  /\ again \in [Drivers -> Tasks \cup {NoTask}]
  /\ frame \in [Tasks -> TaskStates] /\ deaths \in 0..MaxDeaths /\ ops \in 0..MaxOps

\* A writer that got the store open works on version 8 in its canonical form,
\* whichever other process migrated it or died half-way.
OpenIsCurrent ==
  \A p \in Planners \cup Drivers :
    pc[p] \in {"open", "recover", "loop", "finish"} => version = 8 /\ validate(8)

\* A run that was in the file before version 5 is never driven: the migration
\* marks it and the admission refuses it, whoever migrates in between.
OldRunNeverDriven ==
  run = "old" => newest = NoTask /\ \E cast \in Casts : st = cast.found

\* The row is that of the driver that registered last, and bears an exit code
\* only once that driver has finished: an older driver that ends later does not
\* write into it.
RowIsNewest ==
  newest # NoTask =>
    /\ row.pid = pid[newest]
    /\ row.exit # "none" => pc[newest] = "over"

\* watch and the driver agree: where the driver's loop would end for a reason
\* of the run itself, watch ends too, and with 0 only if the driver does.
WatchAgrees ==
  AtRest =>
    /\ watch_exit # "none"
    /\ watch_status_code(watch_exit) = 0 => idle_exit_code(IdleReason) = 0

\* Where the driver's loop would end, status says of every node that is neither
\* done nor failed what it waits for.
StuckIsExplained ==
  AtRest =>
    \A t \in Tasks :
      st[t] \notin {"Integrated", "Cancelled", "Failed"} => waiting_for(st, t) # "none"

\* status hints at `resume' while the driver of the row is at work only if the
\* host could not tell and the driver has missed its heartbeat.
HintIsSafe ==
  [][\A v \in Viewers : pc[v] = "framed" /\ pc'[v] = "hinted" =>
       \/ ~row.fresh
       \/ newest = NoTask \/ pc[newest] \in {"over", "dead"}]_vars

\* A watch ends: by its timeout, or because the run has come to rest.  One without a
\* timeout goes on for as long as the run is not at rest.
WatchEnds ==
  \A w \in Watchers :
    pc[w] = "watching" ~> \/ pc[w] = "over"
                          \/ w \notin Timed /\ ~AtRest

\* However many processes open, migrate or die on an old file, what opens is
\* current and complete, and an old run in it is left alone.
MigrationIsSafe == TypeOK /\ SchemaMatchesVersion /\ OpenIsCurrent /\ OldRunNeverDriven

\* Those who look at a run are told what is: whose the driver's row is, why the
\* run rests, and by which code watch ends.
ReadersAreTold == RowIsNewest /\ WatchAgrees /\ StuckIsExplained
=============================================================================
