------------------------------- MODULE Routing -------------------------------
(***************************************************************************)
(* Quota-aware routing: how the drivers and planners that share one        *)
(* database choose a harness, what they write back, and what a candidate   *)
(* that reported exhaustion is owed.                                       *)
(*                                                                         *)
(* A driver works on one task.  `dispatch_ready` probes the harnesses,     *)
(* loads the quota rows, takes the clock, filters and scores the           *)
(* candidates, starts an attempt on the best one the task has not used and *)
(* invokes it; what the harness answers becomes a quota row, a feedback    *)
(* count, a verdict or nothing, depending on which poll saw it.  A planner *)
(* routes the same way but writes nothing back.  What the store fails to   *)
(* load or to count is passed over.                                        *)
(*                                                                         *)
(* The clock counts half seconds: `save_quota` keeps whole seconds.  A     *)
(* candidate is a selected harness (compose_store builds one each), so a   *)
(* candidate is named by its harness.                                      *)
(***************************************************************************)
EXTENDS Integers, Sequences, FiniteSets, Functions

CONSTANTS
  Harnesses, Drivers, Planners,
  Crews,          \* actors at work at the same time, and what they may load
  Configs,        \* configuration files as read, before `load` checks them
  TierOf,         \* [Drivers -> Tiers], the tier of the driver's task
  RetryAfter,     \* cooldowns a harness may ask for, in half seconds
  MaxRetries,     \* limits.max_retries
  MaxTime,        \* bound on the clock
  MaxFaults,      \* bound on errors of harnesses, worktrees and the store
  MaxDeaths,      \* bound on drivers that die
  MaxResumes,     \* bound on resumed drivers
  None

Tiers == {"Tier1", "Tier2", "Tier3"}
ModelTiers == {"Lightweight", "MidTier", "TopTier"}
Actors == Drivers \cup Planners

ASSUME RoutingConstants ==
  /\ IsFiniteSet(Harnesses) /\ IsFiniteSet(Drivers) /\ Drivers \cap Planners = {}
  /\ TierOf \in [Drivers -> Tiers] /\ RetryAfter \subseteq Nat \ {0}
  /\ MaxRetries \in Nat /\ MaxTime \in Nat
  /\ \A crew \in Crews : crew.who \subseteq Actors /\ crew.loads \subseteq Configs
  /\ \A c \in Configs :
       /\ c.selected_harnesses \in Seq(Harnesses)
       /\ \A h \in DOMAIN c.harnesses : c.harnesses[h].model_tier \in ModelTiers
  /\ None \notin Harnesses \cup Tiers

VARIABLES
  config,    \* the configuration every process of this repository loads
  now,       \* the wall clock
  quota,     \* table quota_state
  feedback,  \* table routing_feedback
  task,      \* per driver: the state its task's log folds to
  rows,      \* per driver: the harnesses of the task's attempt rows, in order
  pc,        \* per actor: where it is
  snap,      \* per actor: the quota rows it loaded
  up,        \* per actor: the harnesses its probes found dispatchable
  selected,  \* per actor: what `select` returned
  cand,      \* per actor: the candidate it works with
  err,       \* per actor: what the harness answered
  due,       \* history: when the harness asked to be used again, as answered
  seen,      \* history, per actor: what it was `Owed` when it loaded
  settled,   \* history: results to count that reached the log
  faults, deaths, resumes

tables == <<quota, feedback>>
history == <<due, seen, settled>>
local == <<snap, up, selected, cand, err>>
bounds == <<faults, deaths, resumes>>
routingVars == <<config, now, tables, task, rows, pc, local, history, bounds>>

-----------------------------------------------------------------------------
(* Configuration *)

(* What `load` accepts: every selected harness has a table, version        *)
(* arguments and prompt channels are usable, the planner is a selected     *)
(* harness or a tier, not both, and probes have a deadline.                *)
load(c) ==
  /\ \A i \in DOMAIN c.selected_harnesses :
       c.selected_harnesses[i] \in DOMAIN c.harnesses
  /\ \A h \in DOMAIN c.harnesses :
       c.harnesses[h].version_args /\ c.harnesses[h].prompt_via
  /\ c.planner.harness # None =>
       c.planner.harness \in Range(c.selected_harnesses)
  /\ ~(c.planner.harness # None /\ c.planner.tier # None)
  /\ c.planner.tier \in Tiers \cup {None}
  /\ c.probe_timeout_seconds > 0

Candidates == config.selected_harnesses
Place(h) == CHOOSE i \in DOMAIN Candidates : Candidates[i] = h

(* The pool and the tier planning is routed with.  An explicit harness is  *)
(* routed as Tier1, which every model fits; without a choice it is Tier3.  *)
planner_pool ==
  IF config.planner.harness # None
    THEN [pool |-> {h \in Range(Candidates) : h = config.planner.harness},
          tier |-> "Tier1"]
    ELSE [pool |-> Range(Candidates),
          tier |-> IF config.planner.tier = None THEN "Tier3"
                   ELSE config.planner.tier]

Pool(a) == IF a \in Planners THEN planner_pool.pool ELSE Range(Candidates)
Tier(a) == IF a \in Planners THEN planner_pool.tier ELSE TierOf[a]

-----------------------------------------------------------------------------
(* Breaker *)

Closed == [breaker |-> "Closed", opened_at |-> 0, cooldown |-> 0]

\* Mutant: an open breaker is available once it was opened.
is_available_early(q, t) == q.breaker # "Open" \/ t >= q.opened_at

is_available(q, t) ==
  \/ q.breaker \in {"Closed", "HalfOpen"}
  \/ t >= q.opened_at + q.cooldown

on_capacity_exhausted(t, retry_after) ==
  [breaker |-> "Open", opened_at |-> t, cooldown |-> retry_after]

(* What a row gives back: `opened_at` is stored in whole seconds.          *)
Stored(q) == [q EXCEPT !.opened_at = 2 * (@ \div 2)]

-----------------------------------------------------------------------------
(* Selection *)

tier_fits(tier, model) ==
  CASE tier = "Tier1" -> TRUE
    [] tier = "Tier2" -> model \in {"MidTier", "TopTier"}
    [] tier = "Tier3" -> model = "TopTier"

is_dispatchable(a, h) == h \in up[a] /\ config.harnesses[h].invoke_args_template

(* Scores are in thousandths.  Headroom is never observed and the coupling *)
(* penalty is zero in this program, so those two signals add nothing.      *)
TierEfficiencySignal(tier, model) ==
  CASE tier = "Tier1" /\ model = "TopTier" -> 0
    [] tier = "Tier1" /\ model = "MidTier" -> 500
    [] tier = "Tier2" /\ model = "TopTier" -> 500
    [] OTHER -> 1000

Pulls(c) == c.success + c.failure

HistoricalSuccessSignal(c) ==
  IF Pulls(c) = 0 THEN 500 ELSE (1000 * c.success) \div Pulls(c)

(* 0.7 * sqrt(1 / (pulls + 1)), so the square root of 490000 / (pulls + 1). *)
RestlessBanditSignal(c) ==
  Cardinality({s \in 1 .. 700 : s * s * (Pulls(c) + 1) <= 490000})

Score(a, h) ==
  LET c == feedback[h][Tier(a)]
  IN  TierEfficiencySignal(Tier(a), config.harnesses[h].model_tier)
      + HistoricalSuccessSignal(c) + RestlessBanditSignal(c)

(* A candidate passes the three filters of `select`.                       *)
Passes(a, h) ==
  /\ tier_fits(Tier(a), config.harnesses[h].model_tier)
  /\ is_dispatchable(a, h)
  /\ is_available(snap[a][h], now)

select(a) == {h \in Pool(a) : Passes(a, h)}

(* The order of the candidates: best first, and since the sort is stable,  *)
(* equals in their configured order.                                       *)
Before(a, g, h) ==
  LET ahead == Score(a, g) - Score(a, h)
  IN  ahead > 0 \/ (ahead = 0 /\ Place(g) < Place(h))

Best(a, S) == CHOOSE g \in S : \A h \in S \ {g} : Before(a, g, h)

(* The best candidate the task has no attempt row of, else the best.       *)
Pick(a, S, used) == IF S \subseteq used THEN Best(a, S) ELSE Best(a, S \ used)

-----------------------------------------------------------------------------
(* What a harness answers: nothing, a fault or a timeout, or that it is    *)
(* exhausted and when to come back.  `at` is when that was taken down.     *)
Answer(kind, after) == [kind |-> kind, after |-> after, at |-> 0]
Silent == Answer("none", 0)
Fault == Answer("fault", 0)
Errors == {Fault} \cup {Answer("exhausted", r) : r \in RetryAfter}

RoutingTypeOK ==
  /\ config \in Configs /\ load(config)
  /\ now \in 0 .. MaxTime
  /\ DOMAIN quota = Harnesses
  /\ \A h \in Harnesses : quota[h].opened_at <= now
  /\ feedback \in [Harnesses -> [Tiers -> [success : Nat, failure : Nat]]]
  /\ task \in [Drivers -> {"Ready", "Running", "Verifying", "Failed", "Passed"}]
  /\ \A d \in Drivers : Len(rows[d]) <= MaxRetries \/ Len(rows[d]) = 1
  /\ pc \in [Actors -> {"start", "select", "dispatch", "invoke", "collect",
                        "poll", "quota", "save", "opened", "resave", "count",
                        "fail", "verify", "repair", "recheck", "append",
                        "idle", "gone", "absent"}]
  /\ \A a \in Actors : pc[a] \in {"dispatch", "invoke", "collect"} =>
       cand[a] \in selected[a]

Forget(a) ==
  /\ snap' = [snap EXCEPT ![a] = [h \in Harnesses |-> Closed]]
  /\ up' = [up EXCEPT ![a] = {}]
  /\ selected' = [selected EXCEPT ![a] = {}]
  /\ cand' = [cand EXCEPT ![a] = None]
  /\ err' = [err EXCEPT ![a] = Silent]
  /\ seen' = [seen EXCEPT ![a] = [h \in Harnesses |-> 0]]

RoutingInit ==
  /\ now = 0
  /\ quota = [h \in Harnesses |-> Closed]
  /\ feedback = [h \in Harnesses |->
                   [t \in Tiers |-> [success |-> 0, failure |-> 0]]]
  /\ task = [d \in Drivers |-> "Ready"]
  /\ rows = [d \in Drivers |-> <<>>]
  /\ \E crew \in Crews :
       /\ config \in {c \in crew.loads : load(c)}
       /\ pc = [a \in Actors |-> IF a \in crew.who THEN "start" ELSE "absent"]
  /\ snap = [a \in Actors |-> [h \in Harnesses |-> Closed]]
  /\ up = [a \in Actors |-> {}]
  /\ selected = [a \in Actors |-> {}]
  /\ cand = [a \in Actors |-> None]
  /\ err = [a \in Actors |-> Silent]
  /\ due = [h \in Harnesses |-> 0]
  /\ seen = [a \in Actors |-> [h \in Harnesses |-> 0]]
  /\ settled = [h \in Harnesses |-> [t \in Tiers |-> 0]]
  /\ faults = 0 /\ deaths = 0 /\ resumes = 0

-----------------------------------------------------------------------------
(* What a harness asked for *)

(* The driver takes down that its harness is exhausted.                    *)
TakesDown(d, h) ==
  /\ pc[d] \in {"quota", "opened", "save", "resave"}
  /\ err[d].kind = "exhausted" /\ cand[d] = h

Recording(h) == \E d \in Drivers : TakesDown(d, h)

(* When a row lets its harness be used again.                              *)
End(q) == IF q.breaker = "Open" THEN q.opened_at + q.cooldown ELSE 0

(* What somebody who reads the row of a harness should wait for: what the  *)
(* harness asked for, or what the row says while that is not yet down.     *)
Owed(h) == IF Recording(h) \/ due[h] = 0 THEN End(quota[h]) ELSE due[h]

(* The harness of d answers e.  Answers that are taken down at the same    *)
(* time count as the one that ends first.                                  *)
Hear(d, e) ==
  LET h == cand[d]  end == now + e.after
  IN  /\ err' = [err EXCEPT ![d] = e]
      /\ due' = IF e.kind # "exhausted" THEN due
                ELSE [due EXCEPT ![h] = IF Recording(h) /\ @ <= end THEN @ ELSE end]

\* With the harness at work the wait for it is over.
EndWait(a) == seen' = [seen EXCEPT ![a] = [h \in Harnesses |-> 0]]
Goto(a, place) == pc' = [pc EXCEPT ![a] = place]

-----------------------------------------------------------------------------
(* Routing, by a driver's dispatch_ready and by plan *)

(* probe_all and load_quotas.  A probe that fails leaves its harness out,  *)
(* a row that cannot be loaded is left out too, and `select` takes a       *)
(* harness without a row for available.  What fails in one step counts as  *)
(* one fault.                                                              *)
Take(a, found, rowsRead) ==
  /\ up' = [up EXCEPT ![a] = found]
  /\ snap' = [snap EXCEPT ![a] =
                [h \in Harnesses |-> IF h \in rowsRead THEN quota[h] ELSE Closed]]
  /\ seen' = [seen EXCEPT ![a] =
                [h \in Harnesses |-> IF h \in rowsRead THEN Owed(h) ELSE 0]]

Load(a) ==
  /\ pc[a] = "start"
  /\ a \in Drivers => task[a] = "Ready"
  /\ \/ Take(a, Pool(a), Harnesses) /\ UNCHANGED faults
     \/ /\ faults < MaxFaults /\ faults' = faults + 1
        /\ \E found \in SUBSET Pool(a), rowsRead \in SUBSET Harnesses :
             Take(a, found, rowsRead)
  /\ Goto(a, "select")
  /\ UNCHANGED <<config, now, tables, task, rows, selected, cand, err,
                 due, settled, deaths, resumes>>

(* No candidate: a driver idles with NoCapableCandidate, plan ends with    *)
(* NoCandidate.                                                            *)
NoCandidate(a) ==
  /\ pc[a] = "select" /\ select(a) = {}
  /\ Goto(a, "idle") /\ Forget(a)
  /\ UNCHANGED <<config, now, tables, task, rows, due, settled, bounds>>

(* The profiles and the quota rows are dropped with the selection made.    *)
Select(a) ==
  /\ pc[a] = "select" /\ select(a) # {}
  /\ selected' = [selected EXCEPT ![a] = select(a)]
  /\ cand' = [cand EXCEPT ![a] =
                IF a \in Planners THEN Best(a, selected'[a])
                ELSE Pick(a, selected'[a], Range(rows[a]))]
  /\ Goto(a, IF a \in Planners THEN "invoke" ELSE "dispatch")
  /\ snap' = [snap EXCEPT ![a] = [h \in Harnesses |-> Closed]]
  /\ up' = [up EXCEPT ![a] = {}]
  /\ UNCHANGED <<config, now, tables, task, rows, err, history, bounds>>

(* AttemptStarted, the worktree, and the row that makes the harness used.  *)
Dispatch(d) ==
  /\ pc[d] = "dispatch"
  /\ task' = [task EXCEPT ![d] = "Running"]
  /\ rows' = [rows EXCEPT ![d] = Append(@, cand[d])]
  /\ Goto(d, "invoke")
  /\ UNCHANGED <<config, now, tables, local, history, bounds>>

(* The worktree cannot be made: the attempt fails without a row, and the   *)
(* fallback is decided on the rows there are.                              *)
WorktreeFails(d) ==
  /\ pc[d] = "dispatch" /\ faults < MaxFaults
  /\ task' = [task EXCEPT ![d] = "Running"]
  /\ err' = [err EXCEPT ![d] = Fault]
  /\ Goto(d, "fail")
  /\ faults' = faults + 1
  /\ UNCHANGED <<config, now, tables, rows, snap, up, selected, cand, history,
                 deaths, resumes>>

(* The harness takes the work, or answers with an error at once.           *)
Invoke(d) ==
  /\ d \in Drivers /\ pc[d] = "invoke"
  /\ Goto(d, "collect") /\ EndWait(d)
  /\ UNCHANGED <<config, now, tables, task, rows, local, due, settled, bounds>>

InvokeFails(d) ==
  /\ d \in Drivers /\ pc[d] = "invoke" /\ faults < MaxFaults
  /\ \E e \in Errors : Hear(d, e)
  /\ Goto(d, "quota") /\ EndWait(d)
  /\ faults' = faults + 1
  /\ UNCHANGED <<config, now, tables, task, rows, snap, up, selected, cand,
                 settled, deaths, resumes>>

(* `Unsupported` ends the command; the task stays Running.                 *)
InvokeUnsupported(d) ==
  /\ d \in Drivers /\ pc[d] = "invoke" /\ faults < MaxFaults
  /\ Goto(d, "gone") /\ Forget(d)
  /\ faults' = faults + 1
  /\ UNCHANGED <<config, now, tables, task, rows, due, settled, deaths, resumes>>

(* try_collect right after invoke: an outcome, nothing yet, or an error,   *)
(* which is recorded in the quota but not counted.  The selection ends     *)
(* with dispatch_ready unless the error is to fall back on it.             *)
Collect(d) ==
  /\ pc[d] = "collect"
  /\ \/ /\ Goto(d, "poll") /\ selected' = [selected EXCEPT ![d] = {}]
        /\ UNCHANGED <<err, due, task, faults>>
     \/ /\ task' = [task EXCEPT ![d] = "Verifying"]
        /\ Goto(d, "verify") /\ selected' = [selected EXCEPT ![d] = {}]
        /\ UNCHANGED <<err, due, faults>>
     \/ /\ faults < MaxFaults /\ faults' = faults + 1
        /\ \E e \in Errors : Hear(d, e)
        /\ Goto(d, "opened") /\ UNCHANGED <<task, selected>>
  /\ UNCHANGED <<config, now, tables, rows, snap, up, cand, seen, settled,
                 deaths, resumes>>

(* A later tick's reattach_running: an outcome, or an error of any kind,   *)
(* exhaustion included, which only fails the attempt.                      *)
Reattach(d) ==
  /\ pc[d] = "poll"
  /\ \/ /\ task' = [task EXCEPT ![d] = "Verifying"]
        /\ Goto(d, "verify") /\ UNCHANGED <<local, seen, faults>>
     \/ /\ faults < MaxFaults /\ faults' = faults + 1
        /\ task' = [task EXCEPT ![d] = "Failed"]
        /\ Goto(d, "idle") /\ Forget(d)
  /\ UNCHANGED <<config, now, tables, rows, due, settled, deaths, resumes>>

-----------------------------------------------------------------------------
(* What a driver writes back *)

(* on_capacity_exhausted: the row is loaded, and opened at the present     *)
(* time whatever it said.                                                  *)
OpenBreaker(d) ==
  /\ pc[d] \in {"quota", "opened"} /\ err[d].kind = "exhausted"
  /\ err' = [err EXCEPT ![d].at = now]
  /\ Goto(d, IF pc[d] = "quota" THEN "save" ELSE "resave")
  /\ UNCHANGED <<config, now, tables, task, rows, snap, up, selected, cand,
                 history, bounds>>

\* Mutant: a row that is open already is kept.
save_quota_once(h, q) ==
  IF quota[h].breaker = "Open" THEN quota ELSE [quota EXCEPT ![h] = Stored(q)]

save_quota(h, q) == [quota EXCEPT ![h] = Stored(q)]

(* The row is saved; another driver may have saved a later one meanwhile.  *)
(* The error of an invoke ("quota") goes on to be counted, the error of    *)
(* the collect that follows it ("opened") does not.                        *)
RecordQuota(d) ==
  /\ \/ /\ pc[d] \in {"quota", "opened"} /\ err[d].kind = "fault"
        /\ UNCHANGED quota
     \/ /\ pc[d] \in {"save", "resave"}
        /\ quota' = save_quota(cand[d],
                               on_capacity_exhausted(err[d].at, err[d].after))
  /\ IF pc[d] \in {"quota", "save"}
       THEN Goto(d, "count") /\ err' = [err EXCEPT ![d] = Answer("counted", 0)]
       ELSE Goto(d, "fail") /\ err' = [err EXCEPT ![d] = Fault]
  /\ UNCHANGED <<config, now, feedback, task, rows, snap, up, selected, cand,
                 history, bounds>>

record_outcome(h, tier, success) ==
  [feedback EXCEPT ![h][tier] =
     [success |-> @.success + IF success THEN 1 ELSE 0,
      failure |-> @.failure + IF success THEN 0 ELSE 1]]

(* The store counts a result, or fails to, which is passed over.           *)
Count(h, tier, success) ==
  \/ feedback' = record_outcome(h, tier, success) /\ UNCHANGED faults
  \/ faults < MaxFaults /\ faults' = faults + 1 /\ UNCHANGED feedback

CountFailure(d) ==
  /\ pc[d] = "count"
  /\ Count(cand[d], Tier(d), FALSE)
  /\ Goto(d, "fail")
  /\ UNCHANGED <<config, now, quota, task, rows, local, history, deaths, resumes>>

\* Mutant: a failed attempt is retried whatever its rows say.
MayFallBack_always(d) == selected[d] # {}

(* maybe_fallback: the failed attempt is retried by itself while rows and  *)
(* an unused candidate of this selection are left.                         *)
MayFallBack(d) ==
  /\ Len(rows[d]) < MaxRetries
  /\ \E h \in selected[d] : h \notin Range(rows[d])

Settle(d, result) ==
  /\ task' = [task EXCEPT ![d] = result]
  /\ Forget(d)
  /\ UNCHANGED <<config, now, tables, rows, due, bounds>>

CountSettled(d) == settled' = [settled EXCEPT ![cand[d]][Tier(d)] = @ + 1]

Fail(d) ==
  /\ pc[d] = "fail"
  /\ Settle(d, IF MayFallBack(d) THEN "Ready" ELSE "Failed")
  /\ Goto(d, IF MayFallBack(d) THEN "start" ELSE "idle")
  /\ IF err[d].kind = "counted" THEN CountSettled(d) ELSE UNCHANGED settled

(* A round of repair gives the harness more work, whatever its quota row   *)
(* says by now, and what it answers goes nowhere: any error, exhaustion    *)
(* included, ends the loop with the checks failed.                         *)
RepairRound(d) ==
  /\ pc[d] = "verify" /\ err[d] = Silent
  /\ Goto(d, "repair")
  /\ UNCHANGED <<config, now, tables, task, rows, local, history, bounds>>

RepairEnds(d) ==
  /\ pc[d] = "repair"
  /\ \/ UNCHANGED <<err, faults>>
     \/ /\ faults < MaxFaults /\ faults' = faults + 1
        /\ err' = [err EXCEPT ![d] = Fault]
  /\ Goto(d, "verify")
  /\ UNCHANGED <<config, now, tables, task, rows, snap, up, selected, cand,
                 history, deaths, resumes>>

(* The checks end; their verdict is counted, and then logged.              *)
\* Mutant: a check that fails is counted again when it is logged.
Verify_twice(d) ==
  /\ pc[d] \in {"verify", "recheck"}
  /\ \E passed \in IF err[d] = Silent THEN BOOLEAN ELSE {FALSE} :
       /\ feedback' = [feedback EXCEPT ![cand[d]][Tier(d)] =
            [success |-> @.success + IF passed THEN 1 ELSE 0,
             failure |-> @.failure + IF passed THEN 0 ELSE 2]]
       /\ err' = [err EXCEPT ![d] = Answer(IF passed THEN "passed" ELSE "failed", 0)]
  /\ Goto(d, "append")
  /\ UNCHANGED <<config, now, quota, task, rows, snap, up, selected, cand,
                 history, bounds>>

Verify(d) ==
  /\ pc[d] \in {"verify", "recheck"}
  /\ \E passed \in IF err[d] = Silent THEN BOOLEAN ELSE {FALSE} :
       /\ Count(cand[d], Tier(d), passed)
       /\ err' = [err EXCEPT ![d] = Answer(IF passed THEN "passed" ELSE "failed", 0)]
  /\ Goto(d, "append")
  /\ UNCHANGED <<config, now, quota, task, rows, snap, up, selected, cand,
                 history, deaths, resumes>>

(* The verification a dead driver left cannot be done (its worktree, its   *)
(* head or its checks are not there): it fails, and nothing is counted.    *)
FailOrphaned(d) ==
  /\ pc[d] = "recheck"
  /\ Settle(d, "Failed")
  /\ Goto(d, "idle")
  /\ UNCHANGED settled

(* The verdict is logged.  A failed check falls back on an empty selection *)
(* and so never by itself.                                                 *)
AppendVerdict(d) ==
  /\ pc[d] = "append"
  /\ Settle(d, IF err[d].kind = "passed" THEN "Passed" ELSE "Failed")
  /\ Goto(d, "idle")
  /\ CountSettled(d)

-----------------------------------------------------------------------------
(* Planners *)

(* plan hands its one candidate to decompose_owned, which invokes it until *)
(* it plans or the retries are used up.  An answer is written nowhere.     *)
PlanInvoke(p) ==
  /\ p \in Planners /\ pc[p] = "invoke"
  /\ \/ Goto(p, "idle") /\ Forget(p) /\ UNCHANGED faults
     \/ /\ faults < MaxFaults /\ faults' = faults + 1
        /\ UNCHANGED <<pc, local, seen>>
  /\ UNCHANGED <<config, now, tables, task, rows, due, settled, deaths, resumes>>

-----------------------------------------------------------------------------
(* The world *)

Tick ==
  /\ now < MaxTime /\ now' = now + 1
  /\ UNCHANGED <<config, tables, task, rows, pc, local, history, bounds>>

(* A driver dies, or ends because the store refused a row.  An answer it   *)
(* was taking down is lost; a result it counted and did not log is counted *)
(* again.                                                                  *)
Die(d) ==
  /\ pc[d] \notin {"idle", "gone", "absent"} /\ deaths < MaxDeaths
  /\ deaths' = deaths + 1
  /\ due' = [h \in Harnesses |-> IF TakesDown(d, h) THEN 0 ELSE due[h]]
  /\ Goto(d, "gone") /\ Forget(d)
  /\ UNCHANGED <<config, now, tables, task, rows, settled, faults, resumes>>

(* `resume`, and `resume --retry` for a failed task with rows left.  A     *)
(* Running task's worker is gone with its driver; a Verifying task is      *)
(* checked again on the harness of its last row.                           *)
Resume(d) ==
  /\ pc[d] \in {"idle", "gone"} /\ task[d] # "Passed"
  /\ resumes < MaxResumes /\ resumes' = resumes + 1
  /\ CASE task[d] = "Running" ->
            /\ task' = [task EXCEPT ![d] = "Failed"]
            /\ Goto(d, "idle") /\ UNCHANGED cand
       [] task[d] = "Verifying" ->
            /\ cand' = [cand EXCEPT ![d] = rows[d][Len(rows[d])]]
            /\ Goto(d, "recheck") /\ UNCHANGED task
       [] task[d] = "Failed" ->
            /\ Len(rows[d]) < MaxRetries
            /\ task' = [task EXCEPT ![d] = "Ready"]
            /\ Goto(d, "start") /\ UNCHANGED cand
       [] OTHER -> Goto(d, "start") /\ UNCHANGED <<task, cand>>
  /\ UNCHANGED <<config, now, tables, rows, snap, up, selected, err, history,
                 faults, deaths>>

RoutingNext ==
  \/ Tick
  \/ \E a \in Actors : Load(a) \/ NoCandidate(a) \/ Select(a)
  \/ \E p \in Planners : PlanInvoke(p)
  \/ \E d \in Drivers :
       \/ Dispatch(d) \/ WorktreeFails(d)
       \/ Invoke(d) \/ InvokeFails(d) \/ InvokeUnsupported(d)
       \/ Collect(d) \/ Reattach(d)
       \/ OpenBreaker(d) \/ RecordQuota(d) \/ CountFailure(d) \/ Fail(d)
       \/ RepairRound(d) \/ RepairEnds(d)
       \/ Verify(d) \/ FailOrphaned(d) \/ AppendVerdict(d)
       \/ Die(d) \/ Resume(d)

RoutingSpec == RoutingInit /\ [][RoutingNext]_routingVars

-----------------------------------------------------------------------------
(* Properties *)

(* An attempt or a plan is started on a harness only when the time is over *)
(* that the harness had asked for when the actor loaded its row, whichever *)
(* driver took that down and however long the actor took since; storing    *)
(* whole seconds costs at most one half second of it.  A row that could    *)
(* not be loaded protects nothing, and neither does any row from a round   *)
(* of repair.                                                              *)
CooldownRespected ==
  \A a \in Actors : pc[a] \in {"dispatch", "invoke"} => now + 1 >= seen[a][cand[a]]

(* Once nobody is taking an answer down, the row of a harness is open and  *)
(* lasts as long as the harness asked for in its last answer to a          *)
(* dispatch, beyond the half second.  Drivers that take answers down at    *)
(* the same time may leave an earlier one in the row, but none before the  *)
(* first of theirs; an answer whose driver dies over it is lost.           *)
LastAnswerCounts ==
  \A h \in Harnesses : due[h] > 0 /\ ~Recording(h) =>
    quota[h].breaker = "Open" /\ End(quota[h]) + 1 >= due[h]

(* The result of d goes to the counts and the log, and is not logged yet.  *)
Pending(d) == pc[d] = "append" \/ (pc[d] = "fail" /\ err[d].kind = "counted")

(* The results routing should learn from: in the log, or about to be.      *)
Results(h, t) ==
  settled[h][t] + Cardinality({d \in Drivers : Pending(d) /\ cand[d] = h /\ Tier(d) = t})

(* No more is counted than there are results, but for one a driver counted *)
(* and died before it logged it, and no result goes uncounted, but for one *)
(* the store failed to count, across drivers, restarts and repeated checks *)
(* (record_outcome before the append).                                     *)
CountedOnce ==
  \A h \in Harnesses, t \in Tiers :
    /\ Pulls(feedback[h][t]) <= Results(h, t) + deaths
    /\ Results(h, t) <= Pulls(feedback[h][t]) + faults

(* Exhaustion is honoured: the row of a harness keeps what it answered, and *)
(* nobody who loaded it starts work on the harness before that time        *)
(* (record_quota, is_available).                                           *)
QuotaIsKept == RoutingTypeOK /\ CooldownRespected /\ LastAnswerCounts

=============================================================================
