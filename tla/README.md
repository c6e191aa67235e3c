# Meshloop in TLA+

Meshloop drives coding agents ("harnesses") over an accepted graph of tasks: each
task gets a git worktree, a worker process, a deterministic verification and, in
the end, a merge into an integrate branch that an operator lands. Everything
durable is in a SQLite ledger, a registry file and git; everything else is the
memory of processes that may die at any moment while other commands run beside
them.

This directory holds a TLA+ model of that system, the TLC configurations that
check it on small instances, and TLAPS proofs for every instance. `PROJECT.json`
is the index: components, runs, the mutation of the code that each property
catches, the source lines behind each definition, the hazards and the theorems.
Source paths below are relative to `src/`.

    tlc -workers 2 -config run_chain.cfg MCRunLoop
    tlapm RunLoop_proofs.tla

## 1. Inventory

| Component | Source (crates/meshloop-…) | State | Operations |
|---|---|---|---|
| Task and plan state machines | domain/src/state.rs | – | `transition`, `plan_transition` |
| Run loop | engine/src/run_loop.rs | `pending_outcomes`, a fold per tick | `start`, `resume`, `tick`, `cancel`, `accept_human`, `restart`, `integrate` |
| Event log, attempts, evidence | adapters/src/store.rs, engine/src/recovery.rs | tables `events`, `attempts`, `evidence` | `append`, `replay_tasks`, `next_attempt_id`, `save_attempt`, `reset_graph_execution` |
| Repair session | engine/src/converge.rs, domain/src/diagnostic.rs, `verify_attempt` in run_loop.rs | rounds, current revision | `observe`, `decide`, micro-repair, harness round, rollback |
| Plan gate, graph mutation | run_loop.rs, engine/src/orchestrator.rs, domain/src/task_graph.rs | the `runs` row | `start`, `stage_plan`, `decide_plan`, `mutate_plan`, `validate`, `apply_mutation` |
| Deliverables, landing, restart | run_loop.rs, adapters/src/git.rs | integrate branch, deliverable worktrees | `prepare_deliverable`, `integrate_into`, `restart` |
| Planner session | engine/src/planner.rs, adapters/src/workspace.rs, workspace/runtime.rs | registry, operations, driver records, requests | `bootstrap`, plan, retry, cancel, drain |
| Workspace ledger | adapters/src/workspace/{runtime,adoption,ledger}.rs, engine/src/workspace/read.rs | bindings, revisions, generations, scoped attempts | bind, authorize, activate, adopt, snapshot |
| Store schema | adapters/src/workspace/schema.rs | `schema_meta` | migrate, validate, open read-only |
| Cleanup | adapters/src/workspace/cleanup.rs, domain/src/cleanup.rs | `cleanup_journal` | preview, apply |
| Inventory, maintenance, delivery proof | {adapters,engine}/src/workspace/inventory.rs, engine/src/workspace/{maintenance,delivery}.rs | – | observe, merge, classify, plan, prove |
| Router, breaker, configuration | engine/src/router.rs, domain/src/{capability,policy}.rs, cli/src/config.rs | `quota_state`, `routing_feedback` | `select`, `record_quota`, `record_outcome`, fallback |
| Harness capture, processes | adapters/src/{harness,check,process}.rs, process/** | registry of children, permits, jobs | `invoke`, `try_collect`, `cancel`, `cancel_owned`, `probe`, check |
| Driver liveness, watch | cli/src/driver_liveness.rs, cli/src/main.rs | `run_driver_liveness` | register, beat, finish, observe, watch |
| Context, telemetry, jev | context/src, adapters/src/{telemetry,jev,redact}.rs | caches, a bounded queue | read through, drop oldest |
| CLI, MCP, reports | cli/src | – | one process per command |

How they meet. The driver polls: `loop_until_idle` calls `tick`, and a tick reads
the plan state, the graph and the fold of the log, takes the first phase that
applies (reattach, harvest, clear blocked, promote, orphaned verify gate, merge,
dispatch, verify) and appends at the end of it. `cancel`, `accept`, `review-plan`
and `mutate-plan` are processes of their own that write the same rows without a
lock. Workers outlive the driver on some platforms and are found again through the
pid or pane in the attempts table. A dispatch asks the router, which reads quota
and feedback rows other drivers write. Verification runs inside a tick, on the
attempt's worktree. Planning, adoption and cleanup hold a file lock on the registry
(the fence); the legacy commands do not know it and are kept out of bound graphs by
a check and by triggers. `watch` and `status` only read.

What is hard. A decision is taken on rows that are stale when the result is
written, and neither `append` nor `save_run` compares versions. A dispatch is five
durable effects (event, worktree, row, process, pid), a merge two, a removal three, a
restart one per worktree and three deletes, a migration two transactions; the
process may die between any two. Ids start again after a restart. Retries are
counted in one table and authorized from two places. A cancel meets a worker that
is being launched, collected or cancelled by its owner. A pipe stays open after its
process is gone. The hazards of `PROJECT.json` list these at their lines, with the
property that would catch each going wrong, or a note where the code gives no guarantee.

What makes each part correct: a task begins only over integrated dependencies and
only if its plan was reviewed; only a checked and accepted attempt is merged and
landed; the log stays replayable while no operator interferes; slots, retries and
readers are bounded; the driver, the planner, a call and a watch end, except where the
code itself can wait for ever; a verdict is
about the commit that is merged; what is removed was shown, owned and clean, and a
crash leaves a journal that tells what happened; an answer "applied" to a
cancellation is true; cooldowns are respected; a store that opens is current.

## 2. Modules

| Module | Models | Composes |
|---|---|---|
| `TaskState` | the transition table of state.rs | – |
| `TaskLifecycle` | abstract specification: what an observer of the folded log may see | `TaskState` |
| `RunLoop` | driver, workers, store, git, operator | `TaskState`; refines `TaskLifecycle` |
| `RepairSession` | verification of one attempt | refines the verdict `RunLoop` draws at random |
| `TaskGraph` | graphs, validation, tiers, mutations, deliverables, as operators | – |
| `PlanGate` | the plan's row, its commands and a driver | `TaskGraph`, `TaskState` |
| `Landing` | restart, deliverables, landing | `TaskGraph` |
| `Routing` | configuration, breaker, selection, feedback | – |
| `PlannerSession` | `meshloop plan` and its cancellation | – |
| `WorkspaceLedger` | lifecycle tables, legacy writers, adoption, reader | – |
| `HarnessCapture` | calls, pipes, permits, process trees | – |
| `CleanupJournal` | digest-bound removal of worktrees | – |
| `DeliveryProof` | proof of a delivery receipt, as an operator | – |
| `WorkspaceInventory` | preview, apply and maintain over what is discovered | `DeliveryProof` |
| `StoreSchema` | opening and migrating the store | – |
| `DriverWatch` | driver rows, `status`, `watch` | `StoreSchema`, `TaskState` |
| `RunLoop_proofs`, `CleanupJournal_proofs`, `HarnessCapture_proofs`, `DriverWatch_proofs`, `Landing_proofs` | theorems | the module they are named after |
| `Attempt_proofs` | theorems about an attempt: its harness and its verification | `RepairSession`, `Routing` |
| `Planning_proofs` | theorems about planning: the session and the gate | `PlanGate`, `PlannerSession` |
| `Workspace_proofs` | theorems about the workspace: ledger, inventory, delivery | `WorkspaceLedger`, `WorkspaceInventory` |
| `MC…` | instances for TLC | the module they are named after |

Where one proof module extends two components, the definitions of the second that every
component has bear its name: `RoutingInit`, `RoutingNext`, `RoutingSpec`, `RoutingTypeOK`,
and likewise `Planner…` and `Inventory…`.

### RunLoop

`st`, `last` and `corrupt` are the event log as `replay_tasks` folds it; a record
whose recorded target disagrees with the fold sets `corrupt`, after which every
reader fails. `attempts`, `pidSaved`, `passed`, `approved` are the attempt and
evidence rows, `wt` and `merged` are git, `worker` is the operating system. The
rest is the driver's memory (`snap` is the fold of the current tick) and one
operator command (`op`, `opSnap`). Each step is one durable effect: `DispatchStart`
(AttemptStarted), `AddWorktree`, `SaveAttempt`, `Invoke`, `SavePid`, `Collect` are
`dispatch_ready`; `MergeAccepted` and `RecordMerge` are `merge_accepted`;
`ChecksDone`, `AppendResult`, `AppendVerifyGate` are the tail of a verification.
`Crash` ends the driver between any two of them, whether the process is killed or
a port call returns an error that `tick` passes on. The `Past…` predicates give
the phases of a tick their order.

Abstractions. The router may return any nonempty set of harnesses (`Routing` has
the choice); a verification is one nondeterministic verdict (`RepairSession` has the
loop); harness errors are folded into `HarnessCrashedOrTimeout`; `ended_at` is
written with its event; the pid a row records is never reused; reading and appending
in `append_verify_gate` is one step; there is one driver and at most one operator
command in flight, as runtime-design.md (lines 197-199) requires of the driver, and
the operator's command itself does not die half-way. The plan is accepted
(`PlanGate` has the gate) and the run has no lifecycle binding.

### RepairSession

One `verify_attempt`. `head`, `dirty` are the attempt's branch and worktree; `rev`,
`hist`, `before` are what the session believes (`current_revision`, the rounds, the
lattice an edit has to improve). `check` is a history variable: the tree the last
check really ran on. A lattice is its set of atoms and is its own fingerprint; the
exit code of the check command does not follow from the atoms its output parses to.
`Crash` sends the attempt to `OrphanCheck`, the single check of
`finish_orphaned_verification`. The scores of a micro-repair are taken to lie in
their window. `Micro` is an option because the CLI composes the loop without one.

### TaskGraph and PlanGate

A graph is the sequence of its nodes, ids repeated and dependencies dangling until
`validate` has seen it. `row` is the runs row; every command is a process that
loads it, decides and saves all of it (`StageRead`/`StageSave`,
`DecideRead`/`DecideSave`, `StartExisting`/`StartSave`, `MutateRow`, `MutateGraph`,
`MutateTasks`, `MutateSave`), and the driver's tick is three reads and one effect.
Where a write rests on a stale read the history variable `overlap` is set: the
gate's promises are stated for commands that do not overlap, since `save_run`
compares nothing. `held` remembers the nodes that were put up for review or declined and
that nobody has accepted since.

### Landing

A branch is the set of attempts whose commits it holds. `Wipe` removes one
worktree, `ResetIntegrate`, `DeleteEvidence`, `DeleteEvents`, `DeleteAttempts` are the
rest of `restart`; the deliverable is picked one commit at a time, in the order of
the closure; landing is a merge with or without a fast-forward, or an undone one on
conflict. Any git command may fail. The driver is reduced to what these commands meet.

### Routing

`dispatch_ready` from `probe_all` and `load_quotas` to the recorded outcome, one
durable effect per step, for several drivers and a planner over shared rows. The
clock counts half seconds because `save_quota` keeps whole ones. Scores are in
thousandths with the signals that can differ in this program (tier efficiency,
history, exploration); headroom and coupling add nothing. `select` is the set that passes
the filters; `Before` is the order its sort leaves, best score first and equals as they are
configured, and `Best` and `Pick` take the first of that order, or the first the task has
not used. `Load` may miss rows, `Count` may fail, as the code passes over both; `RepairRound`
invokes the harness again without looking at its row or writing one. `due` and `seen` are
history variables: `Hear` sets `due` when the harness answers, not when somebody saves the
row, to the time it asked to be used again; `seen` is what an actor was owed of that
(`Owed`) when it loaded the rows it could.

### PlannerSession

The registry file, its lock, the bootstrap of the worktree root (intent, directory
by directory, alias), then per attempt the three producer operations, the worktree,
the spawn, the poll loop with its cancellation requests, and the terminal phase with
its drain. `platform` is what the build can prove about a process: pid and creation
token on Windows, less elsewhere.

### WorkspaceLedger

The lifecycle tables of one graph. `Walk` is the chain of revisions that capture goes
back along, as the least set that the predecessors do not lead out of. Callers hold the fence and take their
transactions in the code's order of check, read and write; legacy writers check
first and write later; the trigger is what stops them. The reader captures binding,
revision, generation and attempts one after the other and refuses a torn snapshot.
Of these operations the CLI calls those of provisional generations, operations and
driver records today; the others are called by tests, and are modelled as the
interface they offer.

### HarnessCapture

Calls (workers, probes, checks, plain commands) in threads of one process.
`slot`/`place` are the registry and who has the record out of it; `parts` the live
processes of a tree; `reading` the reader threads; `leaks` the handles an unrelated
child inherited on Windows. `Reserve`, `Claim`, `Spawn`, `WritePrompt` (for a harness that
gets its prompt by stdin) and `Install` start a worker; `Poll` and `Finish` collect it;
`WritePrompt` waits for as long as somebody has the pipe and does not read it, and a cancel
meanwhile finds a slot without a child. `CancelOwned` is the owner's cancellation with an observed empty
tree. The operating system's calls are external and may fail.

### CleanupJournal, DeliveryProof, WorkspaceInventory

In `CleanupJournal` the facts about a worktree are one of `Kinds`, a digest is the
facts it was computed from, and any number of `Appliers` run `apply_cleanup`:
preview and journal outside the fence (`Apply`, `Reconcile`), the try-lock
(`Acquire`), then per candidate revalidation with its intent or blocked row
(`Candidate`), `git worktree remove` (`Remove`) and the completed row (`Record`).
Git refuses a dirty or unlisted worktree, and may fail half-way.

`WorkspaceInventory` has where the facts come from: registry, ledger rows, git
listing and directory scan, each read at a moment of its own, merged by location,
classified, joined with git's answers, judged, and for `maintain` selected by the
outcomes of the runs. One directory may be several entries. `Combine` joins
what was observed of one location, whatever the order the sources came in. `DeliveryProof`
asks git about a receipt over a small commit graph; a question that fails is a reason, and
what a commit contains is the least set closed under parents.

### StoreSchema and DriverWatch

The schema is the set of objects each version brought; `odd` are objects that
somebody else made. Every process reads the version outside the transaction that
migrates from it. `DriverWatch` opens the store through it, registers drivers,
lets them beat, tick, die and be replaced, and has `status` read a frame of the run
before it reads the driver's row, as the code does.

## 3. Runs

| Run | Instance | What it shows |
|---|---|---|
| `run_chain` | two tasks, 2 after 1; gate for 1, a human for 2; 1 crash, 2 starts, 1 operator command, 3 attempt ids | order of dependencies (`DependenciesFirst`), only accepted merges and merges before Integrated (`BranchMatchesLog`), one CLI worker per task, honest reasons for stopping, refinement of `TaskLifecycle`, and that the driver stops unless a call keeps it or git refuses worktrees without end |
| `run_pane` | two independent tasks, one slot, a pane and a CLI harness, any number of refused worktrees, 1 crash, 2 starts, 3 attempt ids | late pane outcomes, fallback, `resume --retry` and refused worktrees keep the slots and the retries bounded and the driver's own log legal |
| `repair` | 4 atoms (one per severity that matters), 3 rounds, micro-repair, all faults | tree, prompt, budgets, and the verdict is about the head |
| `plan_gate` | two commands at a time beside a driver; a two-node, a one-node and a cyclic plan; prerequisite, follow-up and cyclic mutation | `PlanStaysLegal` (valid plans, legal log), `GateHolds` (only nodes accepted since they were last put up or declined start, nothing starts behind a shut gate, no accept skips the reopening), `OrderHolds` (prerequisites first, begun tasks keep their dependencies) |
| `landing` | two tasks of two deliverables, one restart, one crash, one git fault | `LandsAcceptedWork` (builds are closures, only accepted work lands), `RestartIsClean` (it can be repeated, no evidence is inherited, log and branch agree) |
| `routing` | two drivers, or a driver and a planner; two harnesses; 2 errors, 1 death, 1 resume; three instants of the clock | `QuotaIsKept` (what the harness asked for is in the row and is waited for), `CountedOnce` (counts and results differ by deaths and store errors at most) |
| `planner` | one planner on each platform, two side by side on Linux; two attempts each; one fault, one request | `CancelIsFinal` (true answers, no plan after a cancellation), `ProductionIsOwned` (provenance of the root, no retry beside a live attempt), `NobodyWaits` (every request answered, the command ends, unless invoke never returns) |
| `ledger` | two callers (symmetric) and a legacy writer; 2 revisions, generations and ids | `ReadsOneRevision` (snapshots belong together, the row is the current revision), `LegacyStaysOut` (no legacy write into a bound graph, scoped attempts stay, marks go by proof) |
| `harness` | two workers with one key; a worker and two probes over two permits; a worker, a check and a command; one native failure, one fork | `NothingEscapes` (bounded readers, no lost child, pipes stay in their tree), `OwnedCancelIsFinal` (true "applied", no signal to a reused number), `CallsEnd` (unless a prompt is never read) |
| `cleanup` | 2 worktrees, 2 appliers (symmetric), 2 digests, 3 applies, 1 crash, 1 outside change, git faults | fence, journal, uncommitted work, recovery from a crash |
| `inventory` | three directories, one outside the repository; five commits; two commands, one outside change, a window of two | `InventoryAgrees` (adoption and removal exclude each other), `RemovalIsOwned` (only owned clean worktrees go, and only as shown; maintain spares failed runs), `PassedMeansLanded` |
| `watch` | files of every version with two processes that open them; a driver, its replacement, a watch with and without timeout, a status, over three tasks | `MigrationIsSafe` (schema and version agree, an opened store is current, old runs are never driven), `ReadersAreTold` (the row is the newest driver's, watch agrees with the driver, a stuck node is explained), `HintIsSafe`, `WatchEnds` |

Each property of the newer modules is a conjunction of named parts that say one
thing together, the module's `TypeOK` among them; `PROJECT.json` has a mutation of
the code for the parts, so that none of them stands idle. `TypeOK` of `RepairSession`
and `CleanupJournal` is not in a run because it is proved.

Bounds. One crash is enough to leave every intermediate durable state behind, and
the starts, restarts and resumes after it meet that state again. Two tasks give
every pairing of a dependency or a competitor; two processes every pairing of a
stale read with a write. `MaxRetries` = 2 gives a first attempt and a fallback.
Three repair rounds are the default budget and the smallest in which a rollback is
followed by another edit. In `cleanup` a third apply meets the journal that a crashed
and a completed one left, and two digests let one plan overtake the other. Two
permits against three readers reach the limit that sixteen reach with seventeen. In
`inventory` a window of two is too small for three candidates. A cooldown of two half
seconds and three instants let it be stored truncated, be waited for and end. Where a
run has several casts of processes (`planner`, `harness`, `routing`, `watch`), each
cast has those that meet on one piece of state; the state of two casts is never
combined. Symmetry is used in `cleanup`, `plan_gate` and `ledger`, where the processes
are interchangeable and no property is temporal beyond one step.

`CHECK_DEADLOCK` is off where the system really stops: the driver idles, the session
is done, the commands are used up. Whether it stops when it should is what
`DriverStops`, `HonestIdle`, `NobodyWaits`, `CallsEnd` and `WatchEnds` say. The ledger
never stops, and its run checks for deadlock.

Fairness. `RunLoop`: weak fairness of the driver outside the phases of `Waits`
(`loop_until_idle` polls in a loop that nothing else blocks), and of the end of a worker the
driver tracks (the harness ends it at `task_timeout`). `Waits` are the calls another program
can hold up: `invoke`, whose prompt goes through a pipe, and the checks with their repair
rounds, whose output is read without a deadline. `PlannerSession`: the same of a planner
outside `invoke`, and of its worker. So `DriverStops` and `NobodyWaits` leave open that a
process stays in one such call for ever, and `DriverStops` also the driver that git refuses
a worktree infinitely often (§5); either exception is needed, as TLC finds a
counterexample without it.
`HarnessCapture`: weak fairness of each call's own thread, the write of the prompt apart,
and of a reader whose pipe
has closed; strong fairness of a worker's poll, because another call may hold its
record out of the registry again and again and the driver's loop polls for as long as
the attempt runs. `CallsEnd` excepts the call that is writing a prompt while a process has
the other end (`WritingPrompt`), and no other. `DriverWatch`: only of the watch itself,
which loops on a timer. Nothing is assumed of crashes, operators, other processes, or of
anyone starting a driver again.

## 4. Proofs

All theorems hold for every value of the constants that satisfies the named
assumptions: types and finiteness; positive budgets; dependencies inside the graph; drivers
that are not planners; at least one directory, three commits and one receipt for an
inventory to start from. Three kinds of assumption say more. `AcyclicAssumption` of `RunLoop` and `DriverWatch` and
`GraphAssumption` of `Landing` say that the plan is one `validate` accepts, because
nothing else is ever stored (`PlanTheorem` proves that of the plan's commands).
`InputsAssumption` of `PlanGate` says that plan files and mutations are made of nodes.
`HarnessAssumption` and `WatchAssumption` say that a call, or a process, is of one kind.
Each proof states its inductive invariant (`IInv`, `RoutingInv`, `PlannerInv`,
`InventoryInv`) before its steps; every one of them was also checked as an invariant of the
run of its module in TLC.

**RunLoop_proofs.** First `TypeCorrect`, `Refinement` (the folded log refines
`TaskLifecycle`) and `DependencyOrder`. The properties are not inductive: the driver
appends on a stale fold. The invariant adds `PcOK` (which program points have a
task and an attempt in hand), `Recorded` (a task without a record is Pending in
every fold, so the first record of a task is folded from Pending) and `Fresh` (what
a stale fold calls Integrated is Integrated, since nothing leaves that state). Each
action is shown to do a `LogStep`: nothing, or one append of a pair of the table
whose guard on dependencies was read from a fold that is right about Integrated.

Then `Knowledge`, what the driver relies on between two of its effects: while no operator
has appended, its fold is exact (`Exact`), which is `LogLegal`; rows, ids and worktrees
belong together (`RowIds`, `Dispatched`); the attempts already made and the one in hand
stay in the budget (`Budget`), which is `RetryTheorem`; the latest attempt of an Accepted
task has passed and was approved, and the merge in hand is of such a one (`Verdicts`),
which is `BranchTheorem`; a live worker with a saved pid is of an attempt the fold still
calls running, or of a pane (`Workers`), which is `WorkerTheorem`; and a dispatch has a
slot that nobody else of the tick takes (`Slots`), which is `SlotTheorem`. Every action is
reduced to an effect on the log and one on rows and workers, and the parts are proved for
the effects. `IdleTheorem` follows the tests of `loop_until_idle`, and needs the plan to
be acyclic: a cycle of Pending tasks would make it stop with a reason that is not so.

**Attempt_proofs, the repair session.** `RepairTypeCorrect`, `TreeTheorem`, `PromptTheorem`,
`BudgetTheorem`, and `VerdictTheorem`, which says of every passing check that it ran
at the head of the branch, and on a clean tree unless it is an orphan's whose commit
was refused. `Rounds` ties the number of observations and harness rounds to the
phase, which gives the budget; `Known` says that the record of the tree at
`current_revision` is in the history, which gives the prompt after a rollback or an
undone edit.

**Attempt_proofs, routing.** `QuotaKept`, `NoneCountedTwice`. `Promises` relates a quota row
to the time the harness asked for, less the half second that `save_quota` cuts off. It holds
of the table while nobody is taking an answer down (`Kept`), because whoever takes one down
opens the row no earlier than the answer came (`Answered`), and of two at the same time each
saves at least what the first of them asks; and it holds of the rows an actor could load for
as long as it may choose by them (`Loaded`). Since a candidate passes `is_available` on its own snapshot,
nobody dispatches or invokes before the end it was owed (`Waited`). That `select` gives a
candidate of the pool at all rests on `BestIsOne`: scores are integers whatever was counted,
score and place order the candidates totally, and a finite set has a first element in such
an order (`FirstOfOrder`). For `CountedOnce` a driver is among those
that owe a log record exactly between its count and that record, so a step moves one
driver into or out of the set that the property counts, and the difference of counts and
results grows only with a death or a store error (`EvenStep`, `DyingIsEven`). `Retried` ties
the attempt rows to `max_retries`.

**CleanupJournal_proofs.** `CleanupTypeCorrect` (with the exact extent of the
fence), `FenceTheorem`, `JournalTheorem`, `DirtTheorem`. `Knows` says what each
applier may rely on: its digest was shown, the intent is journaled before the
removal, and, unless an outsider was at work, what it is about to call completed is
gone. Mutual exclusion by the fence is what keeps one applier's knowledge true
while another one removes. `RecoveryTheorem` has a second invariant (`Steady`), under
the premise of the property (one plan, no overlap, no fault, no outsider): the disk is as
the digest says but for removals the journal tells of, and each candidate of a later apply
is one of those or still what the digest says.

**Planning_proofs, the plan gate.** `PlanTheorem`, `GateTheorem`, `OrderTheorem`. Whatever a command has
read, it holds a row that was valid when it was read and has made the checks of its
program point (`Cmds`), so no interleaving stores an invalid plan; the lemmas about
`assign_tiers` and the two mutations say what they keep. The rest holds while no write
overlapped: then what a tick has read is still what the row and the log say, and nothing
of an accepted plan is held back (`Untouched`), so what starts was accepted after it was last
put up or declined, starts with the gate open, and waits for its prerequisites.

**HarnessCapture_proofs.** `HeldTheorem`, `OwnedCancelTheorem`. `Knows` says, from where the
record of a call is, where its thread is and what of its tree has been tried: a child is
only let go of when its leader is dead or its owner object kills it. `Permits` bounds the
holders by `CAPTURE_SLOTS`: the number that is in use is that of the calls which hold one,
so a step that adds no holder keeps the bound, `Reserve` adds one below it, and the readers
are among the holders.

**DriverWatch_proofs.** `MigrationTheorem`, `ReadersTheorem`, `HintTheorem`. `Schema`: a
process migrates from a version that is not newer than the one in the file, and finds
objects that a quicker one has left. `Pidded`: a driver at work that is not the newest
bears another pid than the newest, although pids come again, so it does not match the row.
`RestAgrees`, `RestExplained`: in a plan without cycles a chain of waiting nodes ends at
one that is not waiting, which is why watch ends where the driver does, and why `status`
has a reason for every stuck node.

**Planning_proofs, the planner session.** `CancelTheorem`, `ProductionTheorem`. `Exclusive`: the planner
beyond the lock holds the fence, and it is the only one there. `Rooted`: a half-made root
has its intent. `PlannerOK` and `AttemptOK` are the state of one planner and of one
attempt, by the point of the command; a step touches one planner, its current attempt and
the fence, so one lemma (`OthersStay`) keeps those of all the others, and each action is
left with its own.

**Landing_proofs.** `LandingTheorem`, `RestartTheorem`. The driver and the operator's
command meet in branches and log, and each writes its own part; one lemma says what keeps
the invariant under the steps of the command, one what keeps the builds under those of the
driver. `Branches`: a branch is the base of its row and at most the row's own commit; that
commit is new, because every commit anywhere is of an earlier restart or of a row that is
there (`Stamped`), so the commits after the base are the task's alone. With `Builds` the
tasks in a deliverable under way are those of the closure that are no longer to be picked.
`Wiped` is what a restart has removed so far, and `Agreed` what the log and the
integrate branch say of each other outside it: the merge of the latest attempt is the only
one a task has there. `ClosureFacts` proves the closure from its definition as a least
set, the form the walk of `deliverable_closure` was given to be reasoned about.

**Workspace_proofs, the ledger.** `OneRevision`, `LegacyOut`. `Rooted`: every set of
revisions has one whose predecessor is not in it, so the chain from any revision ends.
`Refers`: what is scoped, or written by an event, names a generation that is there.
`Transacts`: whoever is inside a transaction holds the fence, so what an activation read of
the binding is still so when it writes. `Executed` is the core: in the active generation the
chain from the current revision reaches the initial one, and the revision of every scoped
attempt and event lies on it and was accepted. A new revision is appended after the current
one, which makes the chain longer and takes nothing from it (`WalkStep`, `ExecutedFollow`).
The action property rests on what any step may do to a row, an event or a mark
(`AttemptsChange`, `EventsChange`, `MarksChange`), a legacy write whose check is old
included.

**Workspace_proofs, inventory and delivery.** `PreviewsAgree`, `OwnedRemovals`,
`PassedLanded`. `Shaped`: the entries of an observation differ in their key, because
`merge` groups by location and `Combine` keeps it. `Promised`: an apply works on facts the
operator was shown, or on the plan of what it read. `Chosen`: what is left to remove comes
from there, and what is about to be removed has just been observed to be `Removable`, owned,
clean and contained in HEAD, unless somebody has changed something since; that the classification
leads back to a row of the ledger that names the directory is `RemovableFacts`. For `PassedLanded` the walk through git's answers is taken apart into the reasons
each landing strategy can give; an empty list of reasons leaves containment.

Only model-checked. Everything temporal under fairness (`DriverStops`, `NobodyWaits`,
`CallsEnd`, `WatchEnds`) is beyond the prover; every other property of the runs is the
statement of a theorem. What a recursive function computes for every input is not proved
either, because the induction theorems take an operator: where a proof needed a closure
(deliverables, ancestors, the chain of revisions) the model defines it as a least set, and
where it needed a first element it uses that the naturals are well founded
(`LeastNatural`). That RunLoop's random verdict is the one `RepairSession` computes is by
reading, not by proof.

## 5. Where the code and the repository's words differ

Met while modelling; the models follow the code.

- **Cancel beside a tick.** `append` inserts without comparing with the log, so a
  cancel or accept between a tick's read and its append leaves a log that
  `replay_tasks` refuses for ever, while docs/architecture/r1-closed-loop-design.md:484
  sets WAL "so `status` / `inspect` / `cancel` can run concurrently with `run`".
  `DriverAloneKeepsLogLegal` and `QuietLogIsLegal` (part of `PlanStaysLegal`) say how far
  legality goes.
- **Cancelled and merged.** A cancel between the merge and its record
  (run_loop.rs:1346) leaves a Cancelled task in the integrate branch;
  docs/architecture/execution-lifecycle.md:39 says "no partial integration".
- **Leftover worktree, reused id.** A crash between worktree and row leaves a worktree
  that every retry with the same id refuses (run_loop.rs:1444);
  docs/architecture/modern-modular-architecture.md:94 says "`meshloop resume --retry`
  creates a new attempt and a clean worktree". `NextWorktreeFree` excepts that case
  (`orphaned`).
- **Refused worktrees.** `maybe_fallback` counts attempt rows, and a refused worktree
  leaves none: where git refuses every one the driver retries without end, which is the
  last exception of `DriverStops`, and `RetryBudget` does not see those retries;
  r1-closed-loop-design.md:623 says "`max_retries` is **maximum attempts per task**".
- **Declined plan.** docs/architecture/execution-lifecycle.md:66 says "A declined plan must
  `--adjust` before it can be accepted", but every `review-plan` stages its plan first, which
  reopens a declined row (run_loop.rs:745-751), and `mutate-plan --require-review` reopens it
  too; the next accept (run_loop.rs:772-796) is good without an adjustment. `GateHolds` says what is left: no accept
  takes a declined row as it stands, and nothing starts before a later accept.
- **Prompt by stdin.** `invoke` writes the prompt with a blocking `write_all`
  (harness.rs:126-141, 523-528) before the attempt's clock starts (harness.rs:535). A
  worker that does not read what exceeds the pipe keeps the call, the driver and a permit for
  ever; a cancel in that time takes the slot and leaves the process. r1-closed-loop-design.md:93
  says "Retries and timeout enforced".
- **Orphan's commit.** `finish_orphaned_verification` drops the error of `commit_all`
  and checks uncommitted edits; r1-closed-loop-design.md:327 says "If the repo rejects
  the commit for other reasons, verification fails (recorded)".
- **Overlapping applies.** `apply_cleanup` reads the journal before the fence and not
  again, so the second of two applies of one digest blocks the plan for what the
  first removed; docs/architecture/adr/0033-workspace-lifecycle.md:59 says "cleanup's
  own authorized changes do not invalidate its remaining plan".
- **Review gate.** A tick that has read the plan state goes on with a graph staged
  after it, and an acceptance can be overwritten by a stale `stage_plan`;
  execution-lifecycle.md says "No node reaches `ready` while its graph is still
  `awaiting-plan-review` or `plan-declined`". `ReviewedNodesOnly` holds without
  overlap.
- **Partial landing.** `integrate_deliverable_into` lands an existing worktree without
  building it again (run_loop.rs:2794), also one whose build died half-way;
  r1-closed-loop-design.md says "Rebuilding replaces the previous build of that tag".
- **No candidate.** A ready node without a candidate ends the loop beside a live
  worker, where ADR 0024 (line 35) has it wait.
- **Check runner.** check.rs joins its readers without a deadline, so a background
  process that keeps a pipe outlasts the check's timeout of r1-closed-loop-design.md:338.
- **Reaping.** A worker that exited by itself is reaped before its tree is signalled;
  ADR 0025 (line 36) has the tree killed "before reaping the parent" on errors.
- **Cooldown.** docs/architecture/measurement-and-benchmark-spec.md:52 counts
  "Invocations attempted against harnesses under active cooldown (**Invariant: 0**)":
  an actor that loaded the rows before another recorded the exhaustion still invokes,
  and a second is truncated. `HalfOpen` is never reached: `refresh` and `on_success`
  have no caller. Not recorded at all are an exhaustion seen by reattach or in a round of
  repair (run_loop.rs:1665-1672) and one whose driver dies over it; a quota row that cannot be
  loaded is passed over (run_loop.rs:3095) and the harness taken for available; and of two
  drivers that record at the same time the earlier answer may overwrite the later
  (run_loop.rs:3112-3119).
- **Feedback.** The error of `record_outcome` is dropped (run_loop.rs:1518, 2136) while the
  result is logged, and a driver that dies between the two counts the result again when it
  is resumed: the counts routing learns from are off by as much, which is what
  `CountedOnce` allows.
- **A worker without a saved pid.** A driver that dies between `invoke` and `save_pid`
  (run_loop.rs:1541) leaves a worker nobody can find, and `resume` may start a second
  beside it. `OneWorkerPerTask` speaks of workers whose pid was saved.
- **Failed runs.** docs/workspace-lifecycle.md:91 says "Failed and cancelled runs are
  retained"; `maintain` reads the outcomes once, so a run that fails afterwards is not.
- **Watch.** cli/src/main.rs:1868 says `watch_exit` "Returns `None` while the run is
  still moving", but a failure that the driver will retry in its next tick ends the
  watch. A watch without a timeout never ends beside a driver that died or ended
  without a capable candidate; and a driver that waits for a human with a cancelled
  node exits 0 while watch exits 1.
- **Regressed round.** After a rollback the next comparison is with the regressed round
  and not with the restored one, so with more than the default three rounds a tree
  worse than one already seen may count as progress.
- **One observation more.** With a micro-repair the session makes one observation more
  than `max_rounds`, because a rejected edit is observed without obeying a Stop; the
  harness budget holds all the same.

- **A pane beside its retry.** run_loop.rs:2920 leaves a failed pane live, "ledger Failed;
  Herdr pane still live — meshloop resume waits and harvests", but `resume --retry`
  (`retry_failed`, run_loop.rs:2520) asks only for the budget and starts a second worker
  beside it. `OneWorkerPerTask` speaks of CLI workers.
- **A mutation on a re-staged plan.** `mutate_plan` loads the row, then the graph: when the
  row is saved in between, and saved back, it works on a graph of another version and no
  version comparison can tell. And `stage_plan` may stage a plan without a task that has
  begun. `overlap` counts the first, and `BegunKeepsItsDeps` speaks of the tasks the stored
  plan has; both came out of the proof of `OrderTheorem`.

As documented, and visible in the models: a store older than version 7 is refused by
every command except those that migrate (runtime-design.md:63); the way from version 6
to 8 is two transactions (workspace-lifecycle.md:80); a leftover
`.meshloop-layout-probe` refuses every later worktree (workspace-lifecycle.md:36).

## 6. Plan

Done: all modules above, and a theorem for every property of a run that is not about
fairness. Left:

1. Refinements between the modules: `RepairSession` as the source of the verdict that
   `RunLoop` draws, and the driver of `Landing` as an abstraction of the one in `RunLoop`.
2. The scoped operations of the ledger that no command calls yet (`update_scoped_attempt`,
   `record_scoped_evidence`, `promote_provisional`), once one does.

## 7. Not modelled

- Parsing, formatting, prompts, reports, arguments and the MCP wire format: no state a
  property could be about. `inspect`, `export` and the session bundle only read.
- `update_scoped_attempt`, `record_scoped_evidence`, `promote_provisional` and
  `insert_artifacts` of the ledger, `record_transition_and_attempt` of the store,
  `dispatch_with_fallback`, `execute_wave` and `persist_reviews`: no command calls them.
- Model review, the risk ratchet and the tier assigner of the decision client: they
  answer over a network and enter as inputs.
- Two drivers of one graph at once: nothing keeps the second away but the operator, and
  runtime-design.md asks for one.
- A declined plan as seen by `watch`, which polls on beside it (cli/src/main.rs:1890). Transient git errors in
  `DeliveryProof` beyond the questions listed there: the code fails closed on them.
- Reuse of a pid between two processes of the run loop, and `ended_at` as an effect of
  its own.
- The context index and its caches (text and floating-point scores), telemetry and
  redaction (best effort, read by no decision), `xtask` and the benches, and the
  JavaScript process framework under `lib/` and `adapters/`, which is not part of the
  runtime.
