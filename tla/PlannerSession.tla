--------------------------- MODULE PlannerSession ---------------------------
(***************************************************************************)
(* `meshloop plan` from the repository fence to the plan: the registry     *)
(* file that is the fence, the bootstrap of the worktree root, the         *)
(* decomposition attempts with their owners, intents and drivers, and the  *)
(* cancellation requests other processes put into the ledger.              *)
(*                                                                         *)
(* One planner is one invocation of the command.  Each action is one       *)
(* durable effect, so a crash falls between any two.                       *)
(***************************************************************************)
EXTENDS Naturals, FiniteSets, FiniteSetsExt

CONSTANTS Planners,     \* invocations of `meshloop plan`
          Casts,        \* bound: which of them take part, and on which platforms
          MaxRetries,   \* limits.max_retries: attempts of one invocation
          Depth,        \* missing components of the worktree root
          MaxFaults,    \* bound on the deaths, failed writes and failed collections
          MaxRequests,  \* bound on the cancellation requests
          NoOne         \* nobody: the holder of a free fence

ASSUME SessionAssumption ==
    /\ MaxRetries \in Nat \ {0}
    /\ Depth \in Nat \ {0}
    /\ MaxFaults \in Nat /\ MaxRequests \in Nat
    /\ NoOne \notin Planners
    /\ Casts \subseteq [who : SUBSET Planners, on : SUBSET {"windows", "linux", "other"}]

VARIABLES
    platform,   \* what the build can prove about its own and its child's process
    registry,   \* the registry file: absent, empty, or holding a manifest
    fence,      \* the planner that holds the lock on the registry file
    dirs,       \* components of the worktree root that exist
    pending,    \* components that existed when the bootstrap intent was written
    rooted,     \* the root's alias is in the manifest
    ledger,     \* which of repository and root the ledger has a row for
    pl,         \* per planner: program counter, attempt and locals of the poll loop
    op,         \* per attempt: its three producer operations
    worktree,   \* attempts whose planning worktree exists
    worker,     \* per attempt: the harness process
    driver,     \* per attempt: phase of its driver record
    request,    \* per attempt: status of the cancellation request for its driver
    faults

disk == <<registry, dirs, pending, rooted, ledger>>
work == <<op, worktree, worker, driver>>
plannerVars == <<platform, registry, fence, dirs, pending, rooted, ledger, pl, op, worktree,
          worker, driver, request, faults>>

Attempts == Planners \X (1..MaxRetries)
NoIntent == Depth

Platforms == {"windows", "linux", "other"}
Opening   == {"off", "opened", "locked", "bind", "root", "making", "index"}
Producing == {"claim", "add", "added", "spawn", "output", "driver", "invoke",
              "running", "poll", "cancel", "ack", "collect", "unwind",
              "terminal", "drain", "preserve", "parse"}
OpStates  == {"none", "pending", "completed", "blocked"}
Workers   == {"none", "live", "plan", "rejected", "nonzero", "killed"}
Phases    == {"none", "Starting", "Running", "Blocked", "Exited"}
Statuses  == {"none", "Pending", "Applied", "Blocked", "Stale"}

PlannerInit ==
    /\ registry = "absent" /\ fence = NoOne
    /\ dirs \in {0, Depth} /\ pending = NoIntent /\ rooted = FALSE /\ ledger = {}
    /\ \E cast \in Casts :
          /\ platform \in cast.on
          /\ pl = [p \in Planners |-> [pc |-> IF p \in cast.who THEN "off" ELSE "refused", n |-> 0,
                                        created |-> FALSE, tried |-> FALSE, blocked |-> FALSE,
                                        result |-> "none"]]
    /\ op = [a \in Attempts |-> [worktree |-> "none", spawn |-> "none", plan |-> "none"]]
    /\ worktree = {}
    /\ worker = [a \in Attempts |-> "none"]
    /\ driver = [a \in Attempts |-> "none"]
    /\ request = [a \in Attempts |-> "none"]
    /\ faults = 0

At(p, pc) == pl[p].pc = pc
Go(p, pc) == pl' = [pl EXCEPT ![p].pc = pc]
This(p) == <<p, pl[p].n>>

\* A planner at another point, without what it knew.
Fresh(p, pc, n) ==
    [pl EXCEPT ![p] = [pc |-> pc, n |-> n, created |-> FALSE, tried |-> FALSE,
                       blocked |-> FALSE, result |-> "none"]]

\* The lease is dropped with the command's stack frame; the lock goes with it.
Leaves(p, how) ==
    /\ pl' = Fresh(p, how, pl[p].n)
    /\ fence' = IF fence = p THEN NoOne ELSE fence

-----------------------------------------------------------------------------
(* The fence: GitRepositoryIdentity::acquire.                              *)

\* create_new makes the registry file; who finds it there opens it.
OpenRegistry(p) ==
    /\ At(p, "off")
    /\ registry' = IF registry = "absent" THEN "empty" ELSE registry
    /\ pl' = [pl EXCEPT ![p].pc = "opened", ![p].created = (registry = "absent")]
    /\ UNCHANGED <<platform, fence, dirs, pending, rooted, ledger, work, request, faults>>

\* Mutant: the advisory lock is not looked at.
LockFreeIgnored == TRUE
\* try_lock: the fence is taken or the command ends; nobody waits for it.
LockFree == fence = NoOne

Lock(p) ==
    /\ At(p, "opened")
    /\ \/ /\ LockFree
          /\ fence' = p
          /\ Go(p, "locked")
       \/ /\ ~LockFree
          /\ Leaves(p, "refused")
    /\ UNCHANGED <<platform, disk, work, request, faults>>

\* The creator writes the manifest, everybody else reads it and refuses an empty file.
Manifest(p) ==
    /\ At(p, "locked")
    /\ \/ /\ pl[p].created
          /\ registry' = "manifest"
          /\ Go(p, "bind") /\ UNCHANGED fence
       \/ /\ ~pl[p].created
          /\ registry = "manifest"
          /\ Go(p, "bind") /\ UNCHANGED <<registry, fence>>
       \/ /\ ~pl[p].created
          /\ registry = "empty"
          /\ Leaves(p, "refused") /\ UNCHANGED registry
    /\ UNCHANGED <<platform, dirs, pending, rooted, ledger, work, request, faults>>

\* bind_repository: the ledger records the identity of the only repository it serves.
BindRepository(p) ==
    /\ At(p, "bind")
    /\ ledger' = ledger \cup {"repository"}
    /\ Go(p, "root")
    /\ UNCHANGED <<platform, registry, fence, dirs, pending, rooted, work, request, faults>>

\* register_root refuses an alias whose bootstrap was begun and not finished.
Unfinished == pending # NoIntent /\ ~rooted

RegisterRoot(p) ==
    /\ At(p, "root") /\ dirs = Depth
    /\ \/ /\ ~Unfinished
          /\ rooted' = TRUE
          /\ Go(p, "index") /\ UNCHANGED fence
       \/ /\ Unfinished
          /\ Leaves(p, "refused") /\ UNCHANGED rooted
    /\ UNCHANGED <<platform, registry, dirs, pending, ledger, work, request, faults>>

\* Mutant: the component is created before its intent is written.
BootstrapIntentLate(p) ==
    /\ At(p, "root") /\ dirs < Depth
    /\ Go(p, "making")
    /\ UNCHANGED <<platform, registry, fence, dirs, pending, rooted, ledger, work, request,
                   faults>>
\* bootstrap_root persists the missing suffix before it creates the first component; an
\* intent that names another ancestor is somebody's unfinished work and is not continued.
BootstrapIntent(p) ==
    /\ At(p, "root") /\ dirs < Depth
    /\ \/ /\ pending \in {NoIntent, dirs} /\ ~rooted
          /\ pending' = dirs
          /\ Go(p, "making") /\ UNCHANGED fence
       \/ /\ pending \notin {NoIntent, dirs} \/ rooted
          /\ Leaves(p, "refused") /\ UNCHANGED pending
    /\ UNCHANGED <<platform, registry, dirs, rooted, ledger, work, request, faults>>

CreateDir(p) ==
    /\ At(p, "making") /\ dirs < Depth
    /\ dirs' = dirs + 1
    /\ UNCHANGED <<platform, registry, fence, pending, rooted, ledger, pl, work, request, faults>>

RegisterCreatedRoot(p) ==
    /\ At(p, "making") /\ dirs = Depth
    /\ rooted' = TRUE
    /\ Go(p, "index")
    /\ UNCHANGED <<platform, registry, fence, dirs, pending, ledger, work, request, faults>>

\* The ledger's own row for the root; then the first attempt begins.
IndexRoot(p) ==
    /\ At(p, "index")
    /\ ledger' = ledger \cup {"root"}
    /\ pl' = [pl EXCEPT ![p].pc = "claim", ![p].n = 1]
    /\ UNCHANGED <<platform, registry, fence, dirs, pending, rooted, work, request, faults>>

Open(p) ==
    \/ OpenRegistry(p) \/ Lock(p) \/ Manifest(p) \/ BindRepository(p) \/ RegisterRoot(p)
    \/ BootstrapIntent(p) \/ CreateDir(p) \/ RegisterCreatedRoot(p) \/ IndexRoot(p)

-----------------------------------------------------------------------------
(* One attempt of decompose_owned up to the launch of the harness.         *)

\* What an attempt leaves alone while it prepares its launch.
Elsewhere == <<platform, disk, request, faults>>

\* One pending operation per target, so the spawn intent waits for the worktree's step;
\* the plan's target is the output's own owner.
operation(a, kind) == kind = "spawn" => op[a].worktree # "pending"
Intend(a, kind) == operation(a, kind) /\ op' = [op EXCEPT ![a][kind] = "pending"]

\* Only a pending operation takes a step; the planner's have one step each.
append_operation_step(a, kind) == op[a][kind] = "pending"
Step(a, kind, state) == append_operation_step(a, kind) /\ op' = [op EXCEPT ![a][kind] = state]

\* create_provisional gives every attempt an owner, a path and a branch of its own, under
\* a root that the registry and the ledger know.
create_provisional == rooted /\ "root" \in ledger

ClaimWorktree(p) ==
    /\ At(p, "claim") /\ create_provisional
    /\ Intend(This(p), "worktree")
    /\ Go(p, "add")
    /\ UNCHANGED <<Elsewhere, fence, worktree, worker, driver>>

\* A location is a path only under a registered root.
resolve == rooted

\* add_worktree_from; a refusal leaves the intent without a step.
AddWorktree(p) ==
    /\ At(p, "add") /\ resolve
    /\ \/ /\ worktree' = worktree \cup {This(p)}
          /\ Go(p, "added")
          /\ UNCHANGED <<fence, faults>>
       \/ /\ faults < MaxFaults
          /\ faults' = faults + 1
          /\ Leaves(p, "failed")
          /\ UNCHANGED worktree
    /\ UNCHANGED <<platform, disk, request, op, worker, driver>>

WorktreeAdded(p) ==
    /\ At(p, "added")
    /\ Step(This(p), "worktree", "completed")
    /\ Go(p, "spawn")
    /\ UNCHANGED <<Elsewhere, fence, worktree, worker, driver>>

IntendSpawn(p) ==
    /\ At(p, "spawn")
    /\ Intend(This(p), "spawn")
    /\ Go(p, "output")
    /\ UNCHANGED <<Elsewhere, fence, worktree, worker, driver>>

IntendPlan(p) ==
    /\ At(p, "output")
    /\ Intend(This(p), "plan")
    /\ Go(p, "driver")
    /\ UNCHANGED <<Elsewhere, fence, worktree, worker, driver>>

\* A platform that cannot name its own process offers no cancellation.
Controlled == platform # "other"

\* A driver at work has a process that can be named.
validate_driver(phase) == phase \in {"Starting", "Running"} => Controlled

RegisterDriver(p) ==
    /\ At(p, "driver")
    /\ \E phase \in {"Starting", "Blocked"} :
          /\ validate_driver(phase) /\ (phase = "Blocked" => ~Controlled)
          /\ driver' = [driver EXCEPT ![This(p)] = phase]
    /\ Go(p, "invoke")
    /\ UNCHANGED <<Elsewhere, fence, op, worktree, worker>>

Invoke(p) ==
    /\ At(p, "invoke")
    /\ \/ /\ worker' = [worker EXCEPT ![This(p)] = "live"]
          /\ Go(p, IF Controlled THEN "running" ELSE "collect")
          /\ UNCHANGED faults
       \/ /\ faults < MaxFaults
          /\ faults' = faults + 1
          /\ pl' = [pl EXCEPT ![p].pc = "terminal", ![p].result = "error"]
          /\ UNCHANGED worker
    /\ UNCHANGED <<platform, disk, request, fence, op, worktree, driver>>

Prepare(p) ==
    \/ ClaimWorktree(p) \/ AddWorktree(p) \/ WorktreeAdded(p) \/ IntendSpawn(p)
    \/ IntendPlan(p) \/ RegisterDriver(p) \/ Invoke(p)

-----------------------------------------------------------------------------
(* collect_with_driver: the poll loop between launch and terminal phase.   *)

\* A ledger write of the loop fails: the loop is left with an error.
LoopFails(p) ==
    /\ pl[p].pc \in {"running", "poll", "ack"}
    /\ faults < MaxFaults
    /\ faults' = faults + 1
    /\ pl' = [pl EXCEPT ![p].pc = "unwind", ![p].result = "error"]
    /\ UNCHANGED <<platform, disk, fence, work, request>>

MarkRunning(p) ==
    /\ At(p, "running")
    /\ driver' = [driver EXCEPT ![This(p)] = "Running"]
    /\ Go(p, "poll")
    /\ UNCHANGED <<Elsewhere, fence, op, worktree, worker>>

cancellation_requests(a) == request[a] = "Pending"

\* What is pending when the loop comes round.
Poll(p) ==
    /\ At(p, "poll")
    /\ Go(p, IF cancellation_requests(This(p)) THEN "cancel" ELSE "collect")
    /\ UNCHANGED <<Elsewhere, fence, work>>

\* Mutant: the direct child's exit is taken for the exit of the whole tree.
CancelOwnedUnproved(a, proved) ==
    UNCHANGED worker
\* cancel_owned kills the tree it retains.  Only the Windows job can prove that the tree
\* is gone; elsewhere the kill is attempted and reported as unproved.
CancelOwned(a, proved) ==
    /\ proved => platform = "windows"
    /\ worker' = [worker EXCEPT ![a] = IF @ = "live" THEN "killed" ELSE @]

\* A cancellation that proves nothing may also have killed nothing.
Cancel(p) ==
    /\ At(p, "cancel")
    /\ \E proved \in BOOLEAN :
          /\ \/ CancelOwned(This(p), proved)
             \/ ~proved /\ UNCHANGED worker
          /\ pl' = [pl EXCEPT ![p].pc = "ack", ![p].tried = TRUE,
                              ![p].result = IF proved THEN "cancelled" ELSE "none"]
    /\ UNCHANGED <<Elsewhere, fence, op, worktree, driver>>

\* acknowledge_cancellation: only this commit makes the proof an answer.
Acknowledge(p) ==
    /\ At(p, "ack")
    /\ request' = [request EXCEPT ![This(p)] =
                      IF pl[p].result = "cancelled" THEN "Applied" ELSE "Blocked"]
    /\ pl' = [pl EXCEPT ![p].pc = IF pl[p].result = "cancelled" THEN "terminal" ELSE "collect",
                        ![p].blocked = (pl[p].result # "cancelled")]
    /\ UNCHANGED <<platform, disk, fence, work, faults>>

\* Mutant: a Blocked answer is forgotten when the output arrives.
OutcomeAnyway(p) == "outcome"

\* try_collect: an outcome, nothing yet (a heartbeat is written and the loop goes
\* on), or a fault (the attempt's deadline is one) that kills what it retains.  An
\* outcome after a Blocked answer is not used.
Outcome(p) == IF pl[p].blocked THEN "error" ELSE "outcome"

\* Mutant: a worker that was killed never counts as finished.
DoneByItself(a) == worker[a] \in {"plan", "rejected", "nonzero"}
\* The leader has exited and both readers are at their end.
Done(a) == worker[a] # "live"

Collect(p) ==
    /\ At(p, "collect")
    /\ \/ /\ Done(This(p))
          /\ pl' = [pl EXCEPT ![p].pc = "terminal", ![p].result = Outcome(p)]
          /\ UNCHANGED <<worker, faults>>
       \/ /\ ~Done(This(p)) /\ Controlled
          /\ Go(p, "poll")
          /\ UNCHANGED <<worker, faults>>
       \/ /\ faults < MaxFaults
          /\ faults' = faults + 1
          /\ worker' = [worker EXCEPT ![This(p)] = IF @ = "live" THEN "killed" ELSE @]
          /\ pl' = [pl EXCEPT ![p].pc = "unwind", ![p].result = "error"]
    /\ UNCHANGED <<platform, disk, request, fence, op, worktree, driver>>

\* After an error the retained tree is killed once, without any claim about the result.
Unwind(p) ==
    /\ At(p, "unwind")
    /\ \/ /\ ~pl[p].tried
          /\ \E proved \in BOOLEAN : CancelOwned(This(p), proved)
       \/ UNCHANGED worker
    /\ Go(p, "terminal")
    /\ UNCHANGED <<Elsewhere, fence, op, worktree, driver>>

\* The terminal phase is published before the requests that came too late are answered.
Terminal(p) ==
    /\ At(p, "terminal")
    /\ \/ /\ driver' = [driver EXCEPT ![This(p)] =
                            IF pl[p].result \in {"outcome", "cancelled"} THEN "Exited" ELSE "Blocked"]
          /\ \/ pl[p].result = "outcome" /\ Go(p, "drain") /\ UNCHANGED fence
             \/ pl[p].result # "outcome" /\ Leaves(p, "failed")
          /\ UNCHANGED faults
       \/ /\ faults < MaxFaults
          /\ faults' = faults + 1
          /\ Leaves(p, "failed")
          /\ UNCHANGED driver
    /\ UNCHANGED <<platform, disk, request, op, worktree, worker>>

\* Mutant: completion answers the requests as if they had been carried out.
DrainForgotten(p) ==
    /\ At(p, "drain")
    /\ Go(p, "preserve")
    /\ UNCHANGED <<platform, disk, fence, work, request, faults>>
\* Requests committed before the terminal phase are answered Stale, never Applied.
Drain(p) ==
    /\ At(p, "drain")
    /\ request' = [request EXCEPT ![This(p)] =
                      IF cancellation_requests(This(p)) THEN "Stale" ELSE @]
    /\ Go(p, "preserve")
    /\ UNCHANGED <<platform, disk, fence, work, faults>>

Control(p) ==
    \/ LoopFails(p) \/ MarkRunning(p) \/ Poll(p) \/ Cancel(p) \/ Acknowledge(p) \/ Collect(p)
    \/ Unwind(p) \/ Terminal(p) \/ Drain(p)

-----------------------------------------------------------------------------
(* After the collection: keep the output, close the operations, retry.     *)

\* The worker's own plan file wins over its captured output; then the spawn has its step.
Spawned(p) ==
    /\ At(p, "preserve")
    /\ Step(This(p), "spawn", "completed")
    /\ Go(p, "parse")
    /\ UNCHANGED <<Elsewhere, fence, worktree, worker, driver>>

\* Mutant: an attempt that ended without an exit status of zero is retried as well.
MayRetryAny(p) == pl[p].n <= MaxRetries
\* A valid graph ends the command; a rejected one is retried while attempts remain; a
\* worker that failed or was killed is not retried.
MayRetry(p) == worker[This(p)] = "rejected" /\ pl[p].n < MaxRetries

Parse(p) ==
    /\ At(p, "parse")
    /\ \/ /\ worker[This(p)] = "plan"
          /\ Step(This(p), "plan", "completed")
          /\ Leaves(p, "planned")
       \/ /\ worker[This(p)] # "plan" /\ ~MayRetry(p)
          /\ Step(This(p), "plan", "blocked")
          /\ Leaves(p, "failed")
       \/ /\ worker[This(p)] # "plan" /\ MayRetry(p)
          /\ Step(This(p), "plan", "blocked")
          /\ pl' = Fresh(p, "claim", pl[p].n + 1)
          /\ UNCHANGED fence
    /\ UNCHANGED <<Elsewhere, worktree, worker, driver>>

\* A write outside the loop fails, or the fence does not validate: the attempt's intents
\* stay without their steps and the command ends.
WriteFails(p) ==
    /\ pl[p].pc \in {"claim", "added", "spawn", "output", "driver", "drain", "preserve",
                     "parse"}
    /\ faults < MaxFaults
    /\ faults' = faults + 1
    /\ Leaves(p, "failed")
    /\ UNCHANGED <<platform, disk, work, request>>

Finishing(p) == Spawned(p) \/ Parse(p) \/ WriteFails(p)

-----------------------------------------------------------------------------
(* The world around a planner.                                             *)

\* The harness process ends by itself.
WorkerEnds(a) ==
    /\ worker[a] = "live"
    /\ \E end \in {"plan", "rejected", "nonzero"} : worker' = [worker EXCEPT ![a] = end]
    /\ UNCHANGED <<Elsewhere, fence, pl, op, worktree, driver>>

\* The planner dies: its lock goes at once, and on Windows its job with the worker in it.
Dies(p) ==
    /\ faults < MaxFaults
    /\ pl[p].pc \in (Opening \ {"off"}) \cup Producing
    /\ faults' = faults + 1
    /\ Leaves(p, "dead")
    /\ worker' = [a \in Attempts |->
                    IF platform = "windows" /\ a[1] = p /\ worker[a] = "live" THEN "killed"
                    ELSE worker[a]]
    /\ UNCHANGED <<platform, disk, request, op, worktree, driver>>

\* CancellationClient::open: the ledger serves this repository.  It takes no fence.
ClientOpens == "repository" \in ledger

\* The request names the process of a driver's record, never a bare pid.
enqueue_driver(a) == driver[a] # "none" /\ Controlled

\* An exact repeat returns the stored status; a new request is taken only while the driver
\* has not published a terminal phase.  The client then reads the row until it is answered
\* or five seconds are over.
Accepting(a) == driver[a] \in {"Starting", "Running"}

Enqueue(a) ==
    /\ ClientOpens /\ enqueue_driver(a)
    /\ Cardinality({b \in Attempts : request[b] # "none"}) < MaxRequests
    /\ request[a] = "none" /\ Accepting(a)
    /\ request' = [request EXCEPT ![a] = "Pending"]
    /\ UNCHANGED <<platform, disk, fence, pl, work, faults>>

\* cancel --driver.
CancelDriver == \E a \in Attempts : Enqueue(a)

Planner(p) == Open(p) \/ Prepare(p) \/ Control(p) \/ Finishing(p)

PlannerNext ==
    \/ \E p \in Planners : Planner(p) \/ Dies(p)
    \/ \E a \in Attempts : WorkerEnds(a)
    \/ CancelDriver

PlannerSpec == PlannerInit /\ [][PlannerNext]_plannerVars

\* A planner that is not killed keeps executing, but for its call of invoke, which may
\* never return: it writes the prompt to the harness without a deadline.  The harness
\* process, once invoked, ends or is ended by its deadline.  Nothing makes an operator
\* start a planner or a cancellation.
Fairness ==
    /\ \A p \in Planners : WF_plannerVars(pl[p].pc \notin {"off", "invoke"} /\ Planner(p))
    /\ \A a \in Attempts : WF_plannerVars(WorkerEnds(a))
FairSpec == PlannerSpec /\ Fairness

-----------------------------------------------------------------------------
PlannerTypeOK ==
    /\ platform \in Platforms
    /\ registry \in {"absent", "empty", "manifest"}
    /\ fence \in Planners \cup {NoOne}
    /\ dirs \in 0..Depth /\ pending \in 0..Depth /\ rooted \in BOOLEAN
    /\ ledger \subseteq {"repository", "root"}
    /\ pl \in [Planners -> [pc : Opening \cup Producing \cup {"refused", "failed", "planned", "dead"},
                            n : 0..MaxRetries, created : BOOLEAN, tried : BOOLEAN,
                            blocked : BOOLEAN, result : {"none", "outcome", "error", "cancelled"}]]
    /\ op \in [Attempts -> [worktree : OpStates, spawn : OpStates, plan : OpStates]]
    /\ worktree \subseteq Attempts
    /\ worker \in [Attempts -> Workers]
    /\ driver \in [Attempts -> Phases]
    /\ request \in [Attempts -> Statuses]
    /\ faults \in 0..MaxFaults

\* Root provenance (bootstrap_root, "Persist the entire missing suffix before creating
\* its first component"): whatever crashed where, a component somebody created has a
\* recorded intent, and a root that is in the manifest or in the ledger is complete.
BootstrapHasProvenance ==
    /\ dirs \notin {0, Depth} => pending < dirs
    /\ rooted => dirs = Depth /\ registry = "manifest"
    /\ "root" \in ledger => rooted /\ "repository" \in ledger

\* An Applied answer is a proof (cancel_owned, acknowledge_cancellation): the worker of
\* that attempt is gone and stays gone, on a platform that can know it.
AppliedMeansStopped ==
    \A a \in Attempts : request[a] = "Applied" => platform = "windows" /\ worker[a] # "live"

\* A cancellation the driver heard ends the command (decompose_owned, "never retries that
\* attempt"): the attempt never yields a plan and no later attempt of the planner begins.
CancelledNeverPlans ==
    \A a \in Attempts : request[a] \in {"Applied", "Blocked"} =>
        /\ op[a].plan # "completed"
        /\ pl[a[1]].n = a[2]

\* No retry of an uncertain effect (decompose_owned, "do not salvage or retry uncertain
\* effects"): when an attempt begins, every operation of the earlier ones has its step and
\* no earlier worker is alive; no two planners have begun work that is not over.
RetryAfterCertainty ==
    /\ \A a \in Attempts : a[2] < pl[a[1]].n =>
          /\ op[a].worktree = "completed" /\ op[a].spawn = "completed" /\ op[a].plan = "blocked"
          /\ worker[a] # "live"
    /\ \A a \in Attempts : op[a].spawn = "completed" => worker[a] \notin {"none", "live"}
    /\ Cardinality({p \in Planners : pl[p].pc \in Producing}) <= 1

\* Every request is answered (collect_with_driver): a request in the ledger is eventually
\* answered, unless its planner died or left with an error it published or could not
\* publish, or is kept in invoke for ever; then the request stays Pending, which the client
\* does not take for success.
RequestAnswered ==
    \A a \in Attempts :
        request[a] = "Pending" ~> \/ request[a] # "Pending"
                                  \/ pl[a[1]].pc \in {"dead", "failed"}
                                  \/ []At(a[1], "invoke")

\* The command ends: planning is bounded by the retries and the deadline of each attempt,
\* which runs from the return of invoke.
PlannerEnds ==
    \A p \in Planners :
        ~At(p, "off") ~> \/ pl[p].pc \in {"refused", "failed", "planned", "dead"}
                         \/ []At(p, "invoke")

\* A cancellation that was answered as applied is final: the worker is gone and no
\* plan comes of it (collect_with_driver).
CancelIsFinal == PlannerTypeOK /\ AppliedMeansStopped /\ CancelledNeverPlans

\* Nothing is produced that no intent names: a root that was found half made has
\* its bootstrap intent, and an attempt is retried only after the one before it
\* is known to be over (bootstrap, plan_with_retry).
ProductionIsOwned == BootstrapHasProvenance /\ RetryAfterCertainty

\* Nobody waits for ever, but for a harness that does not read its prompt: the client for
\* its answer, the user for the command.
NobodyWaits == RequestAnswered /\ PlannerEnds
=============================================================================
