------------------------------- MODULE PlanGate -------------------------------
(***************************************************************************)
(* The human gate on a plan: the runs row of one graph_id, the commands    *)
(* that write it (review-plan, run, mutate-plan, run --reset) and the      *)
(* driver that works from it.                                              *)
(*                                                                         *)
(* Every command is a process of its own that loads the row, decides, and   *)
(* saves the whole row it loaded (save_run is an upsert without a version  *)
(* check), so a write may rest on a stale read.  tick loads the row for its *)
(* state, then the graph, then the fold of the log: three reads.  Within a *)
(* tick only the order of events of a task matters here; RunLoop has the    *)
(* tick in full.  Invalid plan files and mutations are inputs too.          *)
(***************************************************************************)
EXTENDS TaskGraph, TaskState

CONSTANTS
  Ids,         \* task ids that occur
  Files,       \* graphs a plan file, or the planner on --adjust, may hold
  Mutations,   \* mutations an operator may ask for
  Commands,    \* command processes
  MaxCommands, \* bound: commands issued
  MaxEvents    \* bound: records the driver and `accept` append

PlanStates == {"AwaitingPlanReview", "PlanAccepted", "PlanDeclined"}
Decisions == {"Accept", "Decline", "Adjust"}
NoRow == [state |-> "NoRow", plan |-> <<>>]
NoRecord == "NoRecord"                       \* a task without a record in the log
NoMutation == [kind |-> "none", task |-> 0, new |-> <<>>]

ASSUME BoundsAssumption == MaxCommands \in Nat /\ MaxEvents \in Nat
ASSUME IdsAssumption == 0 \notin Ids
ASSUME InputsAssumption ==
  /\ Files \subseteq Seq(Node(Ids, {NoTag}))
  /\ \A m \in Mutations : /\ m.kind \in MutationKinds /\ m.task \in Ids
                          /\ m.new \in Seq(Node(Ids, {NoTag}))

VARIABLES
  row,      \* the runs row: plan_state and plan_json
  integ,    \* the integrate worktree exists
  st,       \* task -> fold of its records
  corrupt,  \* replay_tasks returns Corrupt
  cmd,      \* process -> its command and what it has read
  dpc,      \* the driver: off, load, graph, fold, work
  dplan, dst,
  \* history
  held,     \* ids added under --require-review, staged or declined, and not accepted since
  overlap,  \* some write rested on a stale read, or fell into a tick
  issued, events

driverVars == <<dpc, dplan, dst>>
counts == <<issued, events>>
vars == <<row, integ, st, corrupt, cmd, driverVars, held, overlap, counts>>

Active == {"Running", "Verifying", "AwaitingReview", "Accepted", "Integrated"}
State(t) == IF st[t] = NoRecord THEN "Pending" ELSE st[t]
Snap(t) == IF dst[t] = NoRecord THEN "Pending" ELSE dst[t]
NoTasks(s) == \A t \in Ids : s[t] = NoRecord

Idle == [kind |-> "none", pc |-> "idle", file |-> <<>>, decision |-> "Accept",
         row |-> NoRow, graph |-> <<>>, tasks |-> [t \in Ids |-> NoRecord],
         mutation |-> NoMutation, review |-> FALSE]

\* No plan yet, or one that an earlier run accepted and started.
Init ==
  /\ row \in {NoRow} \cup {[state |-> "PlanAccepted", plan |-> assign_tiers(f)] :
                            f \in {x \in Files : validate(x)}}
  /\ integ = (row # NoRow)
  /\ st = [t \in Ids |-> NoRecord] /\ corrupt = FALSE
  /\ cmd = [c \in Commands |-> Idle]
  /\ dpc = "off" /\ dplan = <<>> /\ dst = [t \in Ids |-> NoRecord]
  /\ held = {} /\ overlap = FALSE
  /\ issued = 0 /\ events = 0

(***************************************************************************)
(* plan_transition: the state after a decision, NoRow where it is refused. *)
(***************************************************************************)
\* Mutant: a declined plan can be accepted as it is.
plan_transition_reopened(from, decision) ==
  IF decision = "Accept" THEN "PlanAccepted"
  ELSE IF decision = "Decline" /\ from # "PlanAccepted" THEN "PlanDeclined"
  ELSE IF decision = "Adjust" /\ from # "PlanAccepted" THEN "AwaitingPlanReview"
  ELSE "NoRow"

plan_transition(from, decision) ==
  IF decision = "Accept" /\ from # "PlanDeclined" THEN "PlanAccepted"
  ELSE IF decision = "Decline" /\ from # "PlanAccepted" THEN "PlanDeclined"
  ELSE IF decision = "Adjust" /\ from # "PlanAccepted" THEN "AwaitingPlanReview"
  ELSE "NoRow"

(***************************************************************************)
(* Commands.  Continue moves a process on; Finish ends it.                 *)
(***************************************************************************)
Continue(c, r) == cmd' = [cmd EXCEPT ![c] = r]
Finish(c) == cmd' = [cmd EXCEPT ![c] = Idle]

Issue(c, r) ==
  /\ cmd[c].pc = "idle" /\ issued < MaxCommands
  /\ Continue(c, r) /\ issued' = issued + 1
  /\ UNCHANGED <<row, integ, st, corrupt, driverVars, held, overlap, events>>

\* review-plan reads and validates a plan file; --adjust replaces its graph by
\* the planner's, which is also one of Files.
ReviewPlan(c) ==
  \E f \in Files, d \in Decisions :
    /\ validate(f)
    /\ Issue(c, [Idle EXCEPT !.kind = "review", !.pc = "stage", !.file = f, !.decision = d])

\* run checks the stored state before start; an unreviewed plan needs
\* --accept-plan, whose decision is made after start.
RunPlan(c) ==
  \E f \in Files, acceptPlan \in BOOLEAN, reset \in BOOLEAN :
    /\ validate(f)
    /\ row.state # "PlanDeclined"
    /\ acceptPlan \/ row.state = "PlanAccepted"
    /\ Issue(c, [Idle EXCEPT !.kind = IF reset THEN "reset" ELSE "run", !.pc = "start",
                             !.file = f, !.row = row])

MutatePlan(c) ==
  \E m \in Mutations, review \in BOOLEAN :
    Issue(c, [Idle EXCEPT !.kind = "mutate", !.pc = "row", !.mutation = m, !.review = review])

\* A write of the row: stale when the row, the graph or the log changed since c
\* read it, or when a tick is under way that has already read it.
Overlaps(c, readTasks) ==
  \/ row # cmd[c].row
  \/ cmd[c].kind = "mutate" /\ cmd[c].graph # row.plan
  \/ dpc \in {"graph", "fold", "work"}
  \/ readTasks # st

SaveRow(c, r, readTasks) ==
  /\ row' = r
  /\ overlap' = (overlap \/ Overlaps(c, readTasks))

\* stage_plan: a plan that is not accepted is replaced, with no look at the
\* log; an accepted one is left as it is, and only Accept goes on to decide.
StageRead(c) ==
  /\ cmd[c].pc = "stage"
  /\ IF row.state # "PlanAccepted"
       THEN Continue(c, [cmd[c] EXCEPT !.pc = "stage-save", !.row = row])
     ELSE IF cmd[c].decision = "Accept" THEN Continue(c, [cmd[c] EXCEPT !.pc = "decide", !.file = <<>>])
     ELSE Finish(c)
  /\ UNCHANGED <<row, integ, st, corrupt, driverVars, held, overlap, counts>>

StageSave(c) ==
  /\ cmd[c].pc = "stage-save"
  /\ SaveRow(c, [state |-> "AwaitingPlanReview", plan |-> assign_tiers(cmd[c].file)], st)
  /\ held' = IdsOf(cmd[c].file)
  /\ Continue(c, [cmd[c] EXCEPT !.pc = "decide", !.file = <<>>, !.row = NoRow])
  /\ UNCHANGED <<integ, st, corrupt, driverVars, counts>>

\* decide_plan loads the row, and saves it with the state after the decision.
DecideRead(c) ==
  /\ cmd[c].pc = "decide"
  /\ IF row = NoRow \/ plan_transition(row.state, cmd[c].decision) = "NoRow"
       THEN Finish(c)
       ELSE Continue(c, [cmd[c] EXCEPT !.pc = "decide-save", !.row = row])
  /\ UNCHANGED <<row, integ, st, corrupt, driverVars, held, overlap, counts>>

DecideSave(c) ==
  LET next == plan_transition(cmd[c].row.state, cmd[c].decision) IN
  /\ cmd[c].pc = "decide-save"
  /\ SaveRow(c, [cmd[c].row EXCEPT !.state = next], st)
  /\ held' = CASE next = "PlanAccepted" -> {}
               [] next = "PlanDeclined" -> IdsOf(cmd[c].row.plan)
               [] OTHER -> held
  /\ IF cmd[c].kind = "review" THEN Finish(c)
     ELSE Continue(c, [cmd[c] EXCEPT !.pc = "loop", !.row = NoRow])
  /\ UNCHANGED <<integ, st, corrupt, driverVars, counts>>

\* After start, `run` decides Accept unless the row was accepted when it began.
AfterStart(c) ==
  Continue(c, [cmd[c] EXCEPT !.pc = IF cmd[c].row.state = "PlanAccepted" THEN "loop" ELSE "decide",
                             !.file = <<>>, !.row = NoRow])

ensure_integrate == integ' = TRUE

\* start with a row: nothing in the log yet lets it go on with the stored plan
\* (whatever the file says), a log makes it a duplicate, which only --reset
\* answers.  An unreadable log counts as empty.
StartExisting(c) ==
  /\ cmd[c].pc = "start" /\ row # NoRow
  /\ IF row.state = "PlanDeclined" THEN Finish(c) /\ UNCHANGED integ
     ELSE IF NoTasks(st) \/ corrupt THEN AfterStart(c) /\ ensure_integrate
     ELSE IF cmd[c].kind = "reset" /\ row.state = "PlanAccepted"
       THEN Continue(c, [cmd[c] EXCEPT !.pc = "reset"]) /\ UNCHANGED integ
     ELSE Finish(c) /\ UNCHANGED integ
  /\ UNCHANGED <<row, st, corrupt, driverVars, held, overlap, counts>>

\* start without a row: the integrate worktree first, then the row.  A worktree
\* left by a start that died in between is refused.
StartNew(c) ==
  /\ cmd[c].pc = "start" /\ row = NoRow
  /\ IF integ THEN Finish(c) /\ UNCHANGED integ
     ELSE /\ integ' = TRUE
          /\ Continue(c, [cmd[c] EXCEPT !.pc = "start-save", !.row = NoRow])
  /\ UNCHANGED <<row, st, corrupt, driverVars, held, overlap, counts>>

StartSave(c) ==
  /\ cmd[c].pc = "start-save"
  /\ SaveRow(c, [state |-> "AwaitingPlanReview", plan |-> assign_tiers(cmd[c].file)], st)
  /\ held' = IdsOf(cmd[c].file)
  /\ Continue(c, [cmd[c] EXCEPT !.pc = "decide", !.file = <<>>, !.row = NoRow])
  /\ UNCHANGED <<integ, st, corrupt, driverVars, counts>>

\* restart keeps the plan and deletes the log (Landing has its steps).
Reset(c) ==
  /\ cmd[c].pc = "reset"
  /\ st' = [t \in Ids |-> NoRecord] /\ corrupt' = FALSE
  /\ overlap' = (overlap \/ dpc # "off" \/ \E o \in Commands \ {c} : cmd[o].pc # "idle")
  /\ AfterStart(c)
  /\ UNCHANGED <<row, integ, driverVars, held, counts>>

\* loop_until_idle in the command's own process (one driver at a time).
Loop(c) ==
  /\ cmd[c].pc = "loop" /\ Finish(c)
  /\ dpc' = IF dpc = "off" THEN "load" ELSE dpc
  /\ UNCHANGED <<row, integ, st, corrupt, dplan, dst, held, overlap, counts>>

(***************************************************************************)
(* mutate_plan: the row, then the graph, then the fold, then one           *)
(* transaction for the row and the GraphMutated record.                    *)
(***************************************************************************)
MutateRow(c) ==
  /\ cmd[c].pc = "row"
  /\ IF row = NoRow THEN Finish(c)
     ELSE Continue(c, [cmd[c] EXCEPT !.pc = "graph", !.row = row])
  /\ UNCHANGED <<row, integ, st, corrupt, driverVars, held, overlap, counts>>

MutateGraph(c) ==
  /\ cmd[c].pc = "graph"
  /\ Continue(c, [cmd[c] EXCEPT !.pc = "tasks", !.graph = row.plan])
  /\ UNCHANGED <<row, integ, st, corrupt, driverVars, held, overlap, counts>>

\* Mutant: only a running task is protected.
MutableUnlessRunning(m, tasks) ==
  m.kind = "InsertPrerequisite" => tasks[m.task] # "Running"

\* The state immutability of ADR 0028.
Mutable(m, tasks) == m.kind = "InsertPrerequisite" => tasks[m.task] \notin Active

\* Mutant: the candidate replaces the graph without its validation.
AdmittedUnvalidated(g, m, tasks) ==
  /\ Mutable(m, tasks) /\ m.new # <<>> /\ m.task \in IdsOf(g)
  /\ \A n \in nodes(m.new) : n.id # 0 /\ n.id \notin IdsOf(g)

Admitted(g, m, tasks) == Mutable(m, tasks) /\ MutationApplies(g, m)

MutateTasks(c) ==
  /\ cmd[c].pc = "tasks"
  /\ IF ~corrupt /\ Admitted(cmd[c].graph, cmd[c].mutation, st)
       THEN Continue(c, [cmd[c] EXCEPT !.pc = "mutate", !.tasks = st])
       ELSE Finish(c)
  /\ UNCHANGED <<row, integ, st, corrupt, driverVars, held, overlap, counts>>

\* Mutant: the fold keeps whatever transition answers.
RecordUnchecked(t, from, event) ==
  st' = [st EXCEPT ![t] = transition(State(t), event)] /\ UNCHANGED corrupt

\* A record is legal in the log when the fold takes it to the recorded target.
Record(t, from, event) ==
  IF corrupt \/ transition(State(t), event) # transition(from, event)
    THEN corrupt' = TRUE /\ UNCHANGED st
    ELSE st' = [st EXCEPT ![t] = transition(from, event)] /\ UNCHANGED corrupt

\* Mutant: every target that may be mutated gets the record of a Ready one.
ReversesAll(m, tasks) == m.kind = "InsertPrerequisite" /\ tasks[m.task] \notin Active

\* Only a Ready target gets a GraphMutated record.
Reverses(m, tasks) == m.kind = "InsertPrerequisite" /\ tasks[m.task] = "Ready"

MutateSave(c) ==
  LET m == cmd[c].mutation
      g == assign_tiers(Mutated(cmd[c].graph, m))
      next == IF cmd[c].review THEN "AwaitingPlanReview" ELSE cmd[c].row.state
  IN
  /\ cmd[c].pc = "mutate"
  /\ SaveRow(c, [state |-> next, plan |-> g], cmd[c].tasks)
  /\ IF Reverses(m, cmd[c].tasks) THEN Record(m.task, "Ready", "GraphMutated")
     ELSE UNCHANGED <<st, corrupt>>
  /\ held' = IF next = "PlanAccepted" THEN held ELSE held \cup IdsOf(m.new)
  /\ Finish(c)
  /\ UNCHANGED <<integ, driverVars, counts>>

\* A command dies between two of its steps.
CommandDies(c) ==
  /\ cmd[c].pc \notin {"idle", "stage", "row", "start"}
  /\ Finish(c)
  /\ UNCHANGED <<row, integ, st, corrupt, driverVars, held, overlap, counts>>

(***************************************************************************)
(* The driver.  resume starts one; the gate is the first read of a tick.   *)
(***************************************************************************)
EndTick == dplan' = <<>> /\ dst' = [t \in Ids |-> NoRecord]

Resume ==
  /\ dpc = "off" /\ row # NoRow
  /\ dpc' = "load"
  /\ UNCHANGED <<row, integ, st, corrupt, cmd, dplan, dst, held, overlap, counts>>

\* Mutant: the gate is only checked for a declined plan.
GateOpenUnlessDeclined == row.state # "PlanDeclined"

GateOpen == row.state = "PlanAccepted"

TickGate ==
  /\ dpc = "load"
  /\ dpc' = IF GateOpen THEN "graph" ELSE "off"
  /\ UNCHANGED <<row, integ, st, corrupt, cmd, dplan, dst, held, overlap, counts>>

TickGraph ==
  /\ dpc = "graph"
  /\ dpc' = "fold" /\ dplan' = row.plan
  /\ UNCHANGED <<row, integ, st, corrupt, cmd, dst, held, overlap, counts>>

TickFold ==
  /\ dpc = "fold"
  /\ IF corrupt THEN dpc' = "off" /\ EndTick
     ELSE dpc' = "work" /\ dst' = st /\ UNCHANGED dplan
  /\ UNCHANGED <<row, integ, st, corrupt, cmd, held, overlap, counts>>

\* Mutant: a ready task is dispatched on its state alone.
EnabledByState(t, event) ==
  \/ event = "DependencySatisfied" /\ Snap(t) = "Pending"
                                   /\ \A d \in DepsOf(dplan, t) : Snap(d) = "Integrated"
  \/ event = "AttemptStarted" /\ Snap(t) = "Ready"
  \/ event \in {"HarnessCrashedOrTimeout", "HarnessExited"} /\ Snap(t) = "Running"
  \/ event = "DeterministicChecksPassed" /\ Snap(t) = "Verifying"
  \/ event = "IntegrationOwnerMerge" /\ Snap(t) = "Accepted"
  \/ event = "RetryAuthorized" /\ Snap(t) = "Failed"

\* What the phases of a tick append for a task, on its snapshot.
TickEvents == {"DependencySatisfied", "AttemptStarted", "HarnessCrashedOrTimeout",
               "HarnessExited", "DeterministicChecksPassed", "IntegrationOwnerMerge",
               "RetryAuthorized"}

Enabled(t, event) ==
  LET integrated == {d \in IdsOf(dplan) : Snap(d) = "Integrated"} IN
  \/ event = "DependencySatisfied" /\ Snap(t) = "Pending"
                                   /\ DepsOf(dplan, t) \subseteq integrated
  \/ event = "AttemptStarted" /\ Snap(t) = "Ready" /\ t \in ready_nodes(dplan, integrated)
  \/ event \in {"HarnessCrashedOrTimeout", "HarnessExited"} /\ Snap(t) = "Running"
  \/ event = "DeterministicChecksPassed" /\ Snap(t) = "Verifying"
  \/ event = "IntegrationOwnerMerge" /\ Snap(t) = "Accepted"
  \/ event = "RetryAuthorized" /\ Snap(t) = "Failed"

TickAppend(t) ==
  /\ dpc = "work" /\ events < MaxEvents /\ t \in IdsOf(dplan)
  /\ \E event \in TickEvents : Enabled(t, event) /\ Record(t, Snap(t), event)
  /\ dpc' = "load" /\ EndTick /\ events' = events + 1
  /\ UNCHANGED <<row, integ, cmd, held, overlap, issued>>

\* The driver goes idle, or its process dies.
DriverStops ==
  /\ dpc # "off" /\ dpc' = "off" /\ EndTick
  /\ UNCHANGED <<row, integ, st, corrupt, cmd, held, overlap, counts>>

\* `meshloop accept`, from a process of its own, between the ticks (RunLoop has
\* it in the middle of one).
HumanAccepts(t) ==
  /\ st[t] = "AwaitingReview" /\ ~corrupt /\ dpc # "work" /\ events < MaxEvents
  /\ Record(t, "AwaitingReview", "HumanAcceptanceRecorded")
  /\ events' = events + 1
  /\ UNCHANGED <<row, integ, cmd, driverVars, held, overlap, issued>>

\* review-plan, with the file it was given or the one its planner wrote on Adjust:
\* the plan is staged, then decided; a plan accepted before is only decided again.
Review(c) == StageRead(c) \/ StageSave(c) \/ DecideRead(c) \/ DecideSave(c)

\* mutate-plan.
Mutate(c) == MutateRow(c) \/ MutateGraph(c) \/ MutateTasks(c) \/ MutateSave(c)

Command(c) ==
  \/ ReviewPlan(c) \/ RunPlan(c) \/ MutatePlan(c) \/ Review(c) \/ Mutate(c)
  \/ StartExisting(c) \/ StartNew(c) \/ StartSave(c) \/ Reset(c) \/ Loop(c)
  \/ CommandDies(c)

Next ==
  \/ \E c \in Commands : Command(c)
  \/ Resume \/ TickGate \/ TickGraph \/ TickFold \/ DriverStops
  \/ \E t \in Ids : TickAppend(t) \/ HumanAccepts(t)

Spec == Init /\ [][Next]_vars
-----------------------------------------------------------------------------
Rows == [state : PlanStates \cup {"NoRow"}, plan : Seq(Node(Ids, {NoTag}))]
Pcs == {"idle", "stage", "stage-save", "decide", "decide-save", "start", "start-save",
        "reset", "loop", "row", "graph", "tasks", "mutate"}

TypeOK ==
  /\ row \in Rows /\ integ \in BOOLEAN /\ corrupt \in BOOLEAN /\ overlap \in BOOLEAN
  /\ st \in [Ids -> TaskStates \cup {NoRecord}] /\ dst \in [Ids -> TaskStates \cup {NoRecord}]
  /\ \A c \in Commands :
       /\ cmd[c].kind \in {"none", "review", "run", "reset", "mutate"} /\ cmd[c].pc \in Pcs
       /\ cmd[c].row \in Rows /\ cmd[c].decision \in Decisions
  /\ dpc \in {"off", "load", "graph", "fold", "work"}
  /\ held \subseteq Ids /\ issued \in 0..MaxCommands /\ events \in 0..MaxEvents

\* Whatever is staged, started or mutated, in whatever order, the stored plan is
\* a graph validate accepts, with a tier for every node: assign_tiers, the two
\* rewirings of apply_mutation and a second mutation never leave it otherwise.
PlanIsValid ==
  row # NoRow => validate(row.plan) /\ \A n \in nodes(row.plan) : n.tier \in Tiers

\* The log becomes unreadable only if a mutation fell into a tick or rested on
\* stale reads: the GraphMutated record of mutate_plan is legal otherwise.
QuietLogIsLegal == corrupt => overlap

\* Without overlapping writes, a node that came in with a staged plan or with
\* mutate-plan --require-review, or whose plan was declined, becomes Ready or Running
\* only after an Accept was saved (the gate of tick, decide_plan and mutate_plan
\* together).
ReviewedNodesOnly ==
  [][\A t \in Ids : st'[t] # st[t] /\ st'[t] \in {"Ready", "Running"} /\ ~overlap'
                      => t \notin held]_vars

\* Without overlapping writes, an attempt starts only when every dependency in
\* the stored plan is integrated: a prerequisite inserted before a task that was
\* Ready, or Failed and retried, is waited for.
PrerequisitesFirst ==
  [][\A t \in Ids : st[t] # "Running" /\ st'[t] = "Running" /\ ~overlap'
                      => \A d \in DepsOf(row.plan, t) : st[d] = "Integrated"]_vars

\* ADR 0028, state immutability: while the plan is accepted, no command changes
\* the dependencies of a task whose execution has begun, nor drops it.
BegunKeepsItsDeps ==
  [][\A t \in IdsOf(row.plan) : st[t] \in Active /\ row.state = "PlanAccepted" /\ ~overlap'
                      => /\ t \in IdsOf(row'.plan)
                         /\ DepsOf(row'.plan, t) = DepsOf(row.plan, t)]_vars

\* Without overlapping writes, a task becomes Ready or Running only while the stored row
\* is accepted: not after a decline, nor after a mutation that asks for a new review.
GateIsShut ==
  [][\A t \in Ids : st'[t] # st[t] /\ st'[t] \in {"Ready", "Running"} /\ ~overlap'
                      => row.state = "PlanAccepted"]_vars

\* Without overlapping writes, no command accepts a declined row as it stands: it is
\* reopened first.  That need not be an adjustment: any review-plan stages its plan over
\* a declined one, mutate-plan --require-review reopens it too, and the next Accept is
\* good (stage_plan, decide_plan).
DeclineStands ==
  [][row.state = "PlanDeclined" /\ ~overlap' => row'.state # "PlanAccepted"]_vars

\* Commands that read the row, decide and save all of it leave a valid plan and,
\* unless they overlapped, a legal log (save_run, mutate_plan).
PlanStaysLegal == TypeOK /\ PlanIsValid /\ QuietLogIsLegal

\* The human gate: nothing of a plan that was not reviewed, or was declined, starts
\* before somebody accepts it, and no Accept skips the reopening of a declined plan
\* (decide_plan, stage_plan, mutate_plan and the gate of tick).
GateHolds == ReviewedNodesOnly /\ GateIsShut /\ DeclineStands

\* A plan that is mutated under a driver keeps the order of work: new
\* prerequisites are waited for, and what has begun keeps its own.
OrderHolds == PrerequisitesFirst /\ BegunKeepsItsDeps
=============================================================================
