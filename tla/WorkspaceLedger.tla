-------------------------- MODULE WorkspaceLedger --------------------------
(***************************************************************************)
(* The lifecycle tables of the run store: the binding of a graph to its    *)
(* repository, plan revisions and their authorizations, execution          *)
(* generations, scoped attempts and events, the adoption of a marked       *)
(* legacy run, and the observation that reads all of it back.              *)
(*                                                                         *)
(* Callers hold the repository fence; legacy writers do not know the fence *)
(* and decide by a check that precedes their write.  One graph, BoundGraph,*)
(* may become bound; OtherGraph shares the attempts table and stays legacy.*)
(***************************************************************************)
EXTENDS Naturals, FiniteSets, FiniteSetsExt

CONSTANTS Callers,    \* fenced users of the ledger
          Writers,    \* processes that use the legacy tables
          MaxRevs,    \* plan revisions
          MaxGens,    \* generations
          MaxIds,     \* attempt ids
          MaxEvents,  \* scoped events
          MaxWrites,  \* legacy writes of one writer
          NoOne       \* nobody: the holder of a free fence

ASSUME LedgerAssumption ==
    /\ MaxRevs \in Nat \ {0} /\ MaxGens \in Nat \ {0} /\ MaxIds \in Nat \ {0}
    /\ MaxEvents \in Nat /\ MaxWrites \in Nat /\ NoOne \notin Callers

VARIABLES
    run,        \* the graph's row of runs: plan state and plan
    marked,     \* workspace_legacy_unbound: the run's mark and the marked attempts
    bind,       \* workspace_run_bindings: bound or not, active generation, current revision
    revs,       \* workspace_plan_revisions
    auth,       \* per revision: never accepted, accepted, or declined after an acceptance
    gens,       \* workspace_generations with their initial revision
    attempts,   \* attempts: graph, scope, task, and whether a legacy path is set
    next,       \* workspace_attempt_sequence
    events,     \* events of the graph
    placed,     \* the directory of the graph's generation is where it is recorded
    fence,      \* the caller that holds the repository fence
    caller,     \* per caller: program counter and what it read before its transaction
    writer,     \* per legacy writer: the write its check has admitted
    late        \* a legacy write landed after the binding its check had not seen

plans == <<bind, revs, auth, gens>>
records == <<attempts, next, events>>
procs == <<fence, caller, writer>>
vars == <<marked, run, plans, records, placed, procs, late>>

RevIds == 1..MaxRevs
Plans == RevIds
\* Each plan keeps the tasks of the one before and adds one.
TasksOf(plan) == 1..plan
GenIds == 1..MaxGens
Ids == 1..MaxIds
Rows == {[state |-> s, plan |-> p] : s \in {"PlanAccepted", "AwaitingPlanReview"}, p \in Plans}
Graphs == {"BoundGraph", "OtherGraph"}
None == 0
\* Revision r is a revision to plan r.
PlanOf(r) == r
NoRev == [there |-> FALSE, pred |-> None, gen |-> None]
NoGen == [plan |-> None, rev |-> None]
NoAttempt == [graph |-> "none", gen |-> None, rev |-> None, task |-> None, path |-> FALSE]
NoWrite == [op |-> "none", graph |-> "BoundGraph", id |-> None, checked |-> FALSE, left |-> MaxWrites]

\* A ledger with a run and one attempt of it: marked by the migration of an older schema,
\* or written since by the legacy run loop, which does not move the id sequence.
Init ==
    /\ run \in Rows
    /\ marked \in {[run |-> FALSE, attempts |-> {}], [run |-> TRUE, attempts |-> {1}]}
    /\ bind = [on |-> FALSE, gen |-> None, rev |-> None]
    /\ revs = [r \in RevIds |-> NoRev]
    /\ auth = [r \in RevIds |-> "none"]
    /\ gens = [g \in GenIds |-> NoGen]
    /\ attempts = [i \in Ids |-> IF i = 1 THEN [NoAttempt EXCEPT !.graph = "BoundGraph", !.task = 1,
                                                                  !.path = TRUE]
                                 ELSE NoAttempt]
    /\ next = IF marked.run THEN 2 ELSE 1
    /\ events = {}
    /\ placed = TRUE
    /\ fence = NoOne
    /\ caller = [c \in Callers |-> [pc |-> "idle", b |-> None]]
    /\ writer = [w \in Writers |-> NoWrite]
    /\ late = FALSE

-----------------------------------------------------------------------------
(* Facts the transactions look up.                                         *)

Unresolved == marked.run \/ \E i \in marked.attempts : attempts[i].graph = "BoundGraph"
Authorized(r) == auth[r] = "Accepted"
HasRev(r) == r \in RevIds /\ revs[r].there
HasGen(g) == g \in GenIds /\ gens[g].plan # None
Scoped(i) == attempts[i].gen # None

\* validate_fence: the caller holds the lock and the ledger is the one it was opened on.
Holds(c) == fence = c

\* scope(): the caller's generation and revision are the current ones, and the run's row is
\* still the accepted plan of that revision.
InScope(g, r) ==
    /\ bind.on /\ bind.gen = g /\ g # None
    /\ bind.rev = r /\ r # None
    /\ run = [state |-> "PlanAccepted", plan |-> PlanOf(r)]
    /\ Authorized(r)

\* Mutant: the decision is stored under its own name.
PlanStateRaw(r) == auth[r]
\* What a revision's latest authorization makes of the run's plan state.
PlanState(r) == IF Authorized(r) THEN "PlanAccepted" ELSE "AwaitingPlanReview"

-----------------------------------------------------------------------------
(* The fence and the transactions of its holder.                           *)

\* GitRepositoryIdentity::acquire fails at once when the lock is taken.
FenceFree == fence = NoOne

AcquireFence(c) ==
    /\ FenceFree /\ fence # c
    /\ fence' = c
    /\ UNCHANGED <<marked, run, plans, records, placed, caller, writer, late>>

\* The lease is dropped, or its process dies, between any two effects.
ReleaseFence(c) ==
    /\ fence = c
    /\ fence' = NoOne
    /\ caller' = [caller EXCEPT ![c].pc = "idle", ![c].b = None]
    /\ UNCHANGED <<marked, run, plans, records, placed, writer, late>>

Idle(c) == Holds(c) /\ caller[c].pc = "idle"
Around == <<marked, placed, procs, late>>

\* create_run_binding refuses a graph with an unresolved mark and one that is bound.
Bindable == ~bind.on /\ ~Unresolved

CreateRunBinding(c) ==
    /\ Idle(c) /\ Bindable
    /\ bind' = [bind EXCEPT !.on = TRUE]
    /\ UNCHANGED <<Around, run, revs, auth, gens, records>>

\* append_revision: a valid plan of the graph after an existing predecessor or none.
AppendRevision(c) ==
    /\ Idle(c) /\ bind.on
    /\ \E r \in RevIds, pred \in RevIds \cup {None}, g \in {None, bind.gen} :
          /\ ~HasRev(r)
          /\ pred # None => HasRev(pred)
          /\ revs' = [revs EXCEPT ![r] = [there |-> TRUE, pred |-> pred, gen |-> g]]
    /\ UNCHANGED <<Around, run, bind, auth, gens, records>>

\* authorize_revision: a human decision either way; declining what was never accepted
\* changes nothing anybody reads.  An acceptance inherited from an
\* accepted predecessor has no effect a human one has not.
AuthorizeRevision(c) ==
    /\ Idle(c)
    /\ \E r \in RevIds, d \in {"Accepted", "Declined"} :
          /\ HasRev(r)
          /\ auth' = [auth EXCEPT ![r] = IF d = "Declined" /\ @ = "none" THEN @ ELSE d]
    /\ UNCHANGED <<Around, run, bind, revs, gens, records>>

\* insert_generation: an earlier producer's record of an accepted run, without a revision.
InsertGeneration(c) ==
    /\ Idle(c) /\ run.state = "PlanAccepted"
    /\ \E g \in GenIds :
          /\ ~HasGen(g) /\ \A q \in 1..(g - 1) : HasGen(q)
          /\ gens' = [gens EXCEPT ![g] = [plan |-> run.plan, rev |-> None]]
    /\ UNCHANGED <<Around, run, bind, revs, auth, records>>

\* activate_generation reads the binding first ...
BeginActivate(c) ==
    /\ Idle(c) /\ bind.on
    /\ caller' = [caller EXCEPT ![c].pc = "activate", ![c].b = bind.rev]
    /\ UNCHANGED <<marked, run, plans, records, placed, fence, writer, late>>

\* ... and in its transaction checks the run's row, adds the revision and its acceptance
\* if they are new, the generation, and writes the binding from what it read.
Activates(c, r, g) ==
    /\ caller[c].b \in {None, r}
    /\ ~HasGen(g) /\ \A q \in 1..(g - 1) : HasGen(q)
    /\ run = [state |-> "PlanAccepted", plan |-> PlanOf(r)]
    /\ revs' = [revs EXCEPT ![r] = IF @.there THEN @ ELSE [there |-> TRUE, pred |-> None, gen |-> g]]
    /\ auth' = [auth EXCEPT ![r] = "Accepted"]
    /\ gens' = [gens EXCEPT ![g] = [plan |-> run.plan, rev |-> r]]
    /\ bind' = [bind EXCEPT !.gen = g, !.rev = r]

EndActivate(c) ==
    /\ Holds(c) /\ caller[c].pc = "activate"
    /\ caller' = [caller EXCEPT ![c].pc = "idle", ![c].b = None]
    /\ \E r \in RevIds, g \in GenIds : Activates(c, r, g)
    /\ UNCHANGED <<marked, run, records, placed, fence, writer, late>>

\* Mutant: any revision of the graph can be made current.
SuccessorAny(r) == TRUE
\* The revision that follows the current one, or the current one again.
Successor(r) == revs[r].pred = bind.rev \/ bind.rev = r

\* Mutant: the binding moves on and the run's row keeps the old plan.
ProjectedLater(r) == run
\* The run's row is rewritten together with the binding.
Projected(r) == [state |-> PlanState(r), plan |-> PlanOf(r)]

Follow(r) ==
    /\ HasRev(r) /\ Successor(r)
    /\ revs[r].gen \in {None, bind.gen}
    /\ run' = Projected(r)
    /\ bind' = [bind EXCEPT !.rev = r]

\* select_revision works in the active generation; project_revision also before there is one.
SelectRevision(c) ==
    /\ Idle(c) /\ bind.on /\ bind.gen # None
    /\ \E r \in RevIds : Follow(r)
    /\ UNCHANGED <<Around, revs, auth, gens, records>>
ProjectRevision(c) ==
    /\ Idle(c) /\ bind.on /\ bind.gen = None
    /\ \E r \in RevIds : Follow(r)
    /\ UNCHANGED <<Around, revs, auth, gens, records>>

Stored == {i \in Ids : attempts[i].graph # "none"}

\* reserve_attempt: the id, its artifact, its location and its spawn intent in one
\* transaction, in the scope and for a task of the revision's plan.
ReserveAttempt(c) ==
    /\ Idle(c) /\ InScope(bind.gen, bind.rev)
    /\ LET id == Max({next, Max(Stored \cup {0}) + 1}) IN
          /\ id \in Ids
          /\ next' = id + 1
          /\ \E task \in TasksOf(PlanOf(bind.rev)) :
                attempts' = [attempts EXCEPT ![id] =
                    [NoAttempt EXCEPT !.graph = "BoundGraph", !.gen = bind.gen, !.rev = bind.rev,
                                      !.task = task]]
    /\ UNCHANGED <<Around, run, plans, events>>

\* The attempts a scoped write of the current generation and revision may refer to.
InScopeAttempts == {i \in Ids : attempts[i].gen = bind.gen /\ attempts[i].rev = bind.rev}

AppendScopedEvent(c) ==
    /\ Idle(c) /\ InScope(bind.gen, bind.rev)
    /\ Cardinality({e \in events : e.gen # None}) < MaxEvents
    /\ \E task \in TasksOf(PlanOf(bind.rev)), i \in InScopeAttempts \cup {None} :
          /\ i # None => attempts[i].task = task
          /\ events' = events \cup {[gen |-> bind.gen, rev |-> bind.rev, task |-> task, id |-> i]}
    /\ UNCHANGED <<Around, run, plans, attempts, next>>

Caller(c) ==
    \/ AcquireFence(c) \/ ReleaseFence(c) \/ CreateRunBinding(c) \/ AppendRevision(c)
    \/ AuthorizeRevision(c) \/ InsertGeneration(c) \/ BeginActivate(c) \/ EndActivate(c)
    \/ SelectRevision(c) \/ ProjectRevision(c) \/ ReserveAttempt(c)
    \/ AppendScopedEvent(c)

-----------------------------------------------------------------------------
(* workspace adopt: preview, then apply with the preview's digest.         *)

\* prove_graph: the graph has a recorded generation and its directory is in its place.
Proven == HasGen(1) /\ placed
Adoptable == marked.run /\ Proven

\* The apply decides under the fence and goes on if its digest is the one the operator
\* has from a preview, which is the same decision without the fence ...
BeginAdopt(c) ==
    /\ Idle(c) /\ Adoptable
    /\ caller' = [caller EXCEPT ![c].pc = "adopt"]
    /\ UNCHANGED <<marked, run, plans, records, placed, fence, writer, late>>

\* Mutant: the transaction trusts the decision made before it.
StillProvenAssumed == TRUE
\* ... and proves each pin once more in the transaction that binds it.
StillProven == Proven

EndAdopt(c) ==
    /\ Holds(c) /\ caller[c].pc = "adopt"
    /\ caller' = [caller EXCEPT ![c].pc = "idle"]
    /\ \/ /\ StillProven /\ marked.run /\ ~bind.on
          /\ marked' = [marked EXCEPT !.run = FALSE]
          /\ bind' = [bind EXCEPT !.on = TRUE]
       \/ /\ ~(StillProven /\ marked.run /\ ~bind.on)
          /\ UNCHANGED <<marked, bind>>
    /\ UNCHANGED <<run, revs, auth, gens, records, placed, fence, writer, late>>

\* Somebody moves the generation's directory away; only an adoption looks at it.
MoveAway ==
    /\ placed /\ marked.run
    /\ placed' = FALSE
    /\ UNCHANGED <<marked, run, plans, records, procs, late>>

Adopt(c) == BeginAdopt(c) \/ EndAdopt(c)

-----------------------------------------------------------------------------
(* Legacy writers: reject_bound_graph and reject_legacy_attempt, then the  *)
(* statement, with any transaction of a caller in between.                 *)

Admits(graph) == graph = "BoundGraph" => ~bind.on /\ ~Unresolved
AdmitsAttempt(i) == i \notin marked.attempts /\ (attempts[i].graph # "none" => Admits(attempts[i].graph))

Done(write) == [NoWrite EXCEPT !.left = write.left - 1]

\* next_attempt_id is read long before the attempt is saved.
TakeId(w) ==
    /\ writer[w].op = "none" /\ writer[w].left > 0
    /\ \E graph \in Graphs, id \in Ids :
          /\ id = Max(Stored \cup {0}) + 1
          /\ writer' = [writer EXCEPT ![w] = [op |-> "attempt", graph |-> graph, id |-> id,
                                              checked |-> FALSE, left |-> @.left]]
    /\ UNCHANGED <<marked, run, plans, records, placed, fence, caller, late>>

Check(w) ==
    /\ ~writer[w].checked
    /\ \/ /\ writer[w].op = "none" /\ writer[w].left > 0 /\ Admits("BoundGraph")
          /\ \E op \in {"row", "event", "events"} :
                writer' = [writer EXCEPT ![w].op = op, ![w].checked = TRUE]
       \/ /\ writer[w].op = "attempt"
          /\ IF Admits(writer[w].graph) /\ AdmitsAttempt(writer[w].id)
             THEN writer' = [writer EXCEPT ![w].checked = TRUE]
             ELSE writer' = [writer EXCEPT ![w] = Done(@)]
    /\ UNCHANGED <<marked, run, plans, records, placed, fence, caller, late>>

\* Mutant: the triggers on events and attempts are not installed.
TriggerOff(graph) == FALSE
\* workspace_bound_event_insert and workspace_bound_attempt_insert abort an unscoped row.
Trigger(graph) == graph = "BoundGraph" /\ bind.on

LegacyEvent == [gen |-> None, rev |-> None, task |-> 1, id |-> None]

\* save_run has no trigger behind its check.
WriteRow(w) ==
    /\ writer[w].op = "row" /\ writer[w].checked
    /\ run' \in Rows
    /\ late' = (late \/ bind.on)
    /\ writer' = [writer EXCEPT ![w] = Done(@)]
    /\ UNCHANGED <<marked, plans, records, placed, fence, caller>>

\* append, and save_run_and_events, which writes the row in the same transaction.
WriteEvent(w) ==
    /\ writer[w].op = "event" /\ writer[w].checked
    /\ \/ Trigger("BoundGraph") /\ UNCHANGED <<run, events>>
       \/ /\ ~Trigger("BoundGraph")
          /\ events' = events \cup {LegacyEvent}
          /\ run' \in {run} \cup Rows
    /\ writer' = [writer EXCEPT ![w] = Done(@)]
    /\ UNCHANGED <<marked, plans, attempts, next, placed, fence, caller, late>>

\* save_attempt: an insert, or an update of whatever row has the id by now.
WriteAttempt(w) ==
    /\ writer[w].op = "attempt" /\ writer[w].checked
    /\ LET id == writer[w].id IN
          \/ Trigger(writer[w].graph) /\ UNCHANGED <<attempts, late>>
          \/ /\ ~Trigger(writer[w].graph)
             /\ attempts' = [attempts EXCEPT ![id] =
                    IF @.graph = "none"
                    THEN [NoAttempt EXCEPT !.graph = writer[w].graph, !.task = 1, !.path = TRUE]
                    ELSE [@ EXCEPT !.path = TRUE]]
             /\ late' = (late \/ Scoped(id))
    /\ writer' = [writer EXCEPT ![w] = Done(@)]
    /\ UNCHANGED <<marked, run, plans, next, events, placed, fence, caller>>

\* reset_graph_execution: events and attempts (and evidence, before) by one statement each.
OfGraph == {i \in Ids : attempts[i].graph = "BoundGraph"}

DeleteEvents(w) ==
    /\ writer[w].op = "events" /\ writer[w].checked
    /\ events' = {}
    /\ late' = (late \/ bind.on)
    /\ writer' = [writer EXCEPT ![w].op = "attempts"]
    /\ UNCHANGED <<marked, run, plans, attempts, next, placed, fence, caller>>

\* Mutant: the statement runs without foreign keys.
ReferencedNever == FALSE
\* The location of a scoped attempt refers to it and its row cannot be deleted.
Referenced == \E i \in OfGraph : Scoped(i)

DeleteAttempts(w) ==
    /\ writer[w].op = "attempts" /\ writer[w].checked
    /\ attempts' = IF Referenced THEN attempts
                   ELSE [i \in Ids |-> IF i \in OfGraph THEN NoAttempt ELSE attempts[i]]
    /\ writer' = [writer EXCEPT ![w] = Done(@)]
    /\ UNCHANGED <<marked, run, plans, next, events, placed, fence, caller, late>>

Legacy(w) ==
    \/ TakeId(w) \/ Check(w) \/ WriteRow(w) \/ WriteEvent(w) \/ WriteAttempt(w)
    \/ DeleteEvents(w) \/ DeleteAttempts(w)

Next ==
    \/ \E c \in Callers : Caller(c) \/ Adopt(c)
    \/ \E w \in Writers : Legacy(w)
    \/ MoveAway

Spec == Init /\ [][Next]_vars

-----------------------------------------------------------------------------
TypeOK ==
    /\ run \in Rows
    /\ marked \in [run : BOOLEAN, attempts : SUBSET Ids]
    /\ bind \in [on : BOOLEAN, gen : GenIds \cup {None}, rev : RevIds \cup {None}]
    /\ revs \in [RevIds -> [there : BOOLEAN, pred : RevIds \cup {None},
                            gen : GenIds \cup {None}]]
    /\ auth \in [RevIds -> {"none", "Accepted", "Declined"}]
    /\ gens \in [GenIds -> [plan : Plans \cup {None}, rev : RevIds \cup {None}]]
    /\ attempts \in [Ids -> [graph : Graphs \cup {"none"}, gen : GenIds \cup {None},
                             rev : RevIds \cup {None}, task : 0..MaxRevs, path : BOOLEAN]]
    /\ next \in 1..(MaxIds + 1)
    /\ events \subseteq [gen : GenIds \cup {None}, rev : RevIds \cup {None}, task : Plans,
                         id : Ids \cup {None}]
    /\ placed \in BOOLEAN /\ late \in BOOLEAN
    /\ fence \in Callers \cup {NoOne}
    /\ caller \in [Callers -> [pc : {"idle", "activate", "adopt"}, b : RevIds \cup {None}]]
    /\ writer \in [Writers -> [op : {"none", "row", "event", "attempt", "events",
                                     "attempts"},
                               graph : Graphs, id : Ids \cup {None}, checked : BOOLEAN,
                               left : 0..MaxWrites]]

\* Once a graph is bound no unscoped event or attempt enters it, not even from a writer
\* whose check came before the binding (the two insert triggers).
LegacyNeverEntersBound ==
    [][bind.on => /\ {e \in events' : e.gen = None} \subseteq events
                  /\ \A i \in Ids : attempts'[i].graph = "BoundGraph" /\ attempts'[i].gen = None
                                     => attempts[i].graph = "BoundGraph"]_vars

\* The revisions from r back to the generation's first, as capture walks them: the
\* smallest set that r is in and that each of its members but the first leads on in.
Walk(r, initial) ==
    LET Leads(S) == {r} \cup {revs[q].pred : q \in S \ {initial}}
    IN  {q \in RevIds : \A S \in SUBSET RevIds : Leads(S) \subseteq S \cup {None} => q \in S}

Initial == gens[bind.gen].rev
Chain == Walk(bind.rev, Initial)

\* ReadSelection::capture: the chain from the current revision reaches the one the
\* generation was activated with, of the generation's plan, and stays in the generation.
Captures ==
    /\ Initial \in Chain /\ PlanOf(Initial) = gens[bind.gen].plan
    /\ \A r \in Chain \ {Initial} : revs[r].gen \in {None, bind.gen}

scoped_events == {e \in events : e.gen = bind.gen}
scoped_attempts == {i \in Ids : attempts[i].gen = bind.gen}

\* Once accepted is enough: a later decline does not take the execution back.
WasAccepted(r) == r \in Chain /\ auth[r] # "none"

\* The attempt's artifact is where its location says, which no legacy path replaced.
ReadsAttempt(i) ==
    /\ WasAccepted(attempts[i].rev)
    /\ attempts[i].task \in TasksOf(PlanOf(bind.rev)) /\ ~attempts[i].path

ReadsEvent(e) ==
    /\ WasAccepted(e.rev) /\ e.task \in TasksOf(PlanOf(bind.rev))
    /\ e.id # None => e.id \in scoped_attempts /\ attempts[e.id].task = e.task

read_frame_snapshot ==
    /\ WasAccepted(Initial)
    /\ \A i \in scoped_attempts : ReadsAttempt(i)
    /\ \A e \in scoped_events : ReadsEvent(e)

\* The current plan has lost a task that was executed.
Dropped ==
    \/ \E i \in scoped_attempts : attempts[i].task \notin TasksOf(PlanOf(bind.rev))
    \/ \E e \in scoped_events : e.task \notin TasksOf(PlanOf(bind.rev))

\* What the writers leave behind can be read back (ReadSelection::capture, read_frame): the
\* selection is captured and the frame accepted, whatever was authorized, activated and
\* selected in between, unless an admitted legacy write landed after the binding or the
\* current plan has dropped an executed task.
ObservationAccepts ==
    bind.on /\ bind.gen # None /\ ~late => Captures /\ (Dropped \/ read_frame_snapshot)

\* A scoped attempt keeps its row, its scope and its task (save_attempt's update, the
\* foreign key under reset_graph_execution, the id sequence).
ScopedAttemptKept ==
    [][\A i \in Ids : Scoped(i) =>
          /\ attempts'[i].graph = attempts[i].graph /\ attempts'[i].gen = attempts[i].gen
          /\ attempts'[i].rev = attempts[i].rev /\ attempts'[i].task = attempts[i].task]_vars

\* The run's row is the plan of the current revision (select_revision, project_revision,
\* activate_generation), unless an admitted legacy write landed after the binding.
RowIsCurrentRevision ==
    bind.on /\ bind.rev # None /\ ~late => run.plan = PlanOf(bind.rev)

\* A run that is marked as legacy becomes bound by a proved adoption and not otherwise: no
\* bound run has its mark, and the mark goes only while the recorded generation is in place
\* (create_run_binding, apply_adoption).
MarkGoesByProof ==
    [][/\ marked.run /\ ~marked'.run => Proven
       /\ bind'.on => ~marked'.run]_vars

\* What an observation accepts, and the row legacy readers see, belong to one
\* revision of the plan, whatever is selected or activated in between.
ReadsOneRevision == TypeOK /\ ObservationAccepts /\ RowIsCurrentRevision

\* Legacy and lifecycle rows stay apart: a check that is stale when its write
\* lands changes nothing of a bound graph, a scoped attempt is not overwritten,
\* and a run crosses over only by a proof that still holds.
LegacyStaysOut == LegacyNeverEntersBound /\ ScopedAttemptKept /\ MarkGoesByProof
=============================================================================
