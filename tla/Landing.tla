-------------------------------- MODULE Landing --------------------------------
(***************************************************************************)
(* How the work of a graph reaches the operator's branch, and how a graph  *)
(* is wiped to run again: restart, the per-deliverable build, and the two   *)
(* ways of landing, over the git adapter of adapters/src/git.rs.            *)
(*                                                                         *)
(* A branch is the set of attempts whose commits it holds.  The driver is   *)
(* reduced to what these commands meet: it adds a worktree, saves the row,  *)
(* merges an accepted branch, records it; RunLoop has the tick in full.     *)
(* A change replayed without work its base had may conflict.                *)
(***************************************************************************)
EXTENDS TaskGraph

CONSTANTS
  Graph,       \* the accepted plan
  MaxId,       \* bound: attempt ids explored
  MaxCrashes,  \* bound: deaths of the driver or of an operator command
  MaxFaults,   \* bound: git commands that fail for an outside reason
  MaxRestarts, \* bound: restart commands
  MaxBuilds    \* bound: operator commands

Tasks == IdsOf(Graph)
Tags == {n.tag : n \in nodes(Graph)} \ {NoTag}
Ids == 1..MaxId

ASSUME GraphAssumption == validate(Graph)
ASSUME BoundsAssumption ==
  {MaxId, MaxCrashes, MaxFaults, MaxRestarts, MaxBuilds} \subseteq Nat

VARIABLES
  log,       \* task -> Pending, Running, Accepted, Integrated
  rows,      \* attempt rows [id, task, base]
  evidence,  \* attempt ids with evidence rows
  branch,    \* attempt -> commits of its branch and worktree, or Absent
  integ,     \* commits of the integrate branch since run_base
  build,     \* tag -> commits of the deliverable worktree, or Absent
  target,    \* commits of meshloop in the ref the operator lands into
  forked,    \* target has commits that no meshloop branch has
  probe,     \* .meshloop-layout-probe exists in the graph's directory
  dpc, dcur, todo, dproven,            \* the driver
  opc, tag, left, head, landing,       \* the operator's command
  \* history
  accepted,  \* commits of attempts ever accepted
  whole,     \* tags whose worktree a prepare_deliverable finished
  orphaned,  \* a worktree exists whose row was not saved, or a removal failed
  halfway,   \* a restart has wiped something and not yet deleted the events
  disturbed, \* a task left Accepted or Integrated while a build was under way
  crashes, faults, restarts, builds

tables == <<log, rows, evidence>>
git == <<branch, integ>>
dlocals == <<dcur, todo, dproven>>
driver == <<dpc, dlocals>>
olocals == <<tag, left, head, landing>>
operator == <<build, target, forked, opc, olocals, whole, builds>>
past == <<accepted, orphaned, halfway, disturbed>>
vars == <<tables, git, probe, driver, operator, past, crashes, faults, restarts>>

Attempts == [task : Tasks, id : Ids]
Commits == [task : Tasks, id : Ids, run : 0..MaxRestarts]   \* of an attempt since a restart
Row == [id : Ids, task : Tasks, run : 0..MaxRestarts, base : SUBSET Commits]
TasksOf(commits) == {a.task : a \in commits}
NoAttempt == [task |-> 0, id |-> 0]
Absent == {NoAttempt}             \* no branch or worktree of that name
Done == {"Accepted", "Integrated"}

Init ==
  /\ log = [t \in Tasks |-> "Pending"] /\ rows = {} /\ evidence = {}
  /\ branch = [a \in Attempts |-> Absent] /\ integ = {}
  /\ build = [g \in Tags |-> Absent]
  /\ target = {} /\ forked = FALSE /\ probe = FALSE
  /\ dpc = "off" /\ dcur = NoAttempt /\ todo = {} /\ dproven = FALSE
  /\ opc = "off" /\ tag = NoTag /\ left = {} /\ head = {} /\ landing = FALSE
  /\ accepted = {} /\ whole = {} /\ orphaned = FALSE /\ halfway = FALSE /\ disturbed = FALSE
  /\ crashes = 0 /\ faults = 0 /\ restarts = 0 /\ builds = 0

(***************************************************************************)
(* The store and the git adapter.                                          *)
(***************************************************************************)
NextId == IF rows = {} THEN 1 ELSE 1 + CHOOSE i \in Ids :
            (\E r \in rows : r.id = i) /\ \A r \in rows : r.id <= i
Latest(t) == {r \in rows : r.task = t /\ \A q \in rows : q.task = t => q.id <= r.id}
Of(r) == [task |-> r.task, id |-> r.id]
Own(r) == [task |-> r.task, id |-> r.id, run |-> r.run]

\* A git command fails for an outside reason: an administrative command that
\* still meets a held lock after ten seconds of retries, a locked directory.
GitFails == faults < MaxFaults /\ faults' = faults + 1

\* Mutant: the whole attempt branch is replayed, not the commits after its base.
PickedWithBase(r) == branch[Of(r)]

\* cherry_pick_range base..branch: the commits of the task itself.
Picked(r) == branch[Of(r)] \ r.base

MayConflict(r, onto) == ~ (TasksOf(r.base) \subseteq TasksOf(onto))

(***************************************************************************)
(* The driver process.                                                     *)
(***************************************************************************)
DriverExits == dpc' = "off" /\ dcur' = NoAttempt /\ todo' = {} /\ dproven' = FALSE
Building == opc \in {"clear", "layout", "probe", "pick"}

\* restart reads the attempt rows; its process has no pending outcome yet.
Restart ==
  /\ dpc = "off" /\ restarts < MaxRestarts
  /\ dpc' = "wipe" /\ todo' = rows /\ restarts' = restarts + 1
  /\ UNCHANGED <<tables, git, probe, dcur, dproven, operator, past, crashes, faults>>

Resume ==
  /\ dpc = "off" /\ dpc' = "loop"
  /\ UNCHANGED <<tables, git, probe, dlocals, operator, past, crashes, faults, restarts>>

\* Mutant: the attempt rows are deleted as their worktrees are.
WipeDropsRow(r) ==
  /\ dpc = "wipe" /\ r \in todo /\ \A q \in todo : r.id <= q.id
  /\ todo' = todo \ {r} /\ rows' = {}
  /\ branch' = [branch EXCEPT ![Of(r)] = Absent] /\ halfway' = TRUE
  /\ UNCHANGED <<log, evidence, integ, probe, dpc, dcur, dproven, operator, accepted, orphaned,
                 disturbed, crashes, faults, restarts>>

\* The oldest row first: cancel the session, then remove the worktree and the
\* branch.  Errors are ignored, and the branch of a worktree that stays stays.
Wipe(r) ==
  /\ dpc = "wipe" /\ r \in todo /\ \A q \in todo : r.id <= q.id
  /\ todo' = todo \ {r}
  /\ \/ branch' = [branch EXCEPT ![Of(r)] = Absent] /\ UNCHANGED <<faults, orphaned>>
     \/ /\ branch[Of(r)] # Absent
        /\ GitFails /\ orphaned' = TRUE /\ UNCHANGED branch
  /\ halfway' = TRUE
  /\ UNCHANGED <<tables, integ, probe, dpc, dcur, dproven, operator, accepted, disturbed,
                 crashes, restarts>>

\* Mutant: the integrate worktree is left as it is.
ResetIntegrateSkipped ==
  /\ dpc = "wipe" /\ todo = {} /\ dpc' = "evidence" /\ halfway' = TRUE
  /\ UNCHANGED <<tables, git, probe, dlocals, operator, accepted, orphaned, disturbed, crashes,
                 faults, restarts>>

\* reset --hard of the integrate worktree to run_base; its error is ignored.
ResetIntegrate ==
  /\ dpc = "wipe" /\ todo = {} /\ dpc' = "evidence"
  /\ \/ integ' = {} /\ UNCHANGED faults
     \/ GitFails /\ UNCHANGED integ
  /\ halfway' = TRUE
  /\ UNCHANGED <<tables, branch, probe, dlocals, operator, accepted, orphaned, disturbed,
                 crashes, restarts>>

\* Mutant: evidence is left to its attempt ids.
DeleteEvidenceNever ==
  /\ dpc = "evidence" /\ dpc' = "events"
  /\ UNCHANGED <<tables, git, probe, dlocals, operator, past, crashes, faults, restarts>>

\* reset_graph_execution: three statements, no transaction.
DeleteEvidence ==
  /\ dpc = "evidence" /\ dpc' = "events"
  /\ evidence' = evidence \ {r.id : r \in rows}
  /\ UNCHANGED <<log, rows, git, probe, dlocals, operator, past, crashes, faults, restarts>>

DeleteEvents ==
  /\ dpc = "events" /\ dpc' = "attempts"
  /\ log' = [t \in Tasks |-> "Pending"] /\ halfway' = FALSE
  /\ disturbed' = (disturbed \/ Building)
  /\ UNCHANGED <<rows, evidence, git, probe, dlocals, operator, accepted, orphaned, crashes,
                 faults, restarts>>

DeleteAttempts ==
  /\ dpc = "attempts" /\ dpc' = "loop" /\ rows' = {}
  /\ UNCHANGED <<log, evidence, git, probe, dlocals, operator, past, crashes, faults, restarts>>

Dispatchable(t) ==
  log[t] = "Pending" /\ DepsOf(Graph, t) \subseteq {u \in Tasks : log[u] = "Integrated"}

\* prove_layout, once for each process and directory: a probe worktree is added
\* and removed.  A probe that is already there is an error.
DriverProbes ==
  /\ dpc = "loop" /\ ~dproven /\ \E t \in Tasks : Dispatchable(t)
  /\ IF probe THEN DriverExits /\ UNCHANGED probe
     ELSE probe' = TRUE /\ dpc' = "probe" /\ UNCHANGED dlocals
  /\ UNCHANGED <<tables, git, operator, past, crashes, faults, restarts>>

DriverProved ==
  /\ dpc = "probe" /\ probe' = FALSE /\ dproven' = TRUE /\ dpc' = "loop"
  /\ UNCHANGED <<tables, git, dcur, todo, operator, past, crashes, faults, restarts>>

\* dispatch_ready: the worktree at the integrate head, then the row.  A
\* worktree or branch of that name already there is an error.
AddWorktree(t) ==
  LET a == [task |-> t, id |-> NextId] IN
  /\ dpc = "loop" /\ dproven /\ Dispatchable(t) /\ NextId \in Ids
  /\ IF branch[a] # Absent THEN DriverExits /\ UNCHANGED branch
     ELSE /\ branch' = [branch EXCEPT ![a] = integ]
          /\ dcur' = a /\ dpc' = "row" /\ UNCHANGED <<todo, dproven>>
  /\ UNCHANGED <<tables, integ, probe, operator, past, crashes, faults, restarts>>

SaveAttempt ==
  /\ dpc = "row" /\ dpc' = "loop" /\ dcur' = NoAttempt
  /\ rows' = rows \cup {[id |-> dcur.id, task |-> dcur.task, run |-> restarts, base |-> branch[dcur]]}
  /\ log' = [log EXCEPT ![dcur.task] = "Running"]
  /\ UNCHANGED <<evidence, git, probe, todo, dproven, operator, past, crashes, faults, restarts>>

\* The worker commits; with its driver gone it goes on.
Commit(r) ==
  /\ log[r.task] = "Running" /\ r \in Latest(r.task)
  /\ branch[Of(r)] # Absent /\ Own(r) \notin branch[Of(r)]
  /\ branch' = [branch EXCEPT ![Of(r)] = @ \cup {Own(r)}]
  /\ UNCHANGED <<tables, integ, probe, driver, operator, past, crashes, faults, restarts>>

\* One evidence row of an attempt; the attempt ids alone are kept.
record(id) == evidence' = evidence \cup {id}

\* The checks and the review: the run ends accepted, with its evidence, or
\* failed, in its checks or before them, and to be retried.
Settle(r) ==
  /\ dpc = "loop" /\ r \in Latest(r.task) /\ log[r.task] = "Running"
  /\ \/ /\ branch[Of(r)] # Absent /\ Own(r) \in branch[Of(r)]
        /\ log' = [log EXCEPT ![r.task] = "Accepted"]
        /\ accepted' = accepted \cup {Own(r)} /\ record(r.id)
     \/ /\ log' = [log EXCEPT ![r.task] = "Pending"]
        /\ record(r.id) \/ UNCHANGED evidence
        /\ UNCHANGED accepted
  /\ UNCHANGED <<rows, git, probe, driver, operator, orphaned, halfway, disturbed, crashes,
                 faults, restarts>>

\* Mutant: the merge goes to whichever attempt of the task has a branch.
MergeAny(t) ==
  /\ dpc = "loop" /\ log[t] = "Accepted"
  /\ \E r \in rows : /\ r.task = t /\ branch[Of(r)] # Absent
                     /\ integ' = integ \cup branch[Of(r)] /\ dpc' = "merged" /\ dcur' = Of(r)
  /\ UNCHANGED <<tables, branch, probe, todo, dproven, operator, past, crashes, faults, restarts>>

\* integrate_accepted merges the branch of the latest attempt.  A branch that
\* is gone, or a conflict, is StaleBaseDetected: the task is to run again.
Merge(t) ==
  /\ dpc = "loop" /\ log[t] = "Accepted"
  /\ \E r \in Latest(t) :
       \/ /\ branch[Of(r)] # Absent
          /\ integ' = integ \cup branch[Of(r)] /\ dpc' = "merged" /\ dcur' = Of(r)
          /\ UNCHANGED <<log, disturbed>>
       \/ /\ branch[Of(r)] = Absent \/ (integ # r.base /\ ~ branch[Of(r)] \subseteq integ)
          /\ log' = [log EXCEPT ![t] = "Pending"] /\ disturbed' = (disturbed \/ Building)
          /\ UNCHANGED <<integ, dpc, dcur>>
  /\ UNCHANGED <<rows, evidence, branch, probe, todo, dproven, operator, accepted, orphaned,
                 halfway, crashes, faults, restarts>>

RecordMerge ==
  /\ dpc = "merged" /\ dpc' = "loop" /\ dcur' = NoAttempt
  /\ log' = [log EXCEPT ![dcur.task] = "Integrated"]
  /\ UNCHANGED <<rows, evidence, git, probe, todo, dproven, operator, past, crashes, faults,
                 restarts>>

\* loop_until_idle returns, for a human or because nothing is left to do.
Idle ==
  /\ dpc = "loop" /\ DriverExits
  /\ UNCHANGED <<tables, git, probe, operator, past, crashes, faults, restarts>>

DriverDies ==
  /\ dpc # "off" /\ crashes < MaxCrashes
  /\ DriverExits /\ crashes' = crashes + 1
  /\ orphaned' = (orphaned \/ dpc = "row")
  /\ UNCHANGED <<tables, git, probe, operator, accepted, halfway, disturbed, faults, restarts>>

-----------------------------------------------------------------------------
(* The operator's integrate command: landing is whether it has              *)
(* --accept-integrate.                                                       *)

Others == UNCHANGED <<tables, git, driver, past, restarts>>
OperatorExits == opc' = "off" /\ tag' = NoTag /\ left' = {} /\ head' = {} /\ landing' = FALSE

Closure(g) == deliverable_closure(Graph, g)

Issue == opc = "off" /\ builds < MaxBuilds /\ builds' = builds + 1

\* The checks of prepare_deliverable; a command that lands comes here only
\* when the worktree is absent.
PrepareDeliverable(g, accept) ==
  /\ Issue /\ (accept => build[g] = Absent)
  /\ \A t \in Closure(g) : log[t] \in Done
  /\ opc' = "clear" /\ tag' = g /\ left' = Closure(g) /\ landing' = accept
  /\ UNCHANGED <<build, target, forked, head, whole, probe, crashes, faults>> /\ Others

\* remove_worktree, prune, delete_branch: here an error ends the command.
ClearBuild ==
  /\ opc = "clear"
  /\ \/ /\ build' = [build EXCEPT ![tag] = Absent] /\ whole' = whole \ {tag}
        /\ opc' = "layout" /\ UNCHANGED <<olocals, faults>>
     \/ GitFails /\ OperatorExits /\ UNCHANGED <<build, whole>>
  /\ UNCHANGED <<target, forked, builds, probe, crashes>> /\ Others

OperatorProbes ==
  /\ opc = "layout"
  /\ IF probe THEN OperatorExits /\ UNCHANGED probe
     ELSE probe' = TRUE /\ opc' = "probe" /\ UNCHANGED olocals
  /\ UNCHANGED <<build, target, forked, whole, builds, crashes, faults>> /\ Others

\* The probe goes, and the worktree is added from run_base.
AddBuild ==
  /\ opc = "probe" /\ probe' = FALSE
  /\ build' = [build EXCEPT ![tag] = {}] /\ opc' = "pick"
  /\ UNCHANGED <<target, forked, olocals, whole, builds, crashes, faults>> /\ Others

\* One node in topological order.  A missing row or branch, or a conflict
\* (after cherry-pick --abort), ends the command and leaves the worktree.
Pick(t) ==
  /\ opc = "pick" /\ t \in left /\ DepsOf(Graph, t) \cap left = {}
  /\ \/ \E r \in Latest(t) :
          /\ branch[Of(r)] # Absent
          /\ build' = [build EXCEPT ![tag] = @ \cup Picked(r)]
          /\ left' = left \ {t} /\ UNCHANGED <<opc, tag, head, landing>>
     \/ /\ \A r \in Latest(t) : branch[Of(r)] = Absent \/ MayConflict(r, build[tag])
        /\ OperatorExits /\ UNCHANGED build
  /\ UNCHANGED <<target, forked, whole, builds, probe, crashes, faults>> /\ Others

\* prepare_deliverable returns: to the review, or to the landing that built it.
Built ==
  /\ opc = "pick" /\ left = {}
  /\ whole' = whole \cup {tag}
  /\ IF landing THEN opc' = "land" /\ head' = build[tag] /\ UNCHANGED <<tag, left, landing>>
     ELSE OperatorExits
  /\ UNCHANGED <<build, target, forked, builds, probe, crashes, faults>> /\ Others

\* land_worktree reads the head it will merge: of the integrate worktree, or of
\* a deliverable worktree that is there.  A dirty checkout changes nothing.
LandHead(g) ==
  /\ Issue /\ (g # NoTag => build[g] # Absent)
  /\ head' = IF g = NoTag THEN integ ELSE build[g]
  /\ opc' = "land" /\ tag' = g /\ landing' = TRUE
  /\ UNCHANGED <<build, target, forked, left, whole, probe, crashes, faults>> /\ Others

\* Fast-forward if the ref is an ancestor of the head, else a merge commit,
\* which a conflict aborts.
Land ==
  /\ opc = "land"
  /\ IF target \subseteq head /\ ~forked
       THEN target' = head /\ UNCHANGED forked
       ELSE \/ target' = target \cup head /\ forked' = TRUE
            \/ UNCHANGED <<target, forked>>
  /\ OperatorExits
  /\ UNCHANGED <<build, whole, builds, probe, crashes, faults>> /\ Others

OperatorDies ==
  /\ opc # "off" /\ crashes < MaxCrashes
  /\ OperatorExits /\ crashes' = crashes + 1
  /\ UNCHANGED <<build, target, forked, whole, builds, probe, faults>> /\ Others

Next ==
  \/ Restart \/ Resume \/ \E r \in todo : Wipe(r)
  \/ ResetIntegrate \/ DeleteEvidence \/ DeleteEvents \/ DeleteAttempts
  \/ DriverProbes \/ DriverProved \/ SaveAttempt \/ RecordMerge \/ Idle \/ DriverDies
  \/ \E t \in Tasks : AddWorktree(t) \/ Merge(t)
  \/ \E r \in rows : Commit(r) \/ Settle(r)
  \/ \E g \in Tags, accept \in BOOLEAN : PrepareDeliverable(g, accept)
  \/ ClearBuild \/ OperatorProbes \/ AddBuild \/ Built \/ Land \/ OperatorDies
  \/ \E t \in Tasks : Pick(t)
  \/ \E g \in Tags \cup {NoTag} : LandHead(g)

Spec == Init /\ [][Next]_vars

-----------------------------------------------------------------------------
(* Properties. *)

\* Every variable keeps its type; the driver and the operator's command hold
\* what their program counters say.
TypeOK ==
  /\ log \in [Tasks -> {"Pending", "Running"} \cup Done]
  /\ rows \in SUBSET Row /\ evidence \subseteq Ids
  /\ branch \in [Attempts -> {Absent} \cup SUBSET Commits] /\ integ \subseteq Commits
  /\ build \in [Tags -> {Absent} \cup SUBSET Commits] /\ target \subseteq Commits /\ forked \in BOOLEAN
  /\ probe \in BOOLEAN /\ dproven \in BOOLEAN /\ landing \in BOOLEAN
  /\ dpc \in {"off", "wipe", "evidence", "events", "attempts", "loop", "probe", "row", "merged"}
  /\ dcur \in Attempts \cup {NoAttempt} /\ todo \subseteq rows
  /\ (dcur # NoAttempt) = (dpc \in {"row", "merged"})
  /\ opc \in {"off", "clear", "layout", "probe", "pick", "land"}
  /\ tag \in Tags \cup {NoTag} /\ left \subseteq Tasks /\ head \subseteq Commits
  /\ opc = "pick" => build[tag] # Absent
  /\ accepted \subseteq Commits /\ whole \subseteq Tags
  /\ {orphaned, halfway, disturbed} \subseteq BOOLEAN
  /\ crashes \in 0..MaxCrashes /\ faults \in 0..MaxFaults
  /\ restarts \in 0..MaxRestarts /\ builds \in 0..MaxBuilds

\* A deliverable worktree that prepare_deliverable finished holds the work of
\* its closure and nothing of any other node, although attempt branches carry
\* the commits of nodes merged before them and the driver keeps merging.
BuiltIsClosure ==
  ~disturbed => \A g \in whole :
    /\ Tagged(Graph, g) \subseteq TasksOf(build[g])
    /\ \A t \in TasksOf(build[g]) : DepsOf(Graph, t) \subseteq TasksOf(build[g])
    /\ \A t \in TasksOf(build[g]) \ Tagged(Graph, g) :
         \E u \in TasksOf(build[g]) : t \in DepsOf(Graph, u)

\* Only commits of accepted attempts land: none of a failed or unreviewed run,
\* through the integrate branch, a deliverable, a crash or a restart.
LandedWasAccepted == ~disturbed => target \subseteq accepted

\* A restart that dies anywhere can be repeated: unless git refused to remove a
\* worktree or a dispatch died before its row, no worktree or branch stands
\* where the next dispatch will want its own.
NextWorktreeFree ==
  ~orphaned /\ dpc # "row" /\ NextId \in Ids =>
    \A t \in Tasks : branch[[task |-> t, id |-> NextId]] = Absent

\* Attempt ids start again after a restart; no evidence waits there for an
\* attempt that has not run.
NoInheritedEvidence == evidence \subseteq {r.id : r \in rows}

\* The log and the integrate branch agree outside a restart: an integrated task
\* is in the branch, and a branch git could reset holds no other work.
LogMatchesIntegrate ==
  ~halfway => /\ {t \in Tasks : log[t] = "Integrated"} \subseteq TasksOf(integ)
              /\ faults = 0 => TasksOf(integ) \subseteq {t \in Tasks : log[t] \in Done}

\* What the operator's branch and the deliverables hold is accepted work and
\* whole closures (prepare_deliverable, integrate_into).
LandsAcceptedWork == TypeOK /\ BuiltIsClosure /\ LandedWasAccepted

\* A restart that dies anywhere and is repeated leaves nothing of the old run for
\* the new one to trip over or to inherit (restart, reset_graph_execution).
RestartIsClean == NextWorktreeFree /\ NoInheritedEvidence /\ LogMatchesIntegrate

=============================================================================
