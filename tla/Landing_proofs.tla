--------------------------- MODULE Landing_proofs ---------------------------
(***************************************************************************)
(* Proofs about landing and restart, for any accepted plan and any number  *)
(* of attempts, deaths, failing git commands, restarts and builds.         *)
(*                                                                         *)
(* The argument.  The driver and the operator's command share the branches *)
(* and the log, and each writes only its own part, so the invariant has a  *)
(* part for each and a lemma says what keeps it under the other's steps.   *)
(* What a branch holds is known exactly: the base it was made from and at  *)
(* most its own commit.  An own commit is new when its row is, because     *)
(* every commit anywhere is stamped with an earlier restart or with a row  *)
(* that still exists, and this is what makes the commits after the base    *)
(* the task's alone.                                                       *)
(***************************************************************************)
EXTENDS Landing, TLAPS

-----------------------------------------------------------------------------
(* The inductive invariant. *)

\* The attempt rows are numbered as they come, and stamped with the restart they follow.
Wiping == {"wipe", "evidence", "events", "attempts"}
Numbered ==
  /\ \A r, q \in rows : r.id = q.id => r = q
  /\ rows # {} => \E r \in rows : \A q \in rows : q.id <= r.id
  /\ \A r \in rows : r.run <= restarts /\ (dpc \in Wiping => r.run < restarts)

\* What the driver holds between two of its effects.
Held ==
  /\ dpc # "wipe" => todo = {}
  /\ dpc = "row" => /\ \A r \in rows : r.id < dcur.id
                    /\ log[dcur.task] = "Pending" /\ branch[dcur] = integ
  /\ dpc = "merged" => log[dcur.task] = "Accepted" /\ dcur.task \in TasksOf(integ)

\* A commit is of an earlier run or of a row that is there, so a new row's own is new.
Stamped(c) == c.run < restarts \/ \E r \in rows : Own(r) = c

\* The branch of an attempt is its base and at most its own commit; the integrate
\* branch holds what was accepted.
Branches ==
  /\ \A c \in integ : c \in accepted /\ Stamped(c)
  /\ \A r \in rows :
       /\ \A c \in r.base : c \in accepted /\ Stamped(c)
       /\ Own(r) \notin r.base
       /\ branch[Of(r)] \in {Absent, r.base, r.base \cup {Own(r)}}
       /\ log[r.task] \in Done /\ r \in Latest(r.task) =>
            branch[Of(r)] \in {Absent, r.base \cup {Own(r)}} /\ Own(r) \in accepted

\* What a deliverable worktree holds at each point of the command that builds it.
Builds ==
  /\ opc \in {"clear", "layout", "probe", "pick"} => tag \in Tags /\ left \subseteq Closure(tag)
  /\ opc \in {"clear", "layout", "probe"} => left = Closure(tag)
  /\ opc \in {"layout", "probe", "pick"} => tag \notin whole
  /\ ~disturbed =>
       /\ Building => \A t \in Closure(tag) : log[t] \in Done
       /\ \A g \in Tags : build[g] # Absent => build[g] \subseteq accepted
       /\ opc = "pick" => TasksOf(build[tag]) = Closure(tag) \ left
       /\ \A g \in whole : build[g] # Absent /\ TasksOf(build[g]) = Closure(g)
       /\ opc = "land" => head \subseteq accepted
       /\ target \subseteq accepted

\* What a restart has wiped is gone, and no branch is without its row.
Wiped ==
  /\ (faults = 0 \/ ~orphaned) /\ dpc \in Wiping =>
       \A r \in rows \ todo : branch[Of(r)] = Absent
  /\ ~orphaned => \A a \in Attempts :
       branch[a] # Absent => (\E r \in rows : Of(r) = a) \/ (dpc = "row" /\ dcur = a)
  /\ evidence \subseteq {r.id : r \in rows}
  /\ dpc \in {"events", "attempts"} => evidence = {}
  /\ faults = 0 /\ dpc \in {"evidence", "events", "attempts"} => integ = {}

\* Outside a restart, what is in the integrate branch is the latest attempt of its task.
Agreed ==
  /\ ~halfway => {t \in Tasks : log[t] = "Integrated"} \subseteq TasksOf(integ)
  /\ ~halfway /\ faults = 0 =>
       /\ \A c \in integ : log[c.task] \in Done /\ \E r \in Latest(c.task) : c = Own(r)
       /\ \A r \in rows : branch[Of(r)] # Absent => r.base \subseteq integ
       /\ \A t \in Tasks : log[t] # "Pending" => \A r \in Latest(t) : branch[Of(r)] # Absent

IInv == TypeOK /\ Numbered /\ Held /\ Branches /\ Builds /\ Wiped /\ Agreed

-----------------------------------------------------------------------------
(* The data. *)

\* A set of commits is not the mark of a missing branch: no task is numbered 0.
LEMMA NotAbsent == \A S \in SUBSET Commits : S # Absent /\ NoAttempt \notin S
<1>1. 0 \notin Tasks
  BY GraphAssumption DEF validate, Tasks, IdsOf
<1>2. \A c \in Commits : c.task \in Tasks
  BY DEF Commits
<1>3. NoAttempt \notin Commits
  BY <1>1, <1>2 DEF NoAttempt
<1> QED
  BY <1>3 DEF Absent

\* The closure of a deliverable: its nodes and what they depend on, and no node that
\* nothing in it depends on (run_loop.rs, deliverable_closure).
LEMMA ClosureFacts ==
  ASSUME NEW g
  PROVE  /\ Tagged(Graph, g) \subseteq Closure(g) /\ Closure(g) \subseteq Tasks
         /\ \A t \in Closure(g) : DepsOf(Graph, t) \subseteq Closure(g)
         /\ \A t \in Closure(g) \ Tagged(Graph, g) : \E u \in Closure(g) : t \in DepsOf(Graph, u)
<1> DEFINE Closed(S) == Tagged(Graph, g) \subseteq S /\ \A u \in S : DepsOf(Graph, u) \subseteq S
<1>1. Closure(g) = {t \in Tasks : \A S \in SUBSET Tasks : Closed(S) => t \in S}
  BY DEF Closure, deliverable_closure, Tasks
<1>2. Tagged(Graph, g) \subseteq Tasks
  BY DEF Tagged, Tasks, IdsOf
<1>3. \A t \in Tasks : DepsOf(Graph, t) \subseteq Tasks
  BY GraphAssumption DEF validate, DepsOf, Tasks
<1> HIDE DEF Closed
<1>4. \A t \in Closure(g) : DepsOf(Graph, t) \subseteq Closure(g)
  <2> SUFFICES ASSUME NEW t \in Closure(g), NEW d \in DepsOf(Graph, t), NEW S \in SUBSET Tasks, Closed(S)
               PROVE  d \in S
    BY <1>1, <1>3
  <2> QED
    BY <1>1 DEF Closed
<1>5. Tagged(Graph, g) \subseteq Closure(g)
  BY <1>1, <1>2 DEF Closed
<1>6. ASSUME NEW t \in Closure(g) \ Tagged(Graph, g), \A u \in Closure(g) : t \notin DepsOf(Graph, u)
      PROVE  FALSE
  <2>1. Closure(g) \ {t} \in SUBSET Tasks
    BY <1>1
  <2>2. Closed(Closure(g) \ {t})
    BY <1>4, <1>5, <1>6 DEF Closed
  <2> QED
    BY <1>1, <2>1, <2>2
<1> QED
  BY <1>1, <1>4, <1>5, <1>6

\* Every row is one, and its branch is its own.
LEMMA RowFacts ==
  ASSUME TypeOK, Numbered
  PROVE  /\ \A r \in rows : /\ r.id \in Ids /\ r.task \in Tasks /\ r.run \in 0..MaxRestarts
                            /\ r.base \in SUBSET Commits /\ Of(r) \in Attempts /\ Own(r) \in Commits
                            /\ Of(r).id = r.id /\ Of(r).task = r.task
                            /\ Own(r).id = r.id /\ Own(r).task = r.task /\ Own(r).run = r.run
         /\ \A r, q \in rows : r.id = q.id => r = q
         /\ \A r, q \in rows : Of(r) = Of(q) => r = q
<1>1. \A r \in rows : /\ r.id \in Ids /\ r.task \in Tasks /\ r.run \in 0..MaxRestarts
                      /\ r.base \in SUBSET Commits
  BY DEF TypeOK, Row
<1>2. \A r \in rows : /\ Of(r) \in Attempts /\ Own(r) \in Commits
                      /\ Of(r).id = r.id /\ Of(r).task = r.task
                      /\ Own(r).id = r.id /\ Own(r).task = r.task /\ Own(r).run = r.run
  BY <1>1 DEF Of, Own, Attempts, Commits
<1> QED
  BY <1>1, <1>2 DEF Numbered

-----------------------------------------------------------------------------
(* What each side leaves to the other. *)

\* A step of the operator's command leaves the driver's part alone; it may spend a fault.
OperatorStep ==
  /\ UNCHANGED <<tables, git, driver, past, restarts>>
  /\ faults' \in {faults, faults + 1}

LEMMA OperatorKeeps ==
  ASSUME IInv, OperatorStep, TypeOK', Builds'
  PROVE  IInv'
<1> USE DEF OperatorStep, tables, git, driver, dlocals, past
<1>1. faults \in Nat /\ faults' \in Nat
  BY BoundsAssumption DEF IInv, TypeOK
<1>2. faults' = 0 => faults = 0
  BY <1>1
<1>3. \A t \in Tasks : Latest(t)' = Latest(t)
  BY DEF Latest
<1>4. Numbered' /\ Held'
  BY DEF IInv, Numbered, Held
<1>5. Branches'
  BY <1>3 DEF IInv, Branches, Stamped, Latest
<1>6. Wiped'
  BY <1>2 DEF IInv, Wiped
<1>7. Agreed'
  BY <1>2, <1>3 DEF IInv, Agreed, TypeOK, Commits, Latest
<1> QED
  BY <1>4, <1>5, <1>6, <1>7 DEF IInv

\* A step of the driver leaves the builds alone; it may accept more, and a task leaves
\* Done during a build only as a disturbance.
DriverStep ==
  /\ UNCHANGED operator
  /\ accepted \subseteq accepted'
  /\ ~disturbed' => ~disturbed /\ (Building => \A t \in Tasks : log[t] \in Done => log'[t] \in Done)

LEMMA DriverKeepsBuilds ==
  ASSUME IInv, DriverStep
  PROVE  Builds'
<1> USE DEF DriverStep, operator, olocals
<1>1. Builds /\ TypeOK
  BY DEF IInv
<1>2. \A g : Closure(g) \subseteq Tasks /\ Closure(g)' = Closure(g)
  BY ClosureFacts DEF Closure
<1>3. tag' = tag /\ opc' = opc /\ left' = left /\ whole' = whole /\ head' = head /\ target' = target
      /\ build' = build /\ (Building' <=> Building)
  BY DEF Building
<1>4. ~disturbed' /\ Building => \A t \in Closure(tag) : log'[t] \in Done
  BY <1>1, <1>2 DEF Builds
<1>5. ~disturbed' => \A g \in Tags : build[g] # Absent => build[g] \subseteq accepted'
  BY <1>1 DEF Builds
<1>6. ~disturbed' => target \subseteq accepted' /\ (opc = "land" => head \subseteq accepted')
  BY <1>1 DEF Builds
<1>7. ~disturbed' => ~disturbed
  OBVIOUS
<1> QED
  BY <1>1, <1>2, <1>3, <1>4, <1>5, <1>6, <1>7 DEF Builds, Building

-----------------------------------------------------------------------------
(* The operator's command. *)

\* The driver's part of the type invariant, which no step of the operator touches.
LEMMA OperatorTyped ==
  ASSUME TypeOK, OperatorStep, faults' \in 0..MaxFaults, crashes' \in 0..MaxCrashes,
         builds' \in 0..MaxBuilds, probe' \in BOOLEAN, landing' \in BOOLEAN, forked' \in BOOLEAN,
         build' \in [Tags -> {Absent} \cup SUBSET Commits], target' \subseteq Commits,
         opc' \in {"off", "clear", "layout", "probe", "pick", "land"},
         tag' \in Tags \cup {NoTag}, left' \subseteq Tasks, head' \subseteq Commits,
         opc' = "pick" => build'[tag'] # Absent, whole' \subseteq Tags
  PROVE  TypeOK'
  BY DEF TypeOK, OperatorStep, tables, git, driver, dlocals, past

\* A command that ends, or has not begun, holds nothing.
LEMMA OperatorExitKeeps ==
  ASSUME IInv, OperatorExits, OperatorStep, UNCHANGED <<build, forked, probe>>,
         faults' \in 0..MaxFaults, crashes' \in 0..MaxCrashes, builds' \in 0..MaxBuilds,
         whole' \subseteq whole, target' \in SUBSET Commits,
         ~disturbed => target' \subseteq accepted
  PROVE  IInv'
<1>1. TypeOK'
  BY OperatorTyped DEF IInv, TypeOK, OperatorExits
<1>2. Builds'
  BY DEF IInv, TypeOK, Builds, Building, OperatorExits, OperatorStep, tables, past, Closure
<1> QED
  BY <1>1, <1>2, OperatorKeeps

LEMMA PrepareDeliverableKeeps ==
  ASSUME IInv, NEW g \in Tags, NEW accept \in BOOLEAN, PrepareDeliverable(g, accept)
  PROVE  IInv'
<1> USE DEF PrepareDeliverable, Others, Issue
<1>1. OperatorStep
  BY DEF OperatorStep
<1>2. Closure(g) \subseteq Tasks
  BY ClosureFacts
<1>3. TypeOK'
  BY <1>1, <1>2, OperatorTyped, BoundsAssumption DEF IInv, TypeOK
<1>4. Builds'
  BY <1>2 DEF IInv, Builds, Building, Closure, tables, past
<1> QED
  BY <1>1, <1>3, <1>4, OperatorKeeps

LEMMA ClearBuildKeeps ==
  ASSUME IInv, ClearBuild
  PROVE  IInv'
<1> USE DEF ClearBuild, Others
<1>1. OperatorStep
  BY DEF OperatorStep, GitFails
<1>2. CASE GitFails /\ OperatorExits /\ UNCHANGED <<build, whole>>
  BY <1>1, <1>2, OperatorExitKeeps, BoundsAssumption DEF IInv, TypeOK, Builds, GitFails
<1>3. CASE /\ build' = [build EXCEPT ![tag] = Absent] /\ whole' = whole \ {tag}
           /\ opc' = "layout" /\ UNCHANGED <<olocals, faults>>
  <2>1. TypeOK'
    BY <1>1, <1>3, OperatorTyped DEF IInv, TypeOK, olocals
  <2>2. build'[tag] = Absent /\ \A h \in Tags \ {tag} : build'[h] = build[h]
    BY <1>3 DEF IInv, TypeOK, Builds
  <2>3. Builds'
    BY <1>3, <2>2 DEF IInv, TypeOK, Builds, Building, Closure, tables, past, olocals
  <2> QED
    BY <1>1, <2>1, <2>3, OperatorKeeps
<1> QED
  BY <1>2, <1>3

LEMMA OperatorProbesKeeps ==
  ASSUME IInv, OperatorProbes
  PROVE  IInv'
<1> USE DEF OperatorProbes, Others
<1>1. OperatorStep
  BY DEF OperatorStep
<1>2. CASE probe
  BY <1>1, <1>2, OperatorExitKeeps DEF IInv, TypeOK, Builds
<1>3. CASE ~probe
  <2>1. TypeOK'
    BY <1>1, <1>3, OperatorTyped DEF IInv, TypeOK, olocals
  <2>2. Builds'
    BY <1>3 DEF IInv, TypeOK, Builds, Building, Closure, tables, past, olocals
  <2> QED
    BY <1>1, <2>1, <2>2, OperatorKeeps
<1> QED
  BY <1>2, <1>3

LEMMA AddBuildKeeps ==
  ASSUME IInv, AddBuild
  PROVE  IInv'
<1> USE DEF AddBuild, Others
<1>1. OperatorStep
  BY DEF OperatorStep
<1>2. tag \in Tags /\ build'[tag] = {} /\ \A h \in Tags \ {tag} : build'[h] = build[h]
  BY DEF IInv, TypeOK, Builds
<1>3. {} # Absent
  BY NotAbsent
<1>4. TypeOK'
  BY <1>1, <1>2, <1>3, OperatorTyped DEF IInv, TypeOK, olocals
<1>5. TasksOf({}) = {}
  BY DEF TasksOf
<1>6. Builds'
  BY <1>2, <1>5 DEF IInv, TypeOK, Builds, Building, Closure, tables, past, olocals, TasksOf
<1> QED
  BY <1>1, <1>4, <1>6, OperatorKeeps

LEMMA PickKeeps ==
  ASSUME IInv, NEW t \in Tasks, Pick(t)
  PROVE  IInv'
<1> USE DEF Pick, Others
<1>1. OperatorStep
  BY DEF OperatorStep
<1>2. CASE OperatorExits /\ UNCHANGED build
  BY <1>1, <1>2, OperatorExitKeeps DEF IInv, TypeOK, Builds
<1>3. ASSUME NEW r \in Latest(t), branch[Of(r)] # Absent,
             build' = [build EXCEPT ![tag] = @ \cup Picked(r)],
             left' = left \ {t}, UNCHANGED <<opc, tag, head, landing>>
      PROVE  IInv'
  <2>1. /\ r \in rows /\ r.task = t /\ Of(r) \in Attempts /\ Own(r) \in Commits /\ Own(r).task = t
        /\ r.base \in SUBSET Commits
    BY <1>3, RowFacts DEF IInv, Latest
  <2>2. branch[Of(r)] \in {Absent, r.base, r.base \cup {Own(r)}} /\ Own(r) \notin r.base
    BY <2>1 DEF IInv, Branches
  <2>3. Picked(r) \in SUBSET Commits
    BY <1>3, <2>1, <2>2 DEF Picked
  <2>4. tag \in Tags /\ build[tag] \in SUBSET Commits /\ tag \notin whole
    BY DEF IInv, TypeOK, Builds
  <2>5. build'[tag] = build[tag] \cup Picked(r) /\ \A h \in Tags \ {tag} : build'[h] = build[h]
    BY <1>3, <2>4 DEF IInv, TypeOK
  <2>6. build'[tag] \in SUBSET Commits /\ build'[tag] # Absent
    BY <2>3, <2>4, <2>5, NotAbsent
  <2>7. TypeOK'
    BY <1>1, <1>3, <2>4, <2>5, <2>6, OperatorTyped DEF IInv, TypeOK
  <2>8. ASSUME ~disturbed
        PROVE  /\ Picked(r) = {Own(r)} /\ Own(r) \in accepted
               /\ TasksOf(build'[tag]) = Closure(tag) \ (left \ {t})
               /\ build'[tag] \subseteq accepted
    <3>1. t \in Closure(tag) /\ log[t] \in Done
      BY <2>8 DEF IInv, Builds, Building
    <3>2. branch[Of(r)] = r.base \cup {Own(r)} /\ Own(r) \in accepted
      BY <1>3, <2>1, <3>1 DEF IInv, Branches
    <3>3. Picked(r) = {Own(r)}
      BY <2>2, <3>2 DEF Picked
    <3>4. TasksOf(build'[tag]) = TasksOf(build[tag]) \cup {t}
      BY <2>1, <2>5, <3>3 DEF TasksOf
    <3>5. TasksOf(build[tag]) = Closure(tag) \ left /\ build[tag] \subseteq accepted
      BY <2>4, <2>8 DEF IInv, Builds, TypeOK
    <3> QED
      BY <2>5, <3>1, <3>2, <3>3, <3>4, <3>5
  <2>9. Builds'
    BY <1>3, <2>4, <2>5, <2>8 DEF IInv, Builds, Building, Closure, tables, past
  <2> QED
    BY <1>1, <2>7, <2>9, OperatorKeeps
<1> QED
  BY <1>2, <1>3

LEMMA BuiltKeeps ==
  ASSUME IInv, Built
  PROVE  IInv'
<1> USE DEF Built, Others
<1>1. OperatorStep
  BY DEF OperatorStep
<1>2. tag \in Tags /\ build[tag] \in SUBSET Commits /\ build[tag] # Absent
  BY DEF IInv, TypeOK, Builds
<1>3. TypeOK'
  BY <1>1, <1>2, OperatorTyped DEF IInv, TypeOK, OperatorExits
<1>4. ~disturbed => TasksOf(build[tag]) = Closure(tag) /\ build[tag] \subseteq accepted
  BY <1>2 DEF IInv, Builds
<1>5. Builds'
  BY <1>2, <1>4 DEF IInv, Builds, Building, Closure, tables, past, OperatorExits
<1> QED
  BY <1>1, <1>3, <1>5, OperatorKeeps

LEMMA LandHeadKeeps ==
  ASSUME IInv, NEW g \in Tags \cup {NoTag}, LandHead(g)
  PROVE  IInv'
<1> USE DEF LandHead, Others, Issue
<1>1. OperatorStep
  BY DEF OperatorStep
<1>2. head' \in SUBSET Commits
  BY DEF IInv, TypeOK
<1>3. TypeOK'
  BY <1>1, <1>2, OperatorTyped, BoundsAssumption DEF IInv, TypeOK
<1>4. ~disturbed => head' \subseteq accepted
  BY DEF IInv, Builds, Branches
<1>5. Builds'
  BY <1>4 DEF IInv, Builds, Building, Closure, tables, past
<1> QED
  BY <1>1, <1>3, <1>5, OperatorKeeps

LEMMA LandKeeps ==
  ASSUME IInv, Land
  PROVE  IInv'
<1> USE DEF Land, Others
<1>1. OperatorStep
  BY DEF OperatorStep
<1>2. target' \in {head, target \cup head, target} /\ forked' \in BOOLEAN
  BY DEF IInv, TypeOK
<1>3. target' \in SUBSET Commits /\ (~disturbed => target' \subseteq accepted)
  BY <1>2 DEF IInv, TypeOK, Builds
<1>4. TypeOK'
  BY <1>1, <1>2, <1>3, OperatorTyped DEF IInv, TypeOK, OperatorExits
<1>5. Builds'
  BY <1>3 DEF IInv, Builds, Building, Closure, tables, past, OperatorExits
<1> QED
  BY <1>1, <1>4, <1>5, OperatorKeeps

LEMMA OperatorDiesKeeps ==
  ASSUME IInv, OperatorDies
  PROVE  IInv'
<1> USE DEF OperatorDies, Others
<1>1. OperatorStep
  BY DEF OperatorStep
<1> QED
  BY <1>1, OperatorExitKeeps, BoundsAssumption DEF IInv, TypeOK, Builds

-----------------------------------------------------------------------------
(* The driver, between its effects. *)

\* The type invariant of the parts a step of the driver may change.
LEMMA DriverTyped ==
  ASSUME TypeOK, UNCHANGED operator, UNCHANGED builds,
         log' \in [Tasks -> {"Pending", "Running"} \cup Done], rows' \in SUBSET Row, evidence' \subseteq Ids,
         branch' \in [Attempts -> {Absent} \cup SUBSET Commits], integ' \subseteq Commits,
         probe' \in BOOLEAN, dproven' \in BOOLEAN,
         dpc' \in {"off", "wipe", "evidence", "events", "attempts", "loop", "probe", "row", "merged"},
         dcur' \in Attempts \cup {NoAttempt}, todo' \subseteq rows',
         (dcur' # NoAttempt) = (dpc' \in {"row", "merged"}),
         accepted' \subseteq Commits, orphaned' \in BOOLEAN, halfway' \in BOOLEAN, disturbed' \in BOOLEAN,
         crashes' \in 0..MaxCrashes, faults' \in 0..MaxFaults, restarts' \in 0..MaxRestarts
  PROVE  TypeOK'
  BY DEF TypeOK, operator, olocals

\* The driver starts, probes, exits or dies: it holds nothing, and an attempt whose row
\* it had not saved is an orphan.
LEMMA DriverMoves ==
  ASSUME IInv, UNCHANGED <<tables, git, operator, accepted, halfway, disturbed, faults, restarts>>,
         dpc' \in {"off", "loop", "probe"}, dcur' = NoAttempt, todo' = {}, probe' \in BOOLEAN,
         dproven' \in BOOLEAN, crashes' \in 0..MaxCrashes, orphaned' = (orphaned \/ dpc = "row")
  PROVE  IInv'
<1> USE DEF tables, git
<1>1. TypeOK'
  BY DriverTyped DEF IInv, TypeOK, operator
<1>2. DriverStep
  BY DEF DriverStep
<1>3. \A t \in Tasks : Latest(t)' = Latest(t)
  BY DEF Latest
<1>4. Numbered' /\ Held'
  BY DEF IInv, Numbered, Held, Wiping
<1>5. Branches'
  BY <1>3 DEF IInv, Branches, Stamped, Latest
<1>6. Wiped'
  BY DEF IInv, Wiped, Wiping
<1>7. Agreed'
  BY <1>3 DEF IInv, Agreed, TypeOK, Commits, Latest
<1> QED
  BY <1>1, <1>2, <1>4, <1>5, <1>6, <1>7, DriverKeepsBuilds DEF IInv

LEMMA ResumeKeeps ==
  ASSUME IInv, Resume
  PROVE  IInv'
  BY DriverMoves DEF IInv, TypeOK, Held, Resume, dlocals, past

LEMMA DriverProbesKeeps ==
  ASSUME IInv, DriverProbes
  PROVE  IInv'
  BY DriverMoves DEF IInv, TypeOK, Held, DriverProbes, DriverExits, dlocals, past

LEMMA DriverProvedKeeps ==
  ASSUME IInv, DriverProved
  PROVE  IInv'
  BY DriverMoves DEF IInv, TypeOK, Held, DriverProved, dlocals, past

LEMMA IdleKeeps ==
  ASSUME IInv, Idle
  PROVE  IInv'
  BY DriverMoves DEF IInv, TypeOK, Held, Idle, DriverExits, dlocals, past

LEMMA DriverDiesKeeps ==
  ASSUME IInv, DriverDies
  PROVE  IInv'
<1>1. crashes' \in 0..MaxCrashes
  BY BoundsAssumption DEF IInv, TypeOK, DriverDies
<1> QED
  BY <1>1, DriverMoves DEF IInv, TypeOK, DriverDies, DriverExits

-----------------------------------------------------------------------------
(* Restart. *)

LEMMA RestartKeeps ==
  ASSUME IInv, Restart
  PROVE  IInv'
<1> USE DEF Restart, tables, git, past
<1>1. restarts \in Nat /\ restarts' = restarts + 1 /\ restarts' \in 0..MaxRestarts
  BY BoundsAssumption DEF IInv, TypeOK
<1>2. TypeOK'
  BY <1>1, DriverTyped DEF IInv, TypeOK, operator
<1>3. DriverStep
  BY DEF DriverStep
<1>4. \A t \in Tasks : Latest(t)' = Latest(t)
  BY DEF Latest
<1>5. \A r \in rows : r.run \in Nat
  BY DEF IInv, TypeOK, Row
<1>6. Numbered'
  BY <1>1, <1>5 DEF IInv, Numbered, Wiping
<1>7. Held'
  BY DEF Held
<1>8. \A c \in Commits : Stamped(c) => Stamped(c)'
  <2>1. \A c \in Commits : c.run \in Nat
    BY DEF Commits
  <2> QED
    BY <1>1, <2>1 DEF Stamped
<1>9. Branches'
  <2>1. integ \subseteq Commits /\ \A r \in rows : r.base \subseteq Commits
    BY DEF IInv, TypeOK, Row
  <2> QED
    BY <1>4, <1>8, <2>1 DEF IInv, Branches, Latest
<1>10. Wiped'
  BY DEF IInv, Wiped, Wiping
<1>11. Agreed'
  BY <1>4 DEF IInv, Agreed, TypeOK, Commits, Latest
<1> QED
  BY <1>2, <1>3, <1>6, <1>7, <1>9, <1>10, <1>11, DriverKeepsBuilds DEF IInv

LEMMA WipeKeeps ==
  ASSUME IInv, NEW r \in todo, Wipe(r)
  PROVE  IInv'
<1> USE DEF Wipe, tables
<1>1. r \in rows /\ Of(r) \in Attempts /\ \A q \in rows : Of(q) = Of(r) => q = r
  BY RowFacts DEF IInv, TypeOK
<1>2. /\ branch'[Of(r)] \in {Absent, branch[Of(r)]}
      /\ \A a \in Attempts : a # Of(r) => branch'[a] = branch[a]
      /\ branch' \in [Attempts -> {Absent} \cup SUBSET Commits]
  BY <1>1 DEF IInv, TypeOK
<1>3. \/ branch'[Of(r)] = Absent /\ faults' = faults /\ orphaned' = orphaned
      \/ faults' = faults + 1 /\ orphaned' = TRUE /\ branch' = branch /\ faults < MaxFaults
  BY <1>1 DEF IInv, TypeOK, GitFails
<1>4. faults \in Nat /\ faults' \in 0..MaxFaults
  BY <1>3, BoundsAssumption DEF IInv, TypeOK
<1>5. TypeOK'
  BY <1>1, <1>2, <1>3, <1>4, DriverTyped DEF IInv, TypeOK, operator
<1>6. DriverStep
  BY DEF DriverStep
<1>7. \A t \in Tasks : Latest(t)' = Latest(t)
  BY DEF Latest
<1>8. Numbered' /\ Held'
  BY DEF IInv, Numbered, Held, Wiping
<1>9. Branches'
  <2>1. \A q \in rows : Of(q) \in Attempts
    BY RowFacts DEF IInv
  <2> QED
    BY <1>2, <1>7, <2>1 DEF IInv, Branches, Stamped, Latest
<1>10. Wiped'
  <2>1. \A q \in rows : Of(q) \in Attempts
    BY RowFacts DEF IInv
  <2> QED
    BY <1>1, <1>2, <1>3, <1>4, <2>1 DEF IInv, Wiped, Wiping
<1>11. Agreed'
  BY DEF Agreed
<1> QED
  BY <1>5, <1>6, <1>8, <1>9, <1>10, <1>11, DriverKeepsBuilds DEF IInv

LEMMA ResetIntegrateKeeps ==
  ASSUME IInv, ResetIntegrate
  PROVE  IInv'
<1> USE DEF ResetIntegrate, tables
<1>1. integ' \in {{}, integ} /\ faults' \in {faults, faults + 1} /\ (integ' # {} => faults' = faults + 1)
      /\ (faults' = faults + 1 => faults < MaxFaults)
  BY BoundsAssumption DEF IInv, TypeOK, GitFails
<1>2. faults \in Nat /\ faults' \in 0..MaxFaults
  BY <1>1, BoundsAssumption DEF IInv, TypeOK
<1>3. TypeOK'
  BY <1>1, <1>2, DriverTyped DEF IInv, TypeOK, operator, dlocals
<1>4. DriverStep
  BY DEF DriverStep
<1>5. \A t \in Tasks : Latest(t)' = Latest(t)
  BY DEF Latest
<1>6. Numbered' /\ Held'
  BY DEF IInv, Numbered, Held, Wiping, dlocals
<1>7. Branches'
  BY <1>1, <1>5 DEF IInv, Branches, Stamped, Latest
<1>8. Wiped'
  BY <1>1, <1>2 DEF IInv, Wiped, Wiping, dlocals
<1>9. Agreed'
  BY DEF Agreed
<1> QED
  BY <1>3, <1>4, <1>6, <1>7, <1>8, <1>9, DriverKeepsBuilds DEF IInv

LEMMA DeleteEvidenceKeeps ==
  ASSUME IInv, DeleteEvidence
  PROVE  IInv'
<1> USE DEF DeleteEvidence, git, past
<1>1. evidence' = {}
  BY DEF IInv, Wiped
<1>2. TypeOK'
  BY <1>1, DriverTyped DEF IInv, TypeOK, operator, dlocals
<1>3. DriverStep
  BY DEF DriverStep
<1>4. \A t \in Tasks : Latest(t)' = Latest(t)
  BY DEF Latest
<1>5. Numbered' /\ Held'
  BY DEF IInv, Numbered, Held, Wiping, dlocals
<1>6. Branches'
  BY <1>4 DEF IInv, Branches, Stamped, Latest
<1>7. Wiped'
  BY <1>1 DEF IInv, Wiped, Wiping, dlocals
<1>8. Agreed'
  BY <1>4 DEF IInv, Agreed, TypeOK, Commits, Latest
<1> QED
  BY <1>2, <1>3, <1>5, <1>6, <1>7, <1>8, DriverKeepsBuilds DEF IInv

LEMMA DeleteEventsKeeps ==
  ASSUME IInv, DeleteEvents
  PROVE  IInv'
<1> USE DEF DeleteEvents, git
<1>1. \A t \in Tasks : log'[t] = "Pending"
  OBVIOUS
<1>2. TypeOK'
  <2>1. disturbed' \in BOOLEAN
    BY DEF IInv, TypeOK, Building
  <2>2. /\ log' \in [Tasks -> {"Pending", "Running"} \cup Done] /\ dpc' = "attempts" /\ halfway' = FALSE
        /\ UNCHANGED <<rows, evidence, branch, integ, probe, dcur, todo, dproven, operator, accepted,
                       orphaned, crashes, faults, restarts>>
        /\ dpc = "events"
    BY DEF dlocals
  <2>3. TypeOK /\ dcur = NoAttempt /\ todo \subseteq rows
    BY <2>2 DEF IInv, TypeOK
  <2>4. /\ rows' \in SUBSET Row /\ evidence' \subseteq Ids /\ integ' \subseteq Commits
        /\ branch' \in [Attempts -> {Absent} \cup SUBSET Commits] /\ probe' \in BOOLEAN
        /\ dproven' \in BOOLEAN /\ accepted' \subseteq Commits /\ orphaned' \in BOOLEAN
        /\ crashes' \in 0..MaxCrashes /\ faults' \in 0..MaxFaults /\ restarts' \in 0..MaxRestarts
    BY <2>2, <2>3 DEF TypeOK
  <2>5. UNCHANGED operator /\ UNCHANGED builds /\ dcur' = NoAttempt /\ todo' \subseteq rows'
    BY <2>2, <2>3 DEF operator
  <2> HIDE DEF DeleteEvents, git
  <2>6. (dcur' # NoAttempt) = (dpc' \in {"row", "merged"})
    BY <2>2, <2>5
  <2>7. dpc' \in {"off", "wipe", "evidence", "events", "attempts", "loop", "probe", "row", "merged"}
    BY <2>2
  <2>8. dcur' \in Attempts \cup {NoAttempt} /\ halfway' \in BOOLEAN
    BY <2>2, <2>5
  <2> QED
    BY <2>1, <2>2, <2>3, <2>4, <2>5, <2>6, <2>7, <2>8, DriverTyped
<1>3. DriverStep
  BY DEF DriverStep
<1>4. Numbered' /\ Held'
  BY DEF IInv, Numbered, Held, Wiping, dlocals
<1>5. \A r \in rows : r.task \in Tasks
  BY RowFacts DEF IInv
<1>6. Branches'
  BY <1>1, <1>5 DEF IInv, Branches, Stamped, Done
<1>7. Wiped'
  BY DEF IInv, Wiped, Wiping, dlocals
<1>8. Agreed'
  <2>1. faults = 0 => integ = {} /\ \A r \in rows : branch[Of(r)] = Absent
    BY DEF IInv, Wiped, Wiping, Held
  <2> QED
    BY <1>1, <2>1 DEF Agreed
<1> QED
  BY <1>2, <1>3, <1>4, <1>6, <1>7, <1>8, DriverKeepsBuilds DEF IInv

LEMMA DeleteAttemptsKeeps ==
  ASSUME IInv, DeleteAttempts
  PROVE  IInv'
<1> USE DEF DeleteAttempts, git, past
<1>1. todo = {} /\ \A r \in rows : r.run < restarts
  BY DEF IInv, Held, Numbered, Wiping
<1>2. TypeOK'
  BY <1>1, DriverTyped DEF IInv, TypeOK, operator, dlocals
<1>3. DriverStep
  BY DEF DriverStep
<1>4. Numbered' /\ Held'
  BY <1>1 DEF Numbered, Held, dlocals
<1>5. Branches'
  <2>1. \A c \in integ : c.run < restarts
    BY <1>1 DEF IInv, Branches, Stamped, Own
  <2> QED
    BY <2>1 DEF IInv, Branches, Stamped
<1>6. Wiped'
  <2>1. evidence = {}
    BY DEF IInv, Wiped
  <2>2. ~orphaned => \A a \in Attempts : branch[a] = Absent
    BY <1>1 DEF IInv, Wiped, Wiping
  <2> QED
    BY <2>1, <2>2 DEF Wiped, Wiping
<1>7. Agreed'
  <2>1. faults = 0 => integ = {}
    BY DEF IInv, Wiped
  <2> QED
    BY <2>1 DEF IInv, Agreed, Latest
<1> QED
  BY <1>2, <1>3, <1>4, <1>5, <1>6, <1>7, DriverKeepsBuilds DEF IInv

-----------------------------------------------------------------------------
(* The runs of the tasks. *)

\* A new attempt's id is above every row's.
LEMMA NextIdIsNew ==
  ASSUME TypeOK, Numbered
  PROVE  \A r \in rows : r.id < NextId
<1>1. \A r \in rows : r.id \in Ids
  BY DEF TypeOK, Row
<1>2. CASE rows # {}
  <2>1. \E i \in Ids : (\E r \in rows : r.id = i) /\ \A r \in rows : r.id <= i
    BY <1>1, <1>2 DEF Numbered
  <2> DEFINE top == CHOOSE i \in Ids : (\E r \in rows : r.id = i) /\ \A r \in rows : r.id <= i
  <2>2. top \in Ids /\ \A r \in rows : r.id <= top
    BY <2>1
  <2>3. NextId = 1 + top
    BY <1>2 DEF NextId
  <2> QED
    BY <1>1, <2>2, <2>3 DEF Ids
<1> QED
  BY <1>2

LEMMA AddWorktreeKeeps ==
  ASSUME IInv, NEW t \in Tasks, AddWorktree(t)
  PROVE  IInv'
<1> DEFINE a == [task |-> t, id |-> NextId]
<1>1. /\ dpc = "loop" /\ log[t] = "Pending" /\ NextId \in Ids
      /\ UNCHANGED <<tables, integ, probe, operator, past, crashes, faults, restarts>>
  BY DEF AddWorktree, Dispatchable
<1>2. a \in Attempts /\ a # NoAttempt /\ a.task = t /\ a.id = NextId
  BY <1>1 DEF Attempts, NoAttempt, Ids
<1>3. \A r \in rows : r.id < NextId
  BY NextIdIsNew DEF IInv
<1>4. CASE branch[a] # Absent
  BY <1>1, <1>4, DriverMoves DEF IInv, TypeOK, AddWorktree, DriverExits, past, git
<1>5. CASE branch[a] = Absent
  <2>1. /\ branch' = [branch EXCEPT ![a] = integ] /\ dcur' = a /\ dpc' = "row" /\ UNCHANGED <<todo, dproven>>
    BY <1>5 DEF AddWorktree
  <2> HIDE DEF a
  <2>2. branch'[a] = integ /\ \A b \in Attempts \ {a} : branch'[b] = branch[b]
    BY <1>2, <2>1 DEF IInv, TypeOK
  <2>3. TypeOK'
    BY <1>1, <1>2, <2>1, DriverTyped DEF IInv, TypeOK, operator, tables, past
  <2>4. DriverStep
    BY <1>1 DEF DriverStep, tables, past
  <2>5. \A u \in Tasks : Latest(u)' = Latest(u)
    BY <1>1 DEF Latest, tables
  <2>6. \A r \in rows : Of(r) \in Attempts \ {a} /\ r.id \in Nat
    BY <1>2, <1>3, RowFacts DEF IInv, Ids
  <2>7. Numbered' /\ Held'
    BY <1>1, <1>2, <1>3, <2>1, <2>2 DEF IInv, Numbered, Held, Wiping, tables
  <2>8. Branches'
    BY <1>1, <2>2, <2>5, <2>6 DEF IInv, Branches, Stamped, Latest, tables, past
  <2>9. Wiped'
    BY <1>1, <2>1, <2>2 DEF IInv, Wiped, Wiping, tables, past
  <2>10. Agreed'
    BY <1>1, <2>2, <2>5, <2>6 DEF IInv, Agreed, TypeOK, Commits, Latest, tables, past
  <2> QED
    BY <2>3, <2>4, <2>7, <2>8, <2>9, <2>10, DriverKeepsBuilds DEF IInv
<1> QED
  BY <1>4, <1>5

LEMMA SaveAttemptKeeps ==
  ASSUME IInv, SaveAttempt
  PROVE  IInv'
<1> USE DEF SaveAttempt, git, past
<1> DEFINE new == [id |-> dcur.id, task |-> dcur.task, run |-> restarts, base |-> branch[dcur]]
<1>1. /\ dcur \in Attempts /\ \A r \in rows : r.id < dcur.id
      /\ log[dcur.task] = "Pending" /\ branch[dcur] = integ
  BY DEF IInv, TypeOK, Held
<1>2. dcur.task \in Tasks /\ dcur.id \in Ids /\ integ \in SUBSET Commits /\ restarts \in 0..MaxRestarts
  BY <1>1 DEF IInv, TypeOK, Attempts
<1>3. /\ new \in Row /\ new.id = dcur.id /\ new.task = dcur.task /\ new.run = restarts /\ new.base = integ
  BY <1>1, <1>2 DEF Row
<1>4. Of(new) = dcur /\ Own(new) = [task |-> dcur.task, id |-> dcur.id, run |-> restarts]
  BY <1>1, <1>3 DEF Of, Own, Attempts
<1>5. rows' = rows \cup {new} /\ log' = [log EXCEPT ![dcur.task] = "Running"]
  OBVIOUS
<1> HIDE DEF new
<1>6. log'[dcur.task] = "Running" /\ \A u \in Tasks \ {dcur.task} : log'[u] = log[u]
  BY <1>2, <1>5 DEF IInv, TypeOK
<1>7. \A r \in rows : /\ r.id \in Nat /\ r.run \in Nat /\ r.task \in Tasks /\ Of(r) # dcur
                      /\ Own(r).id = r.id /\ Own(r).run = r.run
  BY <1>1, RowFacts DEF IInv, Ids
<1>8. dcur.id \in Nat /\ restarts \in Nat
  BY <1>2 DEF Ids
<1>9. TypeOK'
  BY <1>2, <1>3, <1>5, DriverTyped DEF IInv, TypeOK, operator
<1>10. DriverStep
  BY <1>1, <1>6 DEF DriverStep, Done
<1>11. \A u \in Tasks \ {dcur.task} : Latest(u)' = Latest(u)
  BY <1>3, <1>5 DEF Latest
<1>12. \A u \in Tasks : u = dcur.task => Latest(u)' = {new}
  BY <1>1, <1>3, <1>5, <1>7, <1>8 DEF Latest
<1>13. Numbered'
  <2>1. \A r, q \in rows' : r.id = q.id => r = q
    BY <1>1, <1>3, <1>5, <1>7, <1>8 DEF IInv, Numbered
  <2>2. \A q \in rows' : q.id <= new.id
    BY <1>1, <1>3, <1>5, <1>7, <1>8
  <2> QED
    BY <1>3, <1>5, <1>8, <2>1, <2>2 DEF IInv, Numbered, Wiping
<1>14. Held'
  BY DEF IInv, Held
<1>15. \A c : Stamped(c) => Stamped(c)'
  BY <1>5 DEF Stamped, Own
<1>16. \A c \in integ : c \in accepted /\ Stamped(c)
  BY DEF IInv, Branches
<1>17. Own(new) \notin integ
  <2>1. \A c \in integ : c.run < restarts \/ \E r \in rows : c.id = r.id
    BY <1>7, <1>16 DEF Stamped
  <2>2. Own(new).id = dcur.id /\ Own(new).run = restarts
    BY <1>4
  <2> QED
    BY <1>1, <1>7, <1>8, <2>1, <2>2
<1>18. Branches'
  <2>1. \A r \in rows : r.task # dcur.task => log'[r.task] = log[r.task] /\ Latest(r.task)' = Latest(r.task)
    BY <1>6, <1>7, <1>11
  <2>2. log'[dcur.task] \notin Done
    BY <1>6 DEF Done
  <2> QED
    BY <1>1, <1>3, <1>4, <1>5, <1>15, <1>16, <1>17, <2>1, <2>2 DEF IInv, Branches, Of, Own
<1>19. Wiped'
  <2>1. {r.id : r \in rows} \subseteq {r.id : r \in rows'}
    BY <1>5
  <2> QED
    BY <1>3, <1>4, <1>5, <2>1 DEF IInv, Wiped, Wiping, Of
<1>20. Agreed'
  <2>1. \A c \in integ : c.task \in Tasks
    BY <1>2 DEF Commits
  <2>2. ~halfway => {t \in Tasks : log'[t] = "Integrated"} \subseteq TasksOf(integ)
    BY <1>6 DEF IInv, Agreed
  <2>3. ASSUME ~halfway, faults = 0
        PROVE  /\ \A c \in integ : log'[c.task] \in Done /\ \E r \in Latest(c.task)' : c = Own(r)
               /\ \A r \in rows' : branch[Of(r)] # Absent => r.base \subseteq integ
               /\ \A t \in Tasks : log'[t] # "Pending" => \A r \in Latest(t)' : branch[Of(r)] # Absent
    <3>1. \A c \in integ : c.task # dcur.task
      BY <1>1, <2>3 DEF IInv, Agreed, Done
    <3>2. branch[Of(new)] # Absent
      BY <1>1, <1>2, <1>4, NotAbsent
    <3> QED
      BY <1>3, <1>5, <1>6, <1>11, <1>12, <2>1, <2>3, <3>1, <3>2 DEF IInv, Agreed
  <2> QED
    BY <2>2, <2>3 DEF Agreed, Own, Of
<1> QED
  BY <1>9, <1>10, <1>13, <1>14, <1>18, <1>19, <1>20, DriverKeepsBuilds DEF IInv

LEMMA CommitKeeps ==
  ASSUME IInv, NEW r \in rows, Commit(r)
  PROVE  IInv'
<1> USE DEF Commit, tables, past, driver, dlocals
<1>1. /\ Of(r) \in Attempts /\ Own(r) \in Commits /\ r.id \in Ids /\ Of(r).id = r.id
      /\ \A q \in rows : Of(q) \in Attempts /\ (Of(q) = Of(r) => q = r)
  BY RowFacts DEF IInv
<1>2. /\ branch[Of(r)] \in SUBSET Commits
      /\ branch[Of(r)] \in {r.base, r.base \cup {Own(r)}}
  BY <1>1 DEF IInv, TypeOK, Branches
<1>3. /\ branch'[Of(r)] = r.base \cup {Own(r)} /\ branch'[Of(r)] \in SUBSET Commits
      /\ \A a \in Attempts \ {Of(r)} : branch'[a] = branch[a]
      /\ branch' \in [Attempts -> {Absent} \cup SUBSET Commits]
  BY <1>1, <1>2 DEF IInv, TypeOK
<1>4. TypeOK'
  BY <1>3, DriverTyped DEF IInv, TypeOK, operator
<1>5. DriverStep
  BY DEF DriverStep
<1>6. \A t \in Tasks : Latest(t)' = Latest(t)
  BY DEF Latest
<1>7. Numbered'
  BY DEF IInv, Numbered, Wiping
<1>8. Held'
  <2>1. dpc = "row" => dcur \in Attempts /\ dcur # Of(r)
    BY <1>1 DEF IInv, TypeOK, Held, Ids
  <2> QED
    BY <1>3, <2>1 DEF IInv, Held
<1>9. Branches'
  BY <1>1, <1>3, <1>6 DEF IInv, Branches, Stamped, Latest, Done
<1>10. Wiped'
  BY <1>1, <1>3 DEF IInv, Wiped, Wiping
<1>11. Agreed'
  <2>1. branch'[Of(r)] # Absent
    BY <1>3, NotAbsent
  <2>2. \A q \in rows : branch'[Of(q)] # Absent => branch[Of(q)] # Absent
    BY <1>1, <1>3
  <2>3. \A q \in rows : branch[Of(q)] # Absent => branch'[Of(q)] # Absent
    BY <1>1, <1>3, <2>1
  <2>4. \A t \in Tasks : Latest(t) \subseteq rows
    BY DEF Latest
  <2> QED
    BY <1>6, <2>2, <2>3, <2>4 DEF IInv, Agreed, TypeOK, Commits, Latest
<1> QED
  BY <1>4, <1>5, <1>7, <1>8, <1>9, <1>10, <1>11, DriverKeepsBuilds DEF IInv

LEMMA SettleKeeps ==
  ASSUME IInv, NEW r \in rows, Settle(r)
  PROVE  IInv'
<1>1. /\ dpc = "loop" /\ r \in Latest(r.task) /\ log[r.task] = "Running"
      /\ UNCHANGED <<rows, git, probe, driver, operator, orphaned, halfway, disturbed, crashes,
                     faults, restarts>>
  BY DEF Settle
<1>2. /\ Of(r) \in Attempts /\ Own(r) \in Commits /\ r.id \in Ids /\ r.task \in Tasks
      /\ \A q \in rows : q.task \in Tasks /\ (q.id = r.id => q = r)
  BY RowFacts DEF IInv
<1>3. evidence' \subseteq {q.id : q \in rows} /\ evidence' \subseteq Ids
  BY <1>2 DEF Settle, record, IInv, Wiped, TypeOK
<1>4. \/ /\ Own(r) \in branch[Of(r)] /\ branch[Of(r)] # Absent
         /\ log' = [log EXCEPT ![r.task] = "Accepted"] /\ accepted' = accepted \cup {Own(r)}
      \/ log' = [log EXCEPT ![r.task] = "Pending"] /\ accepted' = accepted
  BY DEF Settle
<1>5. /\ accepted \subseteq accepted' /\ accepted' \subseteq Commits
      /\ log' \in [Tasks -> {"Pending", "Running"} \cup Done]
      /\ log'[r.task] \in {"Accepted", "Pending"} /\ \A t \in Tasks \ {r.task} : log'[t] = log[t]
  BY <1>2, <1>4 DEF IInv, TypeOK, Done
<1>6. TypeOK'
  BY <1>1, <1>3, <1>5, DriverTyped DEF IInv, TypeOK, operator, driver, dlocals, git
<1>7. DriverStep
  BY <1>1, <1>2, <1>5 DEF DriverStep, Done
<1>8. \A t \in Tasks : Latest(t)' = Latest(t)
  BY <1>1 DEF Latest
<1>9. \A q \in Latest(r.task) : q = r
  <2>1. \A q \in rows : q.id \in Nat
    BY RowFacts DEF IInv, Ids
  <2> QED
    BY <1>1, <1>2, <2>1 DEF Latest
<1>10. Numbered' /\ Held'
  BY <1>1 DEF IInv, Numbered, Held, Wiping, driver, dlocals
<1>11. Branches'
  <2>1. ASSUME log'[r.task] \in Done
        PROVE  branch[Of(r)] = r.base \cup {Own(r)} /\ Own(r) \in accepted'
    BY <1>2, <1>4, <1>5, <2>1 DEF IInv, TypeOK, Branches, Done
  <2> QED
    BY <1>1, <1>2, <1>5, <1>8, <1>9, <2>1 DEF IInv, Branches, Stamped, Latest, git
<1>12. Wiped'
  BY <1>1, <1>3 DEF IInv, Wiped, Wiping, git, driver, dlocals
<1>13. Agreed'
  <2>1. TypeOK /\ Agreed /\ \A c \in integ : c.task \in Tasks
    BY DEF IInv, TypeOK, Commits
  <2>2. ~halfway => {t \in Tasks : log'[t] = "Integrated"} \subseteq TasksOf(integ)
    BY <1>2, <1>5, <2>1 DEF Agreed
  <2>3. ~halfway /\ faults = 0 => \A c \in integ : c.task # r.task
    BY <1>1, <2>1 DEF Agreed, Done
  <2>4. \A t \in Tasks : log'[t] # "Pending" => log[t] # "Pending"
    BY <1>1, <1>5
  <2> QED
    BY <1>1, <1>5, <1>8, <2>1, <2>2, <2>3, <2>4 DEF Agreed, git
<1> QED
  BY <1>6, <1>7, <1>10, <1>11, <1>12, <1>13, DriverKeepsBuilds DEF IInv

LEMMA MergeKeeps ==
  ASSUME IInv, NEW t \in Tasks, Merge(t)
  PROVE  IInv'
<1>1. /\ dpc = "loop" /\ log[t] = "Accepted"
      /\ UNCHANGED <<rows, evidence, branch, probe, todo, dproven, operator, accepted, orphaned,
                     halfway, crashes, faults, restarts>>
  BY DEF Merge
<1>2. PICK r \in Latest(t) :
        \/ /\ branch[Of(r)] # Absent
           /\ integ' = integ \cup branch[Of(r)] /\ dpc' = "merged" /\ dcur' = Of(r)
           /\ UNCHANGED <<log, disturbed>>
        \/ /\ branch[Of(r)] = Absent \/ (integ # r.base /\ ~ branch[Of(r)] \subseteq integ)
           /\ log' = [log EXCEPT ![t] = "Pending"] /\ disturbed' = (disturbed \/ Building)
           /\ UNCHANGED <<integ, dpc, dcur>>
  BY DEF Merge
<1>3. r \in rows /\ r.task = t /\ \A q \in Latest(t) : q = r
  <2>1. \A q \in rows : q.id \in Nat
    BY RowFacts DEF IInv, Ids
  <2> QED
    BY <2>1, RowFacts DEF IInv, Latest
<1>4. /\ Of(r) \in Attempts /\ Own(r) \in Commits /\ Of(r).task = t /\ Own(r).task = t
      /\ r.base \in SUBSET Commits
  BY <1>3, RowFacts DEF IInv
<1>5. branch[Of(r)] \in {Absent, r.base \cup {Own(r)}} /\ Own(r) \in accepted
  BY <1>1, <1>2, <1>3 DEF IInv, Branches, Done
<1>6. \A u \in Tasks : Latest(u)' = Latest(u)
  BY <1>1 DEF Latest
<1>7. ASSUME branch[Of(r)] # Absent,
             integ' = integ \cup branch[Of(r)], dpc' = "merged", dcur' = Of(r), UNCHANGED <<log, disturbed>>
      PROVE  IInv'
  <2>1. integ' = integ \cup r.base \cup {Own(r)}
    BY <1>5, <1>7
  <2>2. Of(r) # NoAttempt
    BY <1>4, GraphAssumption DEF NoAttempt, validate, Tasks, IdsOf
  <2>3. TypeOK'
    BY <1>1, <1>4, <1>7, <2>1, <2>2, DriverTyped DEF IInv, TypeOK, operator
  <2>4. DriverStep
    BY <1>1, <1>7 DEF DriverStep
  <2>5. Numbered'
    BY <1>1, <1>7 DEF IInv, Numbered, Wiping
  <2>6. t \in TasksOf(integ')
    BY <1>4, <2>1 DEF TasksOf
  <2>7. Held'
    BY <1>1, <1>4, <1>7, <2>6 DEF IInv, Held
  <2>8. \A c : Stamped(c)' <=> Stamped(c)
    BY <1>1 DEF Stamped
  <2>9. Stamped(Own(r))
    BY <1>3 DEF Stamped
  <2>10. Branches'
    BY <1>1, <1>3, <1>5, <1>6, <1>7, <2>1, <2>8, <2>9 DEF IInv, Branches, Latest
  <2>11. Wiped'
    BY <1>1, <1>7 DEF IInv, Wiped, Wiping
  <2>12. Agreed'
    <3>1. TasksOf(integ) \subseteq TasksOf(integ')
      BY <2>1 DEF TasksOf
    <3>2. \A c \in integ : c.task \in Tasks
      BY DEF IInv, TypeOK, Commits
    <3>3. ASSUME ~halfway, faults = 0
          PROVE  r.base \subseteq integ
      BY <1>3, <1>7, <3>3 DEF IInv, Agreed
    <3>4. \A u \in Tasks : log[u] = "Integrated" /\ ~halfway => u \in TasksOf(integ')
      BY <3>1 DEF IInv, Agreed
    <3>5. ASSUME ~halfway, faults = 0
          PROVE  /\ \A c \in integ' : log[c.task] \in Done /\ \E q \in Latest(c.task) : c = Own(q)
                 /\ \A q \in rows : branch[Of(q)] # Absent => q.base \subseteq integ'
                 /\ \A u \in Tasks : log[u] # "Pending" => \A q \in Latest(u) : branch[Of(q)] # Absent
      BY <1>1, <1>3, <1>4, <2>1, <3>3, <3>5 DEF IInv, Agreed, Done
    <3>6. \A c \in integ' : c.task \in Tasks
      BY <2>3 DEF TypeOK, Commits
    <3> QED
      BY <1>1, <1>6, <1>7, <3>4, <3>5, <3>6 DEF Agreed
  <2> QED
    BY <2>3, <2>4, <2>5, <2>7, <2>10, <2>11, <2>12, DriverKeepsBuilds DEF IInv
<1>8. ASSUME branch[Of(r)] = Absent \/ (integ # r.base /\ ~ branch[Of(r)] \subseteq integ),
             log' = [log EXCEPT ![t] = "Pending"], disturbed' = (disturbed \/ Building),
             UNCHANGED <<integ, dpc, dcur>>
      PROVE  IInv'
  <2>1. log'[t] = "Pending" /\ \A u \in Tasks \ {t} : log'[u] = log[u]
    BY <1>8 DEF IInv, TypeOK
  <2>2. log' \in [Tasks -> {"Pending", "Running"} \cup Done]
    BY <1>8 DEF IInv, TypeOK
  <2>3. disturbed' \in BOOLEAN
    BY <1>8 DEF IInv, TypeOK, Building
  <2>4. TypeOK'
    BY <1>1, <1>8, <2>2, <2>3, DriverTyped DEF IInv, TypeOK, operator
  <2>5. DriverStep
    BY <1>1, <1>8 DEF DriverStep
  <2>6. Numbered' /\ Held'
    BY <1>1, <1>8 DEF IInv, Numbered, Held, Wiping
  <2>7. Branches'
    <3>1. \A q \in rows : q.task \in Tasks
      BY RowFacts DEF IInv
    <3> QED
      BY <1>1, <1>6, <1>8, <2>1, <3>1 DEF IInv, Branches, Stamped, Latest, Done
  <2>8. Wiped'
    BY <1>1, <1>8 DEF IInv, Wiped, Wiping
  <2>9. Agreed'
    <3>1. \A c \in integ : c.task \in Tasks
      BY DEF IInv, TypeOK, Commits
    <3>2. ASSUME ~halfway, faults = 0, NEW c \in integ, c.task = t
          PROVE  FALSE
      <4>1. c = Own(r)
        BY <1>3, <3>2 DEF IInv, Agreed
      <4>2. branch[Of(r)] # Absent
        BY <1>1, <1>3, <3>2 DEF IInv, Agreed
      <4>3. branch[Of(r)] = r.base \cup {c} /\ r.base \subseteq integ
        BY <1>3, <1>5, <3>2, <4>1, <4>2 DEF IInv, Agreed
      <4> QED
        BY <1>8, <3>2, <4>2, <4>3
    <3>3. ~halfway => {u \in Tasks : log'[u] = "Integrated"} \subseteq TasksOf(integ)
      BY <2>1 DEF IInv, Agreed
    <3> QED
      BY <1>1, <1>6, <1>8, <2>1, <3>1, <3>2, <3>3 DEF IInv, Agreed, Latest
  <2> QED
    BY <2>4, <2>5, <2>6, <2>7, <2>8, <2>9, DriverKeepsBuilds DEF IInv
<1> QED
  BY <1>2, <1>7, <1>8

LEMMA RecordMergeKeeps ==
  ASSUME IInv, RecordMerge
  PROVE  IInv'
<1>1. /\ dpc = "merged" /\ dpc' = "loop" /\ dcur' = NoAttempt
      /\ log' = [log EXCEPT ![dcur.task] = "Integrated"]
      /\ UNCHANGED <<rows, evidence, git, probe, todo, dproven, operator, past, crashes, faults,
                     restarts>>
  BY DEF RecordMerge
<1>2. dcur.task \in Tasks /\ log[dcur.task] = "Accepted" /\ dcur.task \in TasksOf(integ)
  BY <1>1 DEF IInv, TypeOK, Held, Attempts
<1>3. /\ log' \in [Tasks -> {"Pending", "Running"} \cup Done]
      /\ log'[dcur.task] = "Integrated" /\ \A u \in Tasks \ {dcur.task} : log'[u] = log[u]
  BY <1>1, <1>2 DEF IInv, TypeOK, Done
<1>4. \A u \in Tasks : log'[u] \in Done <=> log[u] \in Done
  BY <1>2, <1>3 DEF Done
<1>5. TypeOK'
  BY <1>1, <1>3, DriverTyped DEF IInv, TypeOK, operator, git, past
<1>6. DriverStep
  BY <1>1, <1>4 DEF DriverStep, past
<1>7. \A u \in Tasks : Latest(u)' = Latest(u)
  BY <1>1 DEF Latest
<1>8. Numbered' /\ Held'
  BY <1>1 DEF IInv, Numbered, Held, Wiping
<1>9. Branches'
  <2>1. \A q \in rows : q.task \in Tasks
    BY RowFacts DEF IInv
  <2> QED
    BY <1>1, <1>4, <1>7, <2>1 DEF IInv, Branches, Stamped, Latest, git, past
<1>10. Wiped'
  BY <1>1 DEF IInv, Wiped, Wiping, git, past
<1>11. Agreed'
  <2>1. \A c \in integ : c.task \in Tasks
    BY DEF IInv, TypeOK, Commits
  <2>2. ~halfway => {u \in Tasks : log'[u] = "Integrated"} \subseteq TasksOf(integ)
    BY <1>2, <1>3 DEF IInv, Agreed
  <2>3. \A u \in Tasks : log'[u] # "Pending" => log[u] # "Pending"
    BY <1>2, <1>3
  <2> QED
    BY <1>1, <1>4, <1>7, <2>1, <2>2, <2>3 DEF IInv, Agreed, git, past
<1> QED
  BY <1>5, <1>6, <1>8, <1>9, <1>10, <1>11, DriverKeepsBuilds DEF IInv

-----------------------------------------------------------------------------
(* The theorems. *)

LEMMA InitEstablishes == Init => IInv
<1> SUFFICES ASSUME Init PROVE IInv
  OBVIOUS
<1> USE DEF Init
<1>1. TypeOK
  <2>1. log \in [Tasks -> {"Pending", "Running"} \cup Done]
    OBVIOUS
  <2>2. /\ branch \in [Attempts -> {Absent} \cup SUBSET Commits]
        /\ build \in [Tags -> {Absent} \cup SUBSET Commits]
    OBVIOUS
  <2>3. 0 \in 0..MaxCrashes /\ 0 \in 0..MaxFaults /\ 0 \in 0..MaxRestarts /\ 0 \in 0..MaxBuilds
    BY BoundsAssumption
  <2>4. (dcur # NoAttempt) = (dpc \in {"row", "merged"})
    OBVIOUS
  <2> QED
    BY <2>1, <2>2, <2>3, <2>4 DEF TypeOK
<1>2. Numbered /\ Held /\ Branches /\ Builds
  BY DEF Numbered, Held, Branches, Builds, Wiping, Building
<1>3. Wiped /\ Agreed
  BY DEF Wiped, Agreed, Wiping
<1> QED
  BY <1>1, <1>2, <1>3 DEF IInv

LEMMA NextKeeps == IInv /\ [Next]_vars => IInv'
<1> SUFFICES ASSUME IInv, [Next]_vars PROVE IInv'
  OBVIOUS
<1>1. CASE Next
  BY <1>1, RestartKeeps, ResumeKeeps, WipeKeeps, ResetIntegrateKeeps, DeleteEvidenceKeeps,
     DeleteEventsKeeps, DeleteAttemptsKeeps, DriverProbesKeeps, DriverProvedKeeps, SaveAttemptKeeps,
     RecordMergeKeeps, IdleKeeps, DriverDiesKeeps, AddWorktreeKeeps, MergeKeeps, CommitKeeps, SettleKeeps,
     PrepareDeliverableKeeps, ClearBuildKeeps, OperatorProbesKeeps, AddBuildKeeps, BuiltKeeps, LandKeeps,
     OperatorDiesKeeps, PickKeeps, LandHeadKeeps DEF Next
<1>2. CASE UNCHANGED vars
  <2>1. OperatorStep
    BY <1>2 DEF vars, OperatorStep
  <2>2. TypeOK'
    BY <1>2, <2>1, OperatorTyped DEF IInv, TypeOK, vars, operator, olocals
  <2>3. DriverStep
    BY <1>2 DEF DriverStep, vars, past, tables
  <2> QED
    BY <2>1, <2>2, <2>3, OperatorKeeps, DriverKeepsBuilds
<1> QED
  BY <1>1, <1>2

\* The inductive invariant holds in every reachable state, whatever dies or fails.
THEOREM LandingInvariant == Spec => []IInv
<1> QED
  BY InitEstablishes, NextKeeps, PTL DEF Spec

\* What lands and what a deliverable worktree holds (integrate_into, prepare_deliverable):
\* only commits of accepted attempts, and exactly the tagged nodes with all they depend on.
THEOREM LandingTheorem == Spec => []LandsAcceptedWork
<1>1. IInv => LandsAcceptedWork
  <2> SUFFICES ASSUME IInv PROVE LandsAcceptedWork
    OBVIOUS
  <2>1. TypeOK /\ LandedWasAccepted
    BY DEF IInv, Builds, LandedWasAccepted
  <2>2. ASSUME ~disturbed, NEW g \in whole
        PROVE  TasksOf(build[g]) = Closure(g)
    BY <2>2 DEF IInv, TypeOK, Builds
  <2>3. BuiltIsClosure
    BY <2>2, ClosureFacts DEF BuiltIsClosure
  <2> QED
    BY <2>1, <2>3 DEF LandsAcceptedWork
<1> QED
  BY <1>1, LandingInvariant, PTL

\* A restart that dies at any point and is repeated leaves no worktree, branch or evidence
\* of the old run where the new one looks, and log and integrate branch agree outside it
\* (restart, reset_graph_execution).
THEOREM RestartTheorem == Spec => []RestartIsClean
<1>1. IInv => RestartIsClean
  <2> SUFFICES ASSUME IInv PROVE RestartIsClean
    OBVIOUS
  <2>1. NextWorktreeFree
    <3> SUFFICES ASSUME ~orphaned, dpc # "row", NextId \in Ids, NEW t \in Tasks
                 PROVE  branch[[task |-> t, id |-> NextId]] = Absent
      BY DEF NextWorktreeFree
    <3>1. [task |-> t, id |-> NextId] \in Attempts
      BY DEF Attempts
    <3>2. \A r \in rows : r.id < NextId /\ r.id \in Ids /\ Of(r).id = r.id
      BY NextIdIsNew, RowFacts DEF IInv
    <3>3. \A r \in rows : Of(r) # [task |-> t, id |-> NextId]
      BY <3>2 DEF Ids
    <3> QED
      BY <3>1, <3>3 DEF IInv, Wiped
  <2>2. NoInheritedEvidence
    BY DEF IInv, Wiped, NoInheritedEvidence
  <2>3. LogMatchesIntegrate
    BY DEF IInv, TypeOK, Commits, Agreed, TasksOf, LogMatchesIntegrate
  <2> QED
    BY <2>1, <2>2, <2>3 DEF RestartIsClean
<1> QED
  BY <1>1, LandingInvariant, PTL
=============================================================================
