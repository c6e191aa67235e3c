-------------------------- MODULE DriverWatch_proofs --------------------------
(***************************************************************************)
(* Proofs about the processes that open, drive and watch a state file, for *)
(* any tasks, processes, pids and bounds.                                  *)
(*                                                                         *)
(* Three arguments: a process migrates from a version that is not newer    *)
(* than the one it has read, and finds objects that a quicker one has left *)
(* (Schema); a driver at work that is not the newest bears another pid     *)
(* than the newest, so it does not match its row (Pidded); and in a plan   *)
(* without cycles a chain of waiting nodes ends at one that is not waiting *)
(* (RestAgrees, RestExplained).                                            *)
(***************************************************************************)
EXTENDS DriverWatch, TLAPS

\* The versions a process has read are past or present ones, and a migration
\* waits at a program point its own version led to.
Schema ==
  /\ SchemaMatchesVersion /\ OpenIsCurrent
  /\ \A p \in Processes : /\ saw[p] <= version
                          /\ pc[p] = "to7" => version >= 6
                          /\ pc[p] = "to8" => version >= 7
  /\ version >= 5 /\ run = "old" => marked

\* A driver that runs has registered, and its pid is its own as long as it lives.
AtWork == {"recover", "loop", "finish"}
Pidded ==
  /\ \A d, e \in Drivers : Alive(d) /\ Alive(e) /\ pid[d] = pid[e] => d = e
  /\ \A d \in Drivers : pc[d] \in AtWork => newest # NoTask /\ (d # newest => pid[d] # pid[newest])
  /\ newest # NoTask => pc[newest] \in AtWork \cup {"over", "dead"}

\* A node that may start has an attempt left.
AttemptLeft == \A t \in Tasks : st[t] \in {"Pending", "Ready", "Blocked"} => attempts[t] < MaxRetries

IInv == TypeOK /\ Schema /\ OldRunNeverDriven /\ Pidded /\ RowIsNewest /\ AttemptLeft

-----------------------------------------------------------------------------
(* A run at rest. *)

\* At rest only what waits, is done or will not run is left.
LEMMA RestStates ==
  ASSUME TypeOK, AtRest
  PROVE  \A t \in Tasks :
           st[t] \in {"Pending", "AwaitingReview", "Integrated", "Failed", "Cancelled", "Blocked"}
  BY DEF TypeOK, AtRest, IdleReason, AwaitingHuman, Complete, FailedTerminal, In, TaskStates

\* What housekeeping leaves waiting has a dependency that explains it.
LEMMA TidyStates ==
  ASSUME TypeOK, Tidy, NEW t \in Tasks
  PROVE  /\ st[t] = "Pending" => ~Unsat(t) /\ ~Integrated(t)
         /\ st[t] = "Blocked" => Unsat(t)
  BY DEF Tidy, Housekeeping

\* A blocked node waits for one that will not run, in the end not for a blocked one.
LEMMA NoBlockedChain ==
  ASSUME TypeOK, AtRest, In({"Failed", "Cancelled"}) = {}
  PROVE  In({"Blocked"}) = {}
<1> SUFFICES ASSUME In({"Blocked"}) # {} PROVE FALSE
  OBVIOUS
<1>1. PICK t \in In({"Blocked"}) : Deps[t] \cap In({"Blocked"}) = {}
  BY AcyclicAssumption DEF In
<1>2. Unsat(t)
  BY <1>1, TidyStates DEF In, AtRest
<1> QED
  BY <1>1, <1>2, WatchAssumption DEF Unsat, In

\* A pending node waits for another, in the end not for a pending one.
LEMMA NoPendingChain ==
  ASSUME TypeOK, AtRest, In({"Failed", "Cancelled", "Blocked", "AwaitingReview"}) = {}
  PROVE  In({"Pending"}) = {}
<1> SUFFICES ASSUME In({"Pending"}) # {} PROVE FALSE
  OBVIOUS
<1>1. PICK t \in In({"Pending"}) : Deps[t] \cap In({"Pending"}) = {}
  BY AcyclicAssumption DEF In
<1>2. ~Integrated(t)
  BY <1>1, TidyStates DEF In, AtRest
<1>3. PICK d \in Deps[t] : st[d] # "Integrated"
  BY <1>2 DEF Integrated
<1>4. d \in Tasks
  BY <1>1, <1>3, WatchAssumption DEF In
<1> QED
  BY <1>1, <1>3, <1>4, RestStates DEF In

\* watch_exit and idle_exit_code, at rest.
LEMMA RestAgrees ==
  ASSUME TypeOK
  PROVE  WatchAgrees
<1> SUFFICES ASSUME AtRest
    PROVE  watch_exit # "none" /\ (watch_status_code(watch_exit) = 0 => idle_exit_code(IdleReason) = 0)
  BY DEF WatchAgrees
<1>1. CASE In({"Failed", "Cancelled"}) # {}
  BY <1>1 DEF watch_exit, watch_status_code, In
<1>2. CASE In({"Failed", "Cancelled"}) = {} /\ In({"AwaitingReview"}) # {}
  <2>1. In({"Blocked"}) = {}
    BY <1>2, NoBlockedChain
  <2>2. IdleReason = "awaiting"
    BY <1>2, RestStates DEF IdleReason, AwaitingHuman, In
  <2>3. In({"Failed", "Blocked"}) = {} /\ In({"Failed"}) = {} /\ In({"Cancelled"}) = {}
    BY <1>2, <2>1 DEF In
  <2> QED
    BY <1>2, <2>2, <2>3 DEF watch_exit, watch_status_code, idle_exit_code
<1>3. CASE In({"Failed", "Cancelled", "AwaitingReview"}) = {}
  <2>1. In({"Blocked"}) = {}
    BY <1>3, NoBlockedChain DEF In
  <2>2. In({"Pending"}) = {}
    BY <1>3, <2>1, NoPendingChain DEF In
  <2>3. Complete /\ ~AwaitingHuman
    BY <1>3, <2>1, <2>2, RestStates DEF Complete, AwaitingHuman, In
  <2>4. In({"Failed"}) = {} /\ In({"Cancelled"}) = {} /\ In({"AwaitingReview"}) = {}
    BY <1>3 DEF In
  <2> QED
    BY <2>3, <2>4 DEF watch_exit, idle_exit_code, IdleReason, AtRest
<1> QED
  BY <1>1, <1>2, <1>3 DEF In

\* waiting_for, at rest.
LEMMA RestExplained ==
  ASSUME TypeOK
  PROVE  StuckIsExplained
<1> SUFFICES ASSUME AtRest, NEW t \in Tasks, st[t] \notin {"Integrated", "Cancelled", "Failed"}
    PROVE  waiting_for(st, t) # "none"
  BY DEF StuckIsExplained
<1>1. CASE st[t] = "AwaitingReview"
  BY <1>1 DEF waiting_for
<1>2. CASE st[t] \in {"Pending", "Blocked"}
  <2>1. PICK d \in Deps[t] : st[d] # "Integrated" 
    BY <1>2, TidyStates DEF AtRest, Unsat, Integrated
  <2>2. d \in Tasks
    BY <2>1, WatchAssumption
  <2>3. d \in Unmet(st, t)
    BY <2>1, <2>2, RestStates DEF Unmet
  <2> QED
    BY <1>2, <2>3 DEF waiting_for
<1> QED
  BY <1>1, <1>2, RestStates
-----------------------------------------------------------------------------
(* The schema. *)

\* Since, by its table.
LEMMA SinceValues ==
  /\ Since("core") = 1 /\ Since("runs") = 2 /\ Since("columns") = 4 /\ Since("lifecycle") = 5
  /\ Since("runtime") = 6 /\ Since("liveness") = 7 /\ Since("cleanup") = 8
<1>1. Since("core") = 1
  BY DEF Since, Versions
<1>2. Since("runs") = 2
  BY DEF Since, Versions
<1>3. Since("columns") = 4
  BY DEF Since, Versions
<1>4. Since("lifecycle") = 5
  BY DEF Since, Versions
<1>5. Since("runtime") = 6
  BY DEF Since, Versions
<1>6. Since("liveness") = 7
  BY DEF Since, Versions
<1>7. Since("cleanup") = 8
  BY DEF Since, Versions
<1> QED
  BY <1>1, <1>2, <1>3, <1>4, <1>5, <1>6, <1>7

\* Owned, by its table.
LEMMA SinceFacts ==
  /\ Owned(0) = {} /\ Owned(1) = {"core"} /\ Owned(2) = {"core", "runs"}
  /\ Owned(4) = {"core", "runs", "columns"}
  /\ Owned(5) = {"core", "runs", "columns", "lifecycle"}
  /\ Owned(6) = {"core", "runs", "columns", "lifecycle", "runtime"}
  /\ Owned(7) = {"core", "runs", "columns", "lifecycle", "runtime", "liveness"}
  /\ Owned(8) = Objects
  BY SinceValues DEF Owned, Objects

-----------------------------------------------------------------------------
(* The run's log and a process that only moves. *)

\* transition, as far as the attempts of a task depend on it.
LEMMA TransitionFacts ==
  ASSUME NEW s \in TaskStates, NEW event, transition(s, event) # Illegal
  PROVE  /\ transition(s, event) \in TaskStates
         /\ transition(s, event) \in {"Pending", "Ready", "Blocked"} =>
              s \in {"Pending", "Ready", "Blocked"} \/ (s = "Failed" /\ event = "RetryAuthorized")
         /\ event = "AttemptStarted" => s = "Ready" /\ transition(s, event) = "Running"
         /\ event = "HumanAcceptanceRecorded" => s = "AwaitingReview"
  BY DEF transition, TaskStates, Illegal

\* The schema as a whole, when only a process moves: it has read the version of
\* now, and what it opens is current.
Opened == {"open", "recover", "loop", "finish"}
LEMMA SchemaKept ==
  ASSUME IInv, UNCHANGED <<version, tables, odd, run, marked>>,
         \A p \in Processes : saw'[p] = saw[p] \/ saw'[p] = version,
         \A p \in Processes : pc'[p] = "to7" => pc[p] = "to7" \/ saw[p] = 6,
         \A p \in Processes : pc'[p] = "to8" => pc[p] = "to8" \/ saw[p] = 7,
         \A p \in Planners \cup Drivers :
           pc'[p] \in Opened => pc[p] \in Opened \/ (version = 8 /\ validate(8))
  PROVE  Schema'
<1>1. SchemaMatchesVersion'
  BY DEF IInv, Schema, SchemaMatchesVersion
<1>2. OpenIsCurrent'
  <2>1. validate(8)' = validate(8)
    BY DEF validate, validate_lifecycle_schema
  <2> QED
    BY <2>1 DEF IInv, Schema, OpenIsCurrent, Opened
<1>3. \A p \in Processes : version \in Nat /\ saw[p] \in Nat
  BY DEF IInv, TypeOK, SchemaTypeOK, Versions
<1> QED
  BY <1>1, <1>2, <1>3 DEF IInv, Schema

\* What validate looks at beyond the lifecycle tables.
LEMMA LayerFacts ==
  /\ {o \in Owned(5) : Since(o) >= 6} = {}
  /\ {o \in Owned(6) : Since(o) >= 6} = {"runtime"}
  /\ {o \in Owned(7) : Since(o) >= 6} = {"runtime", "liveness"}
  /\ {o \in Owned(8) : Since(o) >= 6} = {"runtime", "liveness", "cleanup"}
  BY SinceValues, SinceFacts DEF Objects

-----------------------------------------------------------------------------
(* The inductive invariant, one lemma per action. *)

\* Any file, and processes that have not begun.
LEMMA InitHolds == Init => IInv
<1> SUFFICES ASSUME Init PROVE IInv
  OBVIOUS
<1> PICK cast \in Casts :
      /\ pc = [p \in Processes |-> IF p \in cast.who THEN "off" ELSE "over"]
      /\ plan \in cast.plans /\ st = cast.found
  BY DEF Init
<1>1. /\ plan \in PlanStates /\ st \in [Tasks -> {"Pending", "Integrated"}]
      /\ pc \in [Processes -> {"off", "over"}]
  BY WatchAssumption
<1>2. SchemaTypeOK
  <2>1. PICK o \in Objects :
          \/ tables = Owned(version) /\ odd = {}
          \/ o \in Owned(version) /\ tables = Owned(version) /\ odd = {o}
          \/ tables = Owned(version) \cup {o} /\ odd = {o}
    BY DEF Init, SchemaInit
  <2>2. Owned(version) \subseteq Objects
    BY DEF Owned
  <2>3. tables \subseteq Objects /\ odd \subseteq tables
    BY <2>1, <2>2
  <2>4. file \in BOOLEAN /\ marked \in BOOLEAN
    BY DEF Init, SchemaInit
  <2>5. version \in Versions /\ run \in {"none", "old", "new"} /\ saw \in [Processes -> Versions]
    BY DEF Init, SchemaInit, Versions
  <2> QED
    BY <2>3, <2>4, <2>5 DEF SchemaTypeOK
<1>3. attempts \in [Tasks -> 0..MaxRetries] /\ AttemptLeft
  BY <1>1, WatchAssumption DEF Init, AttemptLeft
<1>4. TypeOK
  <2>1. row \in [pid : Pids \cup {NoPid}, exit : {"none", "0", "1"}, fresh : BOOLEAN]
    BY DEF Init, NoRow
  <2>2. frame \in [Tasks -> TaskStates] /\ st \in [Tasks -> TaskStates]
    BY <1>1 DEF Init, NoFrame, TaskStates
  <2> QED
    BY <1>1, <1>2, <1>3, <2>1, <2>2, WatchAssumption DEF Init, TypeOK
<1>5. Schema
  <2>1. SchemaMatchesVersion
    BY DEF Init, SchemaInit, SchemaMatchesVersion
  <2>2. OpenIsCurrent
    BY <1>1, WatchAssumption DEF OpenIsCurrent
  <2>3. \A p \in Processes : saw[p] <= version /\ pc[p] \notin {"to7", "to8"}
    BY <1>1 DEF Init, SchemaInit, Versions
  <2>4. version >= 5 /\ run = "old" => marked
    BY DEF Init, SchemaInit
  <2> QED
    BY <2>1, <2>2, <2>3, <2>4 DEF Schema
<1>6. OldRunNeverDriven /\ RowIsNewest
  BY DEF Init, OldRunNeverDriven, RowIsNewest
<1>7. Pidded
  BY <1>1, WatchAssumption DEF Init, Pidded, Alive, AtWork
<1> QED
  BY <1>3, <1>4, <1>5, <1>6, <1>7 DEF IInv

\* The version is read as it is.
LEMMA SchemaVersionKeeps ==
  ASSUME IInv, NEW p \in Processes, SchemaVersion(p),
         UNCHANGED <<graphRun, liveness, driving, frame, bounds>>
  PROVE  IInv'
<1> USE WatchAssumption DEF SchemaVersion, Go, database, graphRun, liveness, driving, bounds
<1>1. TypeOK'
  BY DEF IInv, TypeOK, SchemaTypeOK
<1>2. Schema'
  BY <1>1, SchemaKept DEF IInv, TypeOK, SchemaTypeOK, Opened
<1>3. OldRunNeverDriven'
  BY DEF IInv, TypeOK, SchemaTypeOK, Schema, OpenIsCurrent, OldRunNeverDriven, Pidded, AtWork
<1>4. Pidded'
  BY DEF IInv, TypeOK, Pidded, AtWork, Alive
<1>5. RowIsNewest'
  BY DEF IInv, TypeOK, Pidded, AtWork, RowIsNewest
<1>6. AttemptLeft'
  BY DEF IInv, TypeOK, AttemptLeft
<1> QED
  BY <1>1, <1>2, <1>3, <1>4, <1>5, <1>6 DEF IInv

\* What was read is validated against the file of now.
LEMMA DispatchKeeps ==
  ASSUME IInv, NEW p \in Processes, Dispatch(p),
         UNCHANGED <<graphRun, liveness, driving, frame, bounds>>
  PROVE  IInv'
<1> USE WatchAssumption DEF Dispatch, Go, database, graphRun, liveness, driving, bounds
<1>1. TypeOK'
  BY DEF IInv, TypeOK, SchemaTypeOK
<1>2. Schema'
  <2>1. pc'[p] = "open" => version = 8 /\ validate(8)
    BY DEF IInv, TypeOK, SchemaTypeOK, Schema, Versions
  <2>2. \A q \in Processes : q # p => pc'[q] = pc[q] /\ saw'[q] = saw[q]
    BY DEF IInv, TypeOK, SchemaTypeOK
  <2>3. pc'[p] \in {"open", "to8", "to7", "base", "refused"}
    BY DEF IInv, TypeOK
  <2>4. (pc'[p] = "to7" => saw[p] = 6) /\ (pc'[p] = "to8" => saw[p] = 7) /\ saw' = saw
    BY DEF IInv, TypeOK
  <2> QED
    BY <2>1, <2>2, <2>3, <2>4, SchemaKept DEF Opened
<1>3. OldRunNeverDriven'
  BY DEF IInv, TypeOK, SchemaTypeOK, Schema, OpenIsCurrent, OldRunNeverDriven, Pidded, AtWork
<1>4. Pidded'
  BY DEF IInv, TypeOK, Pidded, AtWork, Alive
<1>5. RowIsNewest'
  BY DEF IInv, TypeOK, Pidded, AtWork, RowIsNewest
<1>6. AttemptLeft'
  BY DEF IInv, TypeOK, AttemptLeft
<1> QED
  BY <1>1, <1>2, <1>3, <1>4, <1>5, <1>6 DEF IInv

\* One transaction: all or nothing, and only on tables that are not there.
LEMMA MigrateKeeps ==
  ASSUME IInv, NEW p \in Processes, Migrate(p),
         UNCHANGED <<graphRun, liveness, driving, frame, bounds>>
  PROVE  IInv'
<1> USE WatchAssumption DEF Migrate, Go, database, graphRun, liveness, driving, bounds
<1>1. TypeOK'
  <2>1. SchemaTypeOK'
    <3>1. version' \in Versions /\ saw' \in [Processes -> Versions]
      BY DEF IInv, TypeOK, SchemaTypeOK, Versions
    <3>2. tables' \subseteq Objects /\ odd' \subseteq tables'
      BY DEF IInv, TypeOK, SchemaTypeOK, Objects
    <3>3. marked' \in BOOLEAN
      BY DEF IInv, TypeOK, SchemaTypeOK, LegacyMark
    <3> QED
      BY <3>1, <3>2, <3>3 DEF IInv, TypeOK, SchemaTypeOK
  <2> QED
    BY <2>1 DEF IInv, TypeOK
<1>2. Schema'
  <2>1. CASE pc'[p] = "refused" /\ UNCHANGED <<version, tables, marked>>
    BY <2>1, SchemaKept DEF IInv, TypeOK, Opened
  <2>2. CASE version' = 8 /\ tables' = Objects /\ marked' = LegacyMark /\ pc'[p] = "open"
    <3>1. SchemaMatchesVersion'
      BY <2>2, SinceFacts DEF SchemaMatchesVersion
    <3>2. version < 5 \/ version = 5
      BY <2>2 DEF IInv, TypeOK, SchemaTypeOK, Versions
    <3>3. "lifecycle" \notin odd
      BY <2>2, <3>2, SinceValues DEF IInv, TypeOK, SchemaTypeOK, Objects, validate,
           validate_lifecycle_schema
    <3>4. {"runtime", "liveness", "cleanup"} \cap odd = {}
      BY <2>2, <3>2, SinceValues DEF IInv, TypeOK, SchemaTypeOK, Objects, Versions
    <3>5. validate(8)'
      BY <2>2, <3>3, <3>4, LayerFacts DEF Objects, validate, validate_lifecycle_schema
    <3>6. OpenIsCurrent'
      BY <2>2, <3>5 DEF OpenIsCurrent
    <3>7. \A q \in Processes : saw'[q] <= version'
      BY <2>2 DEF IInv, TypeOK, SchemaTypeOK, Versions
    <3>8. version' >= 5 /\ run' = "old" => marked'
      <4>1. run = "old" => marked \/ (version < 5 /\ run # "none")
        BY <3>2 DEF IInv, Schema
      <4> QED
        BY <2>2, <4>1 DEF LegacyMark
    <3> QED
      BY <2>2, <3>1, <3>6, <3>7, <3>8 DEF Schema
  <2> QED
    BY <2>1, <2>2 DEF IInv, TypeOK
<1>3. OldRunNeverDriven'
  BY DEF IInv, TypeOK, SchemaTypeOK, Schema, OpenIsCurrent, OldRunNeverDriven, Pidded, AtWork
<1>4. Pidded'
  BY DEF IInv, TypeOK, Pidded, AtWork, Alive
<1>5. RowIsNewest'
  BY DEF IInv, TypeOK, Pidded, AtWork, RowIsNewest
<1>6. AttemptLeft'
  BY DEF IInv, TypeOK, AttemptLeft
<1> QED
  BY <1>1, <1>2, <1>3, <1>4, <1>5, <1>6 DEF IInv

\* The second of two processes finds the table of the first.
LEMMA Migrate_v6_to_v7Keeps ==
  ASSUME IInv, NEW p \in Processes, migrate_v6_to_v7(p),
         UNCHANGED <<graphRun, liveness, driving, frame, bounds>>
  PROVE  IInv'
<1> USE WatchAssumption DEF migrate_v6_to_v7, Go, database, graphRun, liveness,
     driving, bounds
<1>1. TypeOK'
  <2>1. SchemaTypeOK'
    <3>1. version' \in Versions /\ saw' \in [Processes -> Versions]
      BY DEF IInv, TypeOK, SchemaTypeOK, Versions
    <3>2. tables' \subseteq Objects /\ odd' \subseteq tables'
      <4>1. (tables' = tables \/ tables' = tables \cup {"liveness"}) /\ odd' = odd
        OBVIOUS
      <4>2. tables \subseteq Objects /\ odd \subseteq tables /\ "liveness" \in Objects
        BY DEF IInv, TypeOK, SchemaTypeOK, Objects
      <4> QED
        BY <4>1, <4>2
    <3>3. marked' \in BOOLEAN
      BY DEF IInv, TypeOK, SchemaTypeOK
    <3> QED
      BY <3>1, <3>2, <3>3 DEF IInv, TypeOK, SchemaTypeOK
  <2> QED
    BY <2>1 DEF IInv, TypeOK
<1>2. Schema'
  <2>1. CASE pc'[p] = "refused" /\ UNCHANGED <<version, tables, saw>>
    BY <2>1, SchemaKept DEF IInv, TypeOK, Opened
  <2>2. CASE /\ "liveness" \notin tables /\ validate(6) /\ version' = 7
             /\ tables' = tables \cup {"liveness"} /\ pc'[p] = "seen"
    <3>1. version = 6
      <4>1. version >= 6
        BY DEF IInv, Schema
      <4>2. "liveness" \notin Owned(version)
        BY <2>2 DEF IInv, Schema, SchemaMatchesVersion
      <4> QED
        BY <4>1, <4>2, SinceFacts DEF IInv, TypeOK, SchemaTypeOK, Versions, Objects
    <3>2. SchemaMatchesVersion'
      BY <2>2, <3>1, SinceFacts DEF IInv, Schema, SchemaMatchesVersion, Objects
    <3>3. OpenIsCurrent'
      BY <2>2, <3>1 DEF IInv, TypeOK, Schema, OpenIsCurrent
    <3>4. \A q \in Processes : saw[q] \in Nat /\ saw[q] <= 6
      BY <3>1 DEF IInv, TypeOK, SchemaTypeOK, Schema, Versions
    <3>5. \A q \in Processes : /\ saw'[q] <= version'
                               /\ pc'[q] = "to7" => version' >= 6
                               /\ pc'[q] = "to8" => version' >= 7
      BY <2>2, <3>1, <3>4 DEF IInv, TypeOK, SchemaTypeOK, Schema
    <3>6. version' >= 5 /\ run' = "old" => marked'
      BY <2>2, <3>1 DEF IInv, Schema
    <3> QED
      BY <3>2, <3>3, <3>5, <3>6 DEF Schema
  <2> QED
    BY <2>1, <2>2 DEF IInv, TypeOK
<1>3. OldRunNeverDriven'
  BY DEF IInv, TypeOK, SchemaTypeOK, Schema, OpenIsCurrent, OldRunNeverDriven, Pidded, AtWork
<1>4. Pidded'
  BY DEF IInv, TypeOK, Pidded, AtWork, Alive
<1>5. RowIsNewest'
  BY DEF IInv, TypeOK, Pidded, AtWork, RowIsNewest
<1>6. AttemptLeft'
  BY DEF IInv, TypeOK, AttemptLeft
<1> QED
  BY <1>1, <1>2, <1>3, <1>4, <1>5, <1>6 DEF IInv

\* The second of two processes finds the table of the first.
LEMMA Migrate_v7_to_v8Keeps ==
  ASSUME IInv, NEW p \in Processes, migrate_v7_to_v8(p),
         UNCHANGED <<graphRun, liveness, driving, frame, bounds>>
  PROVE  IInv'
<1> USE WatchAssumption DEF migrate_v7_to_v8, Go, database, graphRun, liveness,
     driving, bounds
<1>1. TypeOK'
  <2>1. SchemaTypeOK'
    <3>1. version' \in Versions /\ saw' \in [Processes -> Versions]
      BY DEF IInv, TypeOK, SchemaTypeOK, Versions
    <3>2. tables' \subseteq Objects /\ odd' \subseteq tables'
      <4>1. (tables' = tables \/ tables' = tables \cup {"cleanup"}) /\ odd' = odd
        OBVIOUS
      <4>2. tables \subseteq Objects /\ odd \subseteq tables /\ "cleanup" \in Objects
        BY DEF IInv, TypeOK, SchemaTypeOK, Objects
      <4> QED
        BY <4>1, <4>2
    <3>3. marked' \in BOOLEAN
      BY DEF IInv, TypeOK, SchemaTypeOK
    <3> QED
      BY <3>1, <3>2, <3>3 DEF IInv, TypeOK, SchemaTypeOK
  <2> QED
    BY <2>1 DEF IInv, TypeOK
<1>2. Schema'
  <2>1. CASE pc'[p] = "refused" /\ UNCHANGED <<version, tables, saw>>
    BY <2>1, SchemaKept DEF IInv, TypeOK, Opened
  <2>2. CASE /\ "cleanup" \notin tables /\ validate(7) /\ version' = 8
             /\ tables' = tables \cup {"cleanup"} /\ pc'[p] = "open"
    <3>1. version = 7
      <4>1. version >= 7
        BY DEF IInv, Schema
      <4>2. "cleanup" \notin Owned(version)
        BY <2>2 DEF IInv, Schema, SchemaMatchesVersion
      <4> QED
        BY <4>1, <4>2, SinceFacts DEF IInv, TypeOK, SchemaTypeOK, Versions, Objects
    <3>2. SchemaMatchesVersion'
      BY <2>2, <3>1, SinceFacts DEF IInv, Schema, SchemaMatchesVersion, Objects
    <3>3. OpenIsCurrent'
      <4>1. validate(8)'
        BY <2>2, LayerFacts DEF IInv, TypeOK, SchemaTypeOK, validate,
             validate_lifecycle_schema
      <4> QED
        BY <2>2, <4>1 DEF OpenIsCurrent
    <3>4. \A q \in Processes : saw[q] \in Nat /\ saw[q] <= 7
      BY <3>1 DEF IInv, TypeOK, SchemaTypeOK, Schema, Versions
    <3>5. \A q \in Processes : /\ saw'[q] <= version'
                               /\ pc'[q] = "to7" => version' >= 6
                               /\ pc'[q] = "to8" => version' >= 7
      BY <2>2, <3>1, <3>4 DEF IInv, TypeOK, SchemaTypeOK, Schema
    <3>6. version' >= 5 /\ run' = "old" => marked'
      BY <2>2, <3>1 DEF IInv, Schema
    <3> QED
      BY <3>2, <3>3, <3>5, <3>6 DEF Schema
  <2> QED
    BY <2>1, <2>2 DEF IInv, TypeOK
<1>3. OldRunNeverDriven'
  BY DEF IInv, TypeOK, SchemaTypeOK, Schema, OpenIsCurrent, OldRunNeverDriven, Pidded, AtWork
<1>4. Pidded'
  BY DEF IInv, TypeOK, Pidded, AtWork, Alive
<1>5. RowIsNewest'
  BY DEF IInv, TypeOK, Pidded, AtWork, RowIsNewest
<1>6. AttemptLeft'
  BY DEF IInv, TypeOK, AttemptLeft
<1> QED
  BY <1>1, <1>2, <1>3, <1>4, <1>5, <1>6 DEF IInv

\* A planner begins to open.
LEMMA PlanOpensKeeps ==
  ASSUME IInv, NEW p \in Processes, PlanOpens(p)
  PROVE  IInv'
<1> USE WatchAssumption DEF PlanOpens, Go, database, graphRun, liveness, driving, bounds
<1>1. TypeOK'
  BY DEF IInv, TypeOK, SchemaTypeOK
<1>2. Schema'
  BY <1>1, SchemaKept DEF IInv, TypeOK, SchemaTypeOK, Opened
<1>3. OldRunNeverDriven'
  BY DEF IInv, TypeOK, SchemaTypeOK, Schema, OpenIsCurrent, OldRunNeverDriven, Pidded, AtWork
<1>4. Pidded'
  BY DEF IInv, TypeOK, Pidded, AtWork, Alive
<1>5. RowIsNewest'
  BY DEF IInv, TypeOK, Pidded, AtWork, RowIsNewest
<1>6. AttemptLeft'
  BY DEF IInv, TypeOK, AttemptLeft
<1> QED
  BY <1>1, <1>2, <1>3, <1>4, <1>5, <1>6 DEF IInv

\* A planner ends.
LEMMA PlanDoneKeeps ==
  ASSUME IInv, NEW p \in Processes, PlanDone(p)
  PROVE  IInv'
<1> USE WatchAssumption DEF PlanDone, Go, database, graphRun, liveness, driving, bounds
<1>1. TypeOK'
  BY DEF IInv, TypeOK, SchemaTypeOK
<1>2. Schema'
  BY <1>1, SchemaKept DEF IInv, TypeOK, SchemaTypeOK, Opened
<1>3. OldRunNeverDriven'
  BY DEF IInv, TypeOK, SchemaTypeOK, Schema, OpenIsCurrent, OldRunNeverDriven, Pidded, AtWork
<1>4. Pidded'
  BY DEF IInv, TypeOK, Pidded, AtWork, Alive
<1>5. RowIsNewest'
  BY DEF IInv, TypeOK, Pidded, AtWork, RowIsNewest
<1>6. AttemptLeft'
  BY DEF IInv, TypeOK, AttemptLeft
<1> QED
  BY <1>1, <1>2, <1>3, <1>4, <1>5, <1>6 DEF IInv

\* A new pid is none of a living driver.
LEMMA SpawnKeeps ==
  ASSUME IInv, NEW d \in Drivers, Spawn(d)
  PROVE  IInv'
<1> USE WatchAssumption DEF Spawn, Go, database, graphRun, liveness, driving, bounds
<1>1. TypeOK'
  BY DEF IInv, TypeOK, SchemaTypeOK
<1>2. Schema'
  BY <1>1, SchemaKept DEF IInv, TypeOK, SchemaTypeOK, Opened
<1>3. OldRunNeverDriven'
  BY DEF IInv, TypeOK, SchemaTypeOK, Schema, OpenIsCurrent, OldRunNeverDriven, Pidded, AtWork
<1>4. Pidded'
  BY DEF IInv, TypeOK, Pidded, AtWork, Alive
<1>5. RowIsNewest'
  BY DEF IInv, TypeOK, Pidded, AtWork, RowIsNewest
<1>6. AttemptLeft'
  BY DEF IInv, TypeOK, AttemptLeft
<1> QED
  BY <1>1, <1>2, <1>3, <1>4, <1>5, <1>6 DEF IInv

\* The preflight migrates nothing.
LEMMA PreflightKeeps ==
  ASSUME IInv, NEW d \in Drivers, Preflight(d)
  PROVE  IInv'
<1> USE WatchAssumption DEF Preflight, SeeReadOnly, Go, database, graphRun, liveness,
     driving, bounds
<1>1. TypeOK'
  BY DEF IInv, TypeOK, SchemaTypeOK
<1>2. Schema'
  BY <1>1, SchemaKept DEF IInv, TypeOK, SchemaTypeOK, Opened
<1>3. OldRunNeverDriven'
  BY DEF IInv, TypeOK, SchemaTypeOK, Schema, OpenIsCurrent, OldRunNeverDriven, Pidded, AtWork
<1>4. Pidded'
  BY DEF IInv, TypeOK, Pidded, AtWork, Alive
<1>5. RowIsNewest'
  BY DEF IInv, TypeOK, Pidded, AtWork, RowIsNewest
<1>6. AttemptLeft'
  BY DEF IInv, TypeOK, AttemptLeft
<1> QED
  BY <1>1, <1>2, <1>3, <1>4, <1>5, <1>6 DEF IInv

\* Nothing but the driver moves.
LEMMA PreflightDoneKeeps ==
  ASSUME IInv, NEW d \in Drivers, PreflightDone(d)
  PROVE  IInv'
<1> USE WatchAssumption DEF PreflightDone, Go, database, graphRun, liveness, driving, bounds
<1>1. TypeOK'
  BY DEF IInv, TypeOK, SchemaTypeOK
<1>2. Schema'
  BY <1>1, SchemaKept DEF IInv, TypeOK, SchemaTypeOK, Opened
<1>3. OldRunNeverDriven'
  BY DEF IInv, TypeOK, SchemaTypeOK, Schema, OpenIsCurrent, OldRunNeverDriven, Pidded, AtWork
<1>4. Pidded'
  BY DEF IInv, TypeOK, Pidded, AtWork, Alive
<1>5. RowIsNewest'
  BY DEF IInv, TypeOK, Pidded, AtWork, RowIsNewest
<1>6. AttemptLeft'
  BY DEF IInv, TypeOK, AttemptLeft
<1> QED
  BY <1>1, <1>2, <1>3, <1>4, <1>5, <1>6 DEF IInv

\* The newest driver is alive, and so are all it must differ from.
LEMMA RegisterKeeps ==
  ASSUME IInv, NEW d \in Drivers, Register(d)
  PROVE  IInv'
<1> USE WatchAssumption DEF Register, Admitted, Registered, Go, database, graphRun,
     liveness, driving, bounds
<1>1. TypeOK'
  <2>1. row' \in [pid : Pids \cup {NoPid}, exit : {"none", "0", "1"}, fresh : BOOLEAN]
    <3>1. /\ pid[d] \in Pids \cup {NoPid}
          /\ row \in [pid : Pids \cup {NoPid}, exit : {"none", "0", "1"}, fresh : BOOLEAN]
      BY DEF IInv, TypeOK
    <3>2. row' = row \/ row' = [pid |-> pid[d], exit |-> "none", fresh |-> TRUE]
      OBVIOUS
    <3>3. CASE row' = row
      BY <3>1, <3>3
    <3>4. CASE row' = [pid |-> pid[d], exit |-> "none", fresh |-> TRUE]
      BY <3>1, <3>4
    <3> QED
      BY <3>2, <3>3, <3>4
  <2>2. newest' \in Drivers \cup {NoTask}
    BY DEF IInv, TypeOK
  <2>3. pc' = [pc EXCEPT ![d] = "recover"] \/ pc' = [pc EXCEPT ![d] = "over"]
    OBVIOUS
  <2> QED
    BY <2>1, <2>2, <2>3 DEF IInv, TypeOK, SchemaTypeOK
<1>2. Schema'
  BY <1>1, SchemaKept DEF IInv, TypeOK, SchemaTypeOK, Opened
<1>3. OldRunNeverDriven'
  BY DEF IInv, TypeOK, SchemaTypeOK, Schema, OpenIsCurrent, OldRunNeverDriven, Pidded, AtWork
<1>4. Pidded'
  BY DEF IInv, TypeOK, Pidded, AtWork, Alive
<1>5. RowIsNewest'
  BY DEF IInv, TypeOK, Pidded, AtWork, RowIsNewest
<1>6. AttemptLeft'
  BY DEF IInv, TypeOK, AttemptLeft
<1> QED
  BY <1>1, <1>2, <1>3, <1>4, <1>5, <1>6 DEF IInv

\* What was started before is failed; a retry needs an attempt left.
LEMMA RecoverKeeps ==
  ASSUME IInv, NEW d \in Drivers, Recover(d)
  PROVE  IInv'
<1> USE WatchAssumption DEF Recover, Append, RetryLeft, In, Go, database, graphRun,
     liveness, driving, bounds
<1>1. TypeOK'
  BY TransitionFacts DEF IInv, TypeOK, SchemaTypeOK
<1>2. Schema'
  BY <1>1, SchemaKept DEF IInv, TypeOK, SchemaTypeOK, Opened
<1>3. OldRunNeverDriven'
  BY TransitionFacts DEF IInv, TypeOK, SchemaTypeOK, Schema, OpenIsCurrent,
       OldRunNeverDriven, Pidded, AtWork
<1>4. Pidded'
  BY DEF IInv, TypeOK, Pidded, AtWork, Alive
<1>5. RowIsNewest'
  BY DEF IInv, TypeOK, Pidded, AtWork, RowIsNewest
<1>6. AttemptLeft'
  BY TransitionFacts DEF IInv, TypeOK, AttemptLeft
<1> QED
  BY <1>1, <1>2, <1>3, <1>4, <1>5, <1>6 DEF IInv

\* The heartbeat is the newest driver's.
LEMMA BeatKeeps ==
  ASSUME IInv, NEW d \in Drivers, Beat(d)
  PROVE  IInv'
<1> USE WatchAssumption DEF Beat, Go, database, graphRun, liveness, driving, bounds
<1>1. TypeOK'
  BY DEF IInv, TypeOK, SchemaTypeOK
<1>2. Schema'
  BY <1>1, SchemaKept DEF IInv, TypeOK, SchemaTypeOK, Opened
<1>3. OldRunNeverDriven'
  BY DEF IInv, TypeOK, SchemaTypeOK, Schema, OpenIsCurrent, OldRunNeverDriven, Pidded, AtWork
<1>4. Pidded'
  BY DEF IInv, TypeOK, Pidded, AtWork, Alive
<1>5. RowIsNewest'
  BY DEF IInv, TypeOK, Pidded, AtWork, RowIsNewest
<1>6. AttemptLeft'
  BY DEF IInv, TypeOK, AttemptLeft
<1> QED
  BY <1>1, <1>2, <1>3, <1>4, <1>5, <1>6 DEF IInv

\* Only AttemptStarted adds an attempt, and only to a Ready node.
LEMMA TickKeeps ==
  ASSUME IInv, NEW d \in Drivers, Tick(d)
  PROVE  IInv'
<1> USE WatchAssumption DEF Tick, Append, Go, database, graphRun, liveness, driving, bounds
<1> PICK t \in Tasks, event \in Events :
         /\ Append(t, event)
         /\ attempts' = IF event = "AttemptStarted" THEN [attempts EXCEPT ![t] = @ + 1] ELSE attempts
         /\ again' = [again EXCEPT ![d] = IF event = "HarnessCrashedOrTimeout" THEN t ELSE NoTask]
         /\ event # "RetryAuthorized"
  BY DEF Housekeeping, Progress
<1> HIDE DEF Tick
<1>a. /\ transition(st[t], event) \in TaskStates /\ st' = [st EXCEPT ![t] = transition(st[t], event)]
      /\ transition(st[t], event) \in {"Pending", "Ready", "Blocked"} =>
           st[t] \in {"Pending", "Ready", "Blocked"}
      /\ event = "AttemptStarted" => st[t] = "Ready" /\ transition(st[t], event) = "Running"
  BY TransitionFacts DEF Tick, IInv, TypeOK
<1>b. attempts' \in [Tasks -> 0..MaxRetries]
  BY <1>a DEF Tick, IInv, TypeOK, AttemptLeft
<1>1. TypeOK'
  BY <1>a, <1>b DEF Tick, IInv, TypeOK, SchemaTypeOK
<1>2. Schema'
  BY <1>1, SchemaKept DEF Tick, IInv, TypeOK, SchemaTypeOK, Opened
<1>3. OldRunNeverDriven'
  BY TransitionFacts DEF Tick, IInv, TypeOK, SchemaTypeOK, Schema, OpenIsCurrent,
       OldRunNeverDriven, Pidded, AtWork
<1>4. Pidded'
  BY DEF Tick, IInv, TypeOK, Pidded, AtWork, Alive
<1>5. RowIsNewest'
  BY DEF Tick, IInv, TypeOK, Pidded, AtWork, RowIsNewest
<1>6. AttemptLeft'
  BY <1>a, <1>b DEF IInv, TypeOK, AttemptLeft
<1> QED
  BY <1>1, <1>2, <1>3, <1>4, <1>5, <1>6 DEF Tick, IInv

\* A fallback needs an attempt left.
LEMMA FallBackKeeps ==
  ASSUME IInv, NEW d \in Drivers, FallBack(d)
  PROVE  IInv'
<1> USE WatchAssumption DEF FallBack, Append, RetryLeft, Go, database, graphRun,
     liveness, driving, bounds
<1>1. TypeOK'
  BY TransitionFacts DEF IInv, TypeOK, SchemaTypeOK
<1>2. Schema'
  BY <1>1, SchemaKept DEF IInv, TypeOK, SchemaTypeOK, Opened
<1>3. OldRunNeverDriven'
  BY TransitionFacts DEF IInv, TypeOK, SchemaTypeOK, Schema, OpenIsCurrent,
       OldRunNeverDriven, Pidded, AtWork
<1>4. Pidded'
  BY DEF IInv, TypeOK, Pidded, AtWork, Alive
<1>5. RowIsNewest'
  BY DEF IInv, TypeOK, Pidded, AtWork, RowIsNewest
<1>6. AttemptLeft'
  BY TransitionFacts DEF IInv, TypeOK, AttemptLeft
<1> QED
  BY <1>1, <1>2, <1>3, <1>4, <1>5, <1>6 DEF IInv

\* Nothing but the driver moves.
LEMMA LoopEndsKeeps ==
  ASSUME IInv, NEW d \in Drivers, LoopEnds(d)
  PROVE  IInv'
<1> USE WatchAssumption DEF LoopEnds, Go, database, graphRun, liveness, driving, bounds
<1>1. TypeOK'
  BY DEF IInv, TypeOK, SchemaTypeOK
<1>2. Schema'
  BY <1>1, SchemaKept DEF IInv, TypeOK, SchemaTypeOK, Opened
<1>3. OldRunNeverDriven'
  BY DEF IInv, TypeOK, SchemaTypeOK, Schema, OpenIsCurrent, OldRunNeverDriven, Pidded, AtWork
<1>4. Pidded'
  BY DEF IInv, TypeOK, Pidded, AtWork, Alive
<1>5. RowIsNewest'
  BY DEF IInv, TypeOK, Pidded, AtWork, RowIsNewest
<1>6. AttemptLeft'
  BY DEF IInv, TypeOK, AttemptLeft
<1> QED
  BY <1>1, <1>2, <1>3, <1>4, <1>5, <1>6 DEF IInv

\* An older driver does not match the row.
LEMMA FinishDriverKeeps ==
  ASSUME IInv, NEW d \in Drivers, FinishDriver(d)
  PROVE  IInv'
<1> USE WatchAssumption DEF FinishDriver, RecordsExit, Go, database, graphRun,
     liveness, driving, bounds
<1>1. TypeOK'
  BY DEF IInv, TypeOK, SchemaTypeOK
<1>2. Schema'
  BY <1>1, SchemaKept DEF IInv, TypeOK, SchemaTypeOK, Opened
<1>3. OldRunNeverDriven'
  BY DEF IInv, TypeOK, SchemaTypeOK, Schema, OpenIsCurrent, OldRunNeverDriven, Pidded, AtWork
<1>4. Pidded'
  BY DEF IInv, TypeOK, Pidded, AtWork, Alive
<1>5. RowIsNewest'
  BY DEF IInv, TypeOK, Pidded, AtWork, RowIsNewest
<1>6. AttemptLeft'
  BY DEF IInv, TypeOK, AttemptLeft
<1> QED
  BY <1>1, <1>2, <1>3, <1>4, <1>5, <1>6 DEF IInv

\* A watch migrates nothing.
LEMMA WatchOpensKeeps ==
  ASSUME IInv, NEW w \in Watchers, WatchOpens(w)
  PROVE  IInv'
<1> USE WatchAssumption DEF WatchOpens, SeeReadOnly, Go, database, graphRun,
     liveness, driving, bounds
<1>1. TypeOK'
  BY DEF IInv, TypeOK, SchemaTypeOK
<1>2. Schema'
  BY <1>1, SchemaKept DEF IInv, TypeOK, SchemaTypeOK, Opened
<1>3. OldRunNeverDriven'
  BY DEF IInv, TypeOK, SchemaTypeOK, Schema, OpenIsCurrent, OldRunNeverDriven, Pidded, AtWork
<1>4. Pidded'
  BY DEF IInv, TypeOK, Pidded, AtWork, Alive
<1>5. RowIsNewest'
  BY DEF IInv, TypeOK, Pidded, AtWork, RowIsNewest
<1>6. AttemptLeft'
  BY DEF IInv, TypeOK, AttemptLeft
<1> QED
  BY <1>1, <1>2, <1>3, <1>4, <1>5, <1>6 DEF IInv

\* Nothing but the watch moves.
LEMMA WatchStartsKeeps ==
  ASSUME IInv, NEW w \in Watchers, WatchStarts(w)
  PROVE  IInv'
<1> USE WatchAssumption DEF WatchStarts, Go, database, graphRun, liveness, driving, bounds
<1>1. TypeOK'
  BY DEF IInv, TypeOK, SchemaTypeOK
<1>2. Schema'
  BY <1>1, SchemaKept DEF IInv, TypeOK, SchemaTypeOK, Opened
<1>3. OldRunNeverDriven'
  BY DEF IInv, TypeOK, SchemaTypeOK, Schema, OpenIsCurrent, OldRunNeverDriven, Pidded, AtWork
<1>4. Pidded'
  BY DEF IInv, TypeOK, Pidded, AtWork, Alive
<1>5. RowIsNewest'
  BY DEF IInv, TypeOK, Pidded, AtWork, RowIsNewest
<1>6. AttemptLeft'
  BY DEF IInv, TypeOK, AttemptLeft
<1> QED
  BY <1>1, <1>2, <1>3, <1>4, <1>5, <1>6 DEF IInv

\* Nothing but the watch moves.
LEMMA WatchStopsKeeps ==
  ASSUME IInv, NEW w \in Watchers, WatchStops(w)
  PROVE  IInv'
<1> USE WatchAssumption DEF WatchStops, Go, database, graphRun, liveness, driving, bounds
<1>1. TypeOK'
  BY DEF IInv, TypeOK, SchemaTypeOK
<1>2. Schema'
  BY <1>1, SchemaKept DEF IInv, TypeOK, SchemaTypeOK, Opened
<1>3. OldRunNeverDriven'
  BY DEF IInv, TypeOK, SchemaTypeOK, Schema, OpenIsCurrent, OldRunNeverDriven, Pidded, AtWork
<1>4. Pidded'
  BY DEF IInv, TypeOK, Pidded, AtWork, Alive
<1>5. RowIsNewest'
  BY DEF IInv, TypeOK, Pidded, AtWork, RowIsNewest
<1>6. AttemptLeft'
  BY DEF IInv, TypeOK, AttemptLeft
<1> QED
  BY <1>1, <1>2, <1>3, <1>4, <1>5, <1>6 DEF IInv

\* Nothing but the watch moves.
LEMMA WatchTimesOutKeeps ==
  ASSUME IInv, NEW w \in Watchers, WatchTimesOut(w)
  PROVE  IInv'
<1> USE WatchAssumption DEF WatchTimesOut, Go, database, graphRun, liveness, driving, bounds
<1>1. TypeOK'
  BY DEF IInv, TypeOK, SchemaTypeOK
<1>2. Schema'
  BY <1>1, SchemaKept DEF IInv, TypeOK, SchemaTypeOK, Opened
<1>3. OldRunNeverDriven'
  BY DEF IInv, TypeOK, SchemaTypeOK, Schema, OpenIsCurrent, OldRunNeverDriven, Pidded, AtWork
<1>4. Pidded'
  BY DEF IInv, TypeOK, Pidded, AtWork, Alive
<1>5. RowIsNewest'
  BY DEF IInv, TypeOK, Pidded, AtWork, RowIsNewest
<1>6. AttemptLeft'
  BY DEF IInv, TypeOK, AttemptLeft
<1> QED
  BY <1>1, <1>2, <1>3, <1>4, <1>5, <1>6 DEF IInv

\* status migrates nothing.
LEMMA StatusOpensKeeps ==
  ASSUME IInv, NEW v \in Viewers, StatusOpens(v)
  PROVE  IInv'
<1> USE WatchAssumption DEF StatusOpens, SeeReadOnly, Go, database, graphRun,
     liveness, driving, bounds
<1>1. TypeOK'
  BY DEF IInv, TypeOK, SchemaTypeOK
<1>2. Schema'
  BY <1>1, SchemaKept DEF IInv, TypeOK, SchemaTypeOK, Opened
<1>3. OldRunNeverDriven'
  BY DEF IInv, TypeOK, SchemaTypeOK, Schema, OpenIsCurrent, OldRunNeverDriven, Pidded, AtWork
<1>4. Pidded'
  BY DEF IInv, TypeOK, Pidded, AtWork, Alive
<1>5. RowIsNewest'
  BY DEF IInv, TypeOK, Pidded, AtWork, RowIsNewest
<1>6. AttemptLeft'
  BY DEF IInv, TypeOK, AttemptLeft
<1> QED
  BY <1>1, <1>2, <1>3, <1>4, <1>5, <1>6 DEF IInv

\* The frame is the states of now.
LEMMA StatusReadsKeeps ==
  ASSUME IInv, NEW v \in Viewers, StatusReads(v)
  PROVE  IInv'
<1> USE WatchAssumption DEF StatusReads, Go, database, graphRun, liveness, driving, bounds
<1>1. TypeOK'
  BY DEF IInv, TypeOK, SchemaTypeOK
<1>2. Schema'
  BY <1>1, SchemaKept DEF IInv, TypeOK, SchemaTypeOK, Opened
<1>3. OldRunNeverDriven'
  BY DEF IInv, TypeOK, SchemaTypeOK, Schema, OpenIsCurrent, OldRunNeverDriven, Pidded, AtWork
<1>4. Pidded'
  BY DEF IInv, TypeOK, Pidded, AtWork, Alive
<1>5. RowIsNewest'
  BY DEF IInv, TypeOK, Pidded, AtWork, RowIsNewest
<1>6. AttemptLeft'
  BY DEF IInv, TypeOK, AttemptLeft
<1> QED
  BY <1>1, <1>2, <1>3, <1>4, <1>5, <1>6 DEF IInv

\* The frame was shown.
LEMMA ObserveKeeps ==
  ASSUME IInv, NEW v \in Viewers, NEW live, Observe(v, live)
  PROVE  IInv'
<1> USE WatchAssumption DEF Observe, Go, database, graphRun, liveness, driving, bounds
<1>1. TypeOK'
  BY DEF IInv, TypeOK, SchemaTypeOK, NoFrame, TaskStates
<1>2. Schema'
  BY <1>1, SchemaKept DEF IInv, TypeOK, SchemaTypeOK, Opened
<1>3. OldRunNeverDriven'
  BY DEF IInv, TypeOK, SchemaTypeOK, Schema, OpenIsCurrent, OldRunNeverDriven, Pidded, AtWork
<1>4. Pidded'
  BY DEF IInv, TypeOK, Pidded, AtWork, Alive
<1>5. RowIsNewest'
  BY DEF IInv, TypeOK, Pidded, AtWork, RowIsNewest
<1>6. AttemptLeft'
  BY DEF IInv, TypeOK, AttemptLeft
<1> QED
  BY <1>1, <1>2, <1>3, <1>4, <1>5, <1>6 DEF IInv

\* No node of an undriven run awaits a review.
LEMMA HumanAcceptsKeeps ==
  ASSUME IInv, NEW t \in Tasks, HumanAccepts(t)
  PROVE  IInv'
<1> USE WatchAssumption DEF HumanAccepts, Append, Go, database, graphRun, liveness,
     driving, bounds
<1>1. TypeOK'
  BY TransitionFacts DEF IInv, TypeOK, SchemaTypeOK
<1>2. Schema'
  BY <1>1, SchemaKept DEF IInv, TypeOK, SchemaTypeOK, Opened
<1>3. OldRunNeverDriven'
  BY TransitionFacts DEF IInv, TypeOK, SchemaTypeOK, Schema, OpenIsCurrent,
       OldRunNeverDriven, Pidded, AtWork
<1>4. Pidded'
  BY DEF IInv, TypeOK, Pidded, AtWork, Alive
<1>5. RowIsNewest'
  BY DEF IInv, TypeOK, Pidded, AtWork, RowIsNewest
<1>6. AttemptLeft'
  BY TransitionFacts DEF IInv, TypeOK, AttemptLeft
<1> QED
  BY <1>1, <1>2, <1>3, <1>4, <1>5, <1>6 DEF IInv

\* An old run is marked and is not cancelled.
LEMMA CancelTaskKeeps ==
  ASSUME IInv, NEW t \in Tasks, CancelTask(t)
  PROVE  IInv'
<1> USE WatchAssumption DEF CancelTask, Append, Go, database, graphRun, liveness,
     driving, bounds
<1>1. TypeOK'
  BY TransitionFacts DEF IInv, TypeOK, SchemaTypeOK
<1>2. Schema'
  BY <1>1, SchemaKept DEF IInv, TypeOK, SchemaTypeOK, Opened
<1>3. OldRunNeverDriven'
  <2>1. run # "old"
    BY DEF IInv, TypeOK, SchemaTypeOK, Schema, Versions
  <2> QED
    BY <2>1 DEF OldRunNeverDriven
<1>4. Pidded'
  BY DEF IInv, TypeOK, Pidded, AtWork, Alive
<1>5. RowIsNewest'
  BY DEF IInv, TypeOK, Pidded, AtWork, RowIsNewest
<1>6. AttemptLeft'
  BY TransitionFacts DEF IInv, TypeOK, AttemptLeft
<1> QED
  BY <1>1, <1>2, <1>3, <1>4, <1>5, <1>6 DEF IInv

\* The plan alone changes.
LEMMA AcceptPlanKeeps ==
  ASSUME IInv, AcceptPlan
  PROVE  IInv'
<1> USE WatchAssumption DEF AcceptPlan, Go, database, graphRun, liveness, driving, bounds
<1>1. TypeOK'
  BY DEF IInv, TypeOK, SchemaTypeOK, PlanStates
<1>2. Schema'
  BY <1>1, SchemaKept DEF IInv, TypeOK, SchemaTypeOK, Opened
<1>3. OldRunNeverDriven'
  BY DEF IInv, TypeOK, SchemaTypeOK, Schema, OpenIsCurrent, OldRunNeverDriven, Pidded, AtWork
<1>4. Pidded'
  BY DEF IInv, TypeOK, Pidded, AtWork, Alive
<1>5. RowIsNewest'
  BY DEF IInv, TypeOK, Pidded, AtWork, RowIsNewest
<1>6. AttemptLeft'
  BY DEF IInv, TypeOK, AttemptLeft
<1> QED
  BY <1>1, <1>2, <1>3, <1>4, <1>5, <1>6 DEF IInv

\* A driver that is over does not die.
LEMMA DiesKeeps ==
  ASSUME IInv, NEW p \in Processes, Dies(p)
  PROVE  IInv'
<1> USE WatchAssumption DEF Dies, Go, database, graphRun, liveness, driving, bounds
<1>1. TypeOK'
  BY DEF IInv, TypeOK, SchemaTypeOK
<1>2. Schema'
  BY <1>1, SchemaKept DEF IInv, TypeOK, SchemaTypeOK, Opened
<1>3. OldRunNeverDriven'
  BY DEF IInv, TypeOK, SchemaTypeOK, Schema, OpenIsCurrent, OldRunNeverDriven, Pidded, AtWork
<1>4. Pidded'
  BY DEF IInv, TypeOK, Pidded, AtWork, Alive
<1>5. RowIsNewest'
  BY DEF Alive, IInv, TypeOK, Pidded, AtWork, RowIsNewest
<1>6. AttemptLeft'
  BY DEF IInv, TypeOK, AttemptLeft
<1> QED
  BY <1>1, <1>2, <1>3, <1>4, <1>5, <1>6 DEF IInv

\* Time alone passes.
LEMMA BeatAgesKeeps ==
  ASSUME IInv, BeatAges
  PROVE  IInv'
<1> USE WatchAssumption DEF BeatAges, Go, database, graphRun, liveness, driving, bounds
<1>1. TypeOK'
  BY DEF IInv, TypeOK, SchemaTypeOK
<1>2. Schema'
  BY <1>1, SchemaKept DEF IInv, TypeOK, SchemaTypeOK, Opened
<1>3. OldRunNeverDriven'
  BY DEF IInv, TypeOK, SchemaTypeOK, Schema, OpenIsCurrent, OldRunNeverDriven, Pidded, AtWork
<1>4. Pidded'
  BY DEF IInv, TypeOK, Pidded, AtWork, Alive
<1>5. RowIsNewest'
  BY DEF IInv, TypeOK, Pidded, AtWork, RowIsNewest
<1>6. AttemptLeft'
  BY DEF IInv, TypeOK, AttemptLeft
<1> QED
  BY <1>1, <1>2, <1>3, <1>4, <1>5, <1>6 DEF IInv

\* One case per action.
LEMMA StepHolds == IInv /\ [Next]_vars => IInv'
<1> SUFFICES ASSUME IInv, [Next]_vars PROVE IInv'
  OBVIOUS
<1>1. ASSUME NEW p \in Processes, Opens(p) PROVE IInv'
  BY <1>1, SchemaVersionKeeps, DispatchKeeps, MigrateKeeps, Migrate_v6_to_v7Keeps,
       Migrate_v7_to_v8Keeps
     DEF Opens, Open
<1>2. ASSUME NEW p \in Processes, PlanOpens(p) PROVE IInv'
  BY <1>2, PlanOpensKeeps
<1>3. ASSUME NEW p \in Processes, PlanDone(p) PROVE IInv'
  BY <1>3, PlanDoneKeeps
<1>4. ASSUME NEW d \in Drivers, Spawn(d) PROVE IInv'
  BY <1>4, SpawnKeeps
<1>5. ASSUME NEW d \in Drivers, Preflight(d) PROVE IInv'
  BY <1>5, PreflightKeeps
<1>6. ASSUME NEW d \in Drivers, PreflightDone(d) PROVE IInv'
  BY <1>6, PreflightDoneKeeps
<1>7. ASSUME NEW d \in Drivers, Register(d) PROVE IInv'
  BY <1>7, RegisterKeeps
<1>8. ASSUME NEW d \in Drivers, Recover(d) PROVE IInv'
  BY <1>8, RecoverKeeps
<1>9. ASSUME NEW d \in Drivers, Beat(d) PROVE IInv'
  BY <1>9, BeatKeeps
<1>10. ASSUME NEW d \in Drivers, Tick(d) PROVE IInv'
  BY <1>10, TickKeeps
<1>11. ASSUME NEW d \in Drivers, FallBack(d) PROVE IInv'
  BY <1>11, FallBackKeeps
<1>12. ASSUME NEW d \in Drivers, LoopEnds(d) PROVE IInv'
  BY <1>12, LoopEndsKeeps
<1>13. ASSUME NEW d \in Drivers, FinishDriver(d) PROVE IInv'
  BY <1>13, FinishDriverKeeps
<1>14. ASSUME NEW w \in Watchers, WatchOpens(w) PROVE IInv'
  BY <1>14, WatchOpensKeeps
<1>15. ASSUME NEW w \in Watchers, WatchStarts(w) PROVE IInv'
  BY <1>15, WatchStartsKeeps
<1>16. ASSUME NEW w \in Watchers, WatchStops(w) PROVE IInv'
  BY <1>16, WatchStopsKeeps
<1>17. ASSUME NEW w \in Watchers, WatchTimesOut(w) PROVE IInv'
  BY <1>17, WatchTimesOutKeeps
<1>18. ASSUME NEW u \in Viewers, StatusOpens(u) PROVE IInv'
  BY <1>18, StatusOpensKeeps
<1>19. ASSUME NEW u \in Viewers, StatusReads(u) PROVE IInv'
  BY <1>19, StatusReadsKeeps
<1>20. ASSUME NEW v \in Viewers, NEW live, Observe(v, live) PROVE IInv'
  BY <1>20, ObserveKeeps
<1>21. ASSUME NEW t \in Tasks, HumanAccepts(t) PROVE IInv'
  BY <1>21, HumanAcceptsKeeps
<1>22. ASSUME NEW t \in Tasks, CancelTask(t) PROVE IInv'
  BY <1>22, CancelTaskKeeps
<1>23. CASE AcceptPlan
  BY <1>23, AcceptPlanKeeps
<1>24. ASSUME NEW p \in Processes, Dies(p) PROVE IInv'
  BY <1>24, DiesKeeps
<1>25. CASE BeatAges
  BY <1>25, BeatAgesKeeps
<1>26. CASE UNCHANGED vars
  <2>1. /\ TypeOK' /\ OldRunNeverDriven' /\ RowIsNewest' /\ AttemptLeft'
    BY <1>26 DEF IInv, TypeOK, SchemaTypeOK, OldRunNeverDriven, RowIsNewest,
         AttemptLeft, vars, database, graphRun,
       liveness, driving, bounds
  <2>2. Schema'
    BY <1>26, SchemaKept DEF vars, database
  <2>3. Pidded'
    BY <1>26 DEF IInv, Pidded, Alive, vars, liveness
  <2> QED
    BY <2>1, <2>2, <2>3 DEF IInv
<1> QED
  BY <1>1, <1>2, <1>3, <1>4, <1>5, <1>6, <1>7, <1>8, <1>9, <1>10, <1>11, <1>12, <1>13,
     <1>14, <1>15, <1>16, <1>17, <1>18, <1>19, <1>20, <1>21, <1>22, <1>23, <1>24, <1>25,
     <1>26
     DEF Next, Driver, Watcher, Viewer, World

-----------------------------------------------------------------------------
(* The properties. *)

\* Whatever processes open, drive, watch and die, IInv holds.
THEOREM WatchInvariant == Spec => []IInv
  BY InitHolds, StepHolds, PTL DEF Spec

\* No order and no death of the processes that open an old file leaves it half
\* migrated, opens it before it is current, or lets the old run in it be driven
\* (migrate_with_fault, legacy_mutation_admission); and no driver starts more
\* attempts than limits.max_retries (TypeOK).
THEOREM MigrationTheorem == Spec => []MigrationIsSafe
<1>1. IInv => MigrationIsSafe
  BY DEF IInv, Schema, MigrationIsSafe
<1> QED
  BY <1>1, WatchInvariant, PTL

\* The driver's row is of the newest driver, although pids are used again; watch
\* ends where the driver does and with its verdict, and status explains every
\* node that is stuck (upsert_driver, record_driver_exit, watch_exit,
\* status_snapshot).
THEOREM ReadersTheorem == Spec => []ReadersAreTold
<1>1. IInv => ReadersAreTold
  BY RestAgrees, RestExplained DEF IInv, ReadersAreTold
<1> QED
  BY <1>1, WatchInvariant, PTL

\* status hints at resume beside a driver at work only when the host could not
\* tell and the heartbeat is old (driver_label, needs_driver).
THEOREM HintTheorem == Spec => HintIsSafe
<1> DEFINE Safe ==
      \A v \in Viewers : pc[v] = "framed" /\ pc'[v] = "hinted" =>
        \/ ~row.fresh
        \/ newest = NoTask \/ pc[newest] \in {"over", "dead"}
<1>1. IInv /\ [Next]_vars => [Safe]_vars
  <2> SUFFICES ASSUME IInv, Next, NEW v \in Viewers, pc[v] = "framed", pc'[v] = "hinted",
                      row.fresh, newest # NoTask
               PROVE  pc[newest] \in {"over", "dead"}
    OBVIOUS
  <2>1. PICK live : Observe(v, live)
    <3> USE WatchAssumption DEF IInv, TypeOK, Go
    <3>1. ASSUME NEW p \in Processes, PlanOpens(p) PROVE FALSE
      BY <3>1 DEF PlanOpens, SeeReadOnly
    <3>2. ASSUME NEW p \in Processes, PlanDone(p) PROVE FALSE
      BY <3>2 DEF PlanDone, SeeReadOnly
    <3>3. ASSUME NEW d \in Drivers, Spawn(d) PROVE FALSE
      BY <3>3 DEF Spawn, SeeReadOnly
    <3>4. ASSUME NEW d \in Drivers, Preflight(d) PROVE FALSE
      BY <3>4 DEF Preflight, SeeReadOnly
    <3>5. ASSUME NEW d \in Drivers, PreflightDone(d) PROVE FALSE
      BY <3>5 DEF PreflightDone, SeeReadOnly
    <3>6. ASSUME NEW d \in Drivers, Register(d) PROVE FALSE
      BY <3>6 DEF Register, SeeReadOnly
    <3>7. ASSUME NEW d \in Drivers, Recover(d) PROVE FALSE
      BY <3>7 DEF Recover, SeeReadOnly
    <3>8. ASSUME NEW d \in Drivers, Beat(d) PROVE FALSE
      BY <3>8 DEF Beat, SeeReadOnly
    <3>9. ASSUME NEW d \in Drivers, Tick(d) PROVE FALSE
      BY <3>9 DEF Tick, SeeReadOnly
    <3>10. ASSUME NEW d \in Drivers, FallBack(d) PROVE FALSE
      BY <3>10 DEF FallBack, SeeReadOnly
    <3>11. ASSUME NEW d \in Drivers, LoopEnds(d) PROVE FALSE
      BY <3>11 DEF LoopEnds, SeeReadOnly
    <3>12. ASSUME NEW d \in Drivers, FinishDriver(d) PROVE FALSE
      BY <3>12 DEF FinishDriver, SeeReadOnly
    <3>13. ASSUME NEW w \in Watchers, WatchOpens(w) PROVE FALSE
      BY <3>13 DEF WatchOpens, SeeReadOnly
    <3>14. ASSUME NEW w \in Watchers, WatchStarts(w) PROVE FALSE
      BY <3>14 DEF WatchStarts, SeeReadOnly
    <3>15. ASSUME NEW w \in Watchers, WatchStops(w) PROVE FALSE
      BY <3>15 DEF WatchStops, SeeReadOnly
    <3>16. ASSUME NEW w \in Watchers, WatchTimesOut(w) PROVE FALSE
      BY <3>16 DEF WatchTimesOut, SeeReadOnly
    <3>17. ASSUME NEW u \in Viewers, StatusOpens(u) PROVE FALSE
      BY <3>17 DEF StatusOpens, SeeReadOnly
    <3>18. ASSUME NEW u \in Viewers, StatusReads(u) PROVE FALSE
      BY <3>18 DEF StatusReads, SeeReadOnly
    <3>19. ASSUME NEW t \in Tasks, HumanAccepts(t) PROVE FALSE
      BY <3>19 DEF HumanAccepts, SeeReadOnly
    <3>20. ASSUME NEW t \in Tasks, CancelTask(t) PROVE FALSE
      BY <3>20 DEF CancelTask, SeeReadOnly
    <3>21. CASE AcceptPlan
      BY <3>21 DEF AcceptPlan
    <3>22. ASSUME NEW p \in Processes, Dies(p) PROVE FALSE
      BY <3>22 DEF Dies, SeeReadOnly
    <3>23. CASE BeatAges
      BY <3>23 DEF BeatAges
    <3>90. ASSUME NEW p \in Processes, Open(p) PROVE FALSE
      BY <3>90 DEF Open, SchemaVersion, Dispatch, Migrate, migrate_v6_to_v7, migrate_v7_to_v8
    <3>91. ASSUME NEW u \in Viewers, NEW live, Observe(u, live), u # v PROVE FALSE
      BY <3>91 DEF Observe
    <3> QED
      BY <3>1, <3>2, <3>3, <3>4, <3>5, <3>6, <3>7, <3>8, <3>9, <3>10, <3>11, <3>12,
           <3>13, <3>14, <3>15, <3>16, <3>17, <3>18, <3>19, <3>20, <3>21, <3>22, <3>23,
           <3>90, <3>91 DEF Next, Opens, Driver, Watcher, Viewer, World
  <2>2. row.pid = pid[newest] /\ newest \in Drivers /\ (row.exit # "none" => pc[newest] = "over")
    BY DEF IInv, TypeOK, RowIsNewest
  <2>3. CASE row.exit # "none"
    BY <2>2, <2>3
  <2>4. CASE row.exit = "none"
    <3>1. driver_label(live) # "alive" /\ live \in IsLive(row.pid)
      BY <2>1 DEF Observe, Go, IInv, TypeOK
    <3>2. live = "Dead"
      BY <2>4, <3>1 DEF driver_label, IsLive
    <3>3. ~Alive(newest)
      BY <2>2, <3>1, <3>2 DEF IsLive
    <3> QED
      BY <2>2, <3>3 DEF IInv, Pidded, Alive, AtWork
  <2> QED
    BY <2>3, <2>4
<1> QED
  BY <1>1, WatchInvariant, PTL DEF Spec, HintIsSafe
=============================================================================
