-------------------------- MODULE Workspace_proofs --------------------------
(***************************************************************************)
(* Proofs about the workspace: what the ledger's readers are given, and    *)
(* what an inventory lists, previews, applies and proves.                  *)
(***************************************************************************)
EXTENDS WorkspaceLedger, WorkspaceInventory, FiniteSetTheorems, WellFoundedInduction, TLAPS

-----------------------------------------------------------------------------
(* The workspace ledger                                                    *)

\* Revisions are appended after existing ones and never change: no cycle.
Rooted ==
  /\ \A r \in RevIds : revs[r].there /\ revs[r].pred # None => revs[revs[r].pred].there
  /\ \A S \in SUBSET {r \in RevIds : revs[r].there} :
       S # {} => \E r \in S : revs[r].pred \notin S

\* Whoever is inside a transaction holds the fence, and what an activation read still is.
Transacts ==
  \A c \in Callers :
    /\ caller[c].pc # "idle" => fence = c
    /\ caller[c].pc = "activate" => bind.on /\ caller[c].b = bind.rev

\* A legacy write that is under way has one left to count.
Admitted ==
  \A w \in Writers :
    /\ writer[w].op # "none" => writer[w].left > 0
    /\ writer[w].op = "attempt" => writer[w].id \in Ids

\* The tables refer to each other: what is scoped belongs to a generation there is.
Refers ==
  /\ ~bind.on => bind.gen = None /\ bind.rev = None
  /\ bind.gen # None => HasGen(bind.gen)
  /\ bind.rev # None => revs[bind.rev].there
  /\ bind.on => ~marked.run
  /\ \A i \in Ids : Scoped(i) =>
       attempts[i].graph = "BoundGraph" /\ HasGen(attempts[i].gen)
  /\ \A e \in events : e.gen # None => HasGen(e.gen)

\* The active generation: its chain of revisions, and what was executed in it.
Executed ==
  bind.gen # None =>
    /\ Initial # None /\ auth[Initial] # "none" /\ gens[bind.gen].plan = Initial
    /\ Initial \in Chain /\ bind.rev \in Chain
    /\ \A r \in Chain : revs[r].there
    /\ \A r \in Chain \ {Initial} : revs[r].gen \in {None, bind.gen} /\ revs[r].pred \in Chain
    /\ \A i \in scoped_attempts :
         /\ attempts[i].rev \in Chain /\ auth[attempts[i].rev] # "none"
         /\ late \/ ~attempts[i].path
    /\ \A e \in scoped_events :
         /\ e.rev \in Chain /\ auth[e.rev] # "none"
         /\ e.id # None => e.id \in scoped_attempts /\ attempts[e.id].task = e.task

IInv ==
  TypeOK /\ Rooted /\ Transacts /\ Admitted /\ Refers /\ Executed /\ RowIsCurrentRevision

-----------------------------------------------------------------------------
\* A set of naturals that is not empty has a least element.
LEMMA LeastNatural ==
  ASSUME NEW T \in SUBSET Nat, T # {}
  PROVE  \E x \in T : \A y \in T : x <= y
<1> DEFINE R == {ss \in Nat \X Nat : ss[1] < ss[2]}
<1>1. IsWellFoundedOn(R, Nat)
  BY NatLessThanWellFounded DEF OpToRel
<1>2. \A x, y \in Nat : <<y, x>> \in R <=> y < x
  OBVIOUS
<1> HIDE DEF R
<1>3. PICK x \in T : \A y \in T : <<y, x>> \notin R
  BY <1>1, WFMin
<1>4. ASSUME NEW y \in T PROVE x <= y
  <2>1. x \in Nat /\ y \in Nat
    OBVIOUS
  <2>2. ~(y < x)
    BY <1>2, <1>3, <2>1
  <2> QED BY <2>1, <2>2
<1> QED
  BY <1>4

\* The maximum of a bounded set of naturals is in it and bounds it.
LEMMA MaxFacts ==
  ASSUME NEW N \in Nat, NEW S \in SUBSET (0..N), S # {}
  PROVE  Max(S) \in S /\ \A x \in S : x <= Max(S)
<1> DEFINE T == {n \in Nat : \A x \in S : x <= n}
<1>1. N \in T
  OBVIOUS
<1>2. PICK m \in T : \A n \in T : m <= n
  BY <1>1, LeastNatural
<1>3. m \in S
  <2>0. m \in Nat /\ \A x \in S : x \in Nat /\ x <= m
    OBVIOUS
  <2>1. CASE m = 0
    <3>1. PICK x \in S : TRUE
      OBVIOUS
    <3>2. x = m
      BY <2>0, <2>1
    <3> QED BY <3>2
  <2>2. CASE m # 0 /\ m \notin S
    <3>1. m - 1 \in T
      BY <2>0, <2>2
    <3> QED BY <2>0, <3>1, <1>2
  <2> QED BY <2>1, <2>2
<1>4. m \in S /\ \A x \in S : m >= x
  BY <1>3
<1> QED
  BY <1>4 DEF Max

\* The id a reservation or a legacy attempt takes is free.
LEMMA FreshId ==
  ASSUME TypeOK
  PROVE  /\ Max(Stored \cup {0}) \in 0..MaxIds
         /\ \A i \in Stored : i <= Max(Stored \cup {0})
         /\ Max({next, Max(Stored \cup {0}) + 1}) \notin Stored
<1> DEFINE m == Max(Stored \cup {0})
<1>1. MaxIds \in Nat /\ Stored \subseteq 1..MaxIds
  BY LedgerAssumption DEF Stored, Ids
<1>2. Stored \cup {0} \in SUBSET (0..MaxIds) /\ Stored \cup {0} # {}
  BY <1>1
<1>3. m \in Stored \cup {0} /\ \A i \in Stored \cup {0} : i <= m
  BY <1>1, <1>2, MaxFacts
<1>4. m \in 0..MaxIds
  BY <1>2, <1>3
<1> HIDE DEF m
<1>5. {next, m + 1} \in SUBSET (0..(MaxIds + 1)) /\ {next, m + 1} # {} /\ MaxIds + 1 \in Nat
  BY <1>1, <1>4 DEF TypeOK
<1>6. m + 1 <= Max({next, m + 1})
  BY <1>5, MaxFacts
<1>7. \A i \in Stored : i < m + 1
  BY <1>1, <1>3, <1>4
<1>8. Max({next, m + 1}) \in Nat
  <2>1. Max({next, m + 1}) \in {next, m + 1}
    BY <1>5, MaxFacts
  <2> QED BY <1>5, <2>1
<1>9. Max({next, m + 1}) \notin Stored
  <2> DEFINE id == Max({next, m + 1})
  <2>1. m \in Nat /\ id \in Nat /\ m + 1 <= id
    BY <1>4, <1>6, <1>8
  <2> HIDE DEF id
  <2>2. id \in Stored => id < m + 1
    BY <1>7
  <2>3. id \notin Stored
    BY <2>1, <2>2
  <2> QED BY <2>3 DEF id
<1> QED
  BY <1>3, <1>4, <1>9 DEF m

\* The constants' corners that every step relies on.
LEMMA Corners ==
  /\ 1 \in RevIds /\ 1 \in Ids /\ 1 \in GenIds
  /\ \A s \in {"PlanAccepted", "AwaitingPlanReview"}, p \in Plans :
       [state |-> s, plan |-> p] \in Rows
  /\ \A p \in Plans : TasksOf(p) \subseteq Plans /\ TasksOf(p) \subseteq 0..MaxRevs
  /\ None \notin RevIds /\ None \notin GenIds /\ None \notin Ids
  /\ 1 \in Plans /\ 1 \in 0..MaxRevs /\ None \in 0..MaxRevs
<1>1. /\ 1 \in RevIds /\ 1 \in Ids /\ 1 \in GenIds
      /\ None \notin RevIds /\ None \notin GenIds /\ None \notin Ids
      /\ 1 \in Plans /\ 1 \in 0..MaxRevs /\ None \in 0..MaxRevs
  BY LedgerAssumption DEF RevIds, Ids, GenIds, Plans, None
<1>2. \A s \in {"PlanAccepted", "AwaitingPlanReview"}, p \in Plans :
        [state |-> s, plan |-> p] \in Rows
  BY DEF Rows
<1>3. ASSUME NEW p \in Plans
      PROVE  TasksOf(p) \subseteq Plans /\ TasksOf(p) \subseteq 0..MaxRevs
  BY LedgerAssumption DEF RevIds, Plans, TasksOf
<1> QED
  BY <1>1, <1>2, <1>3

\* The tables and the processes are well typed from the start.
LEMMA TypeInit == Init => TypeOK
<1> SUFFICES ASSUME Init PROVE TypeOK
  OBVIOUS
<1>1. run \in Rows /\ marked \in [run : BOOLEAN, attempts : SUBSET Ids]
  <2>1. [run |-> FALSE, attempts |-> {}] \in [run : BOOLEAN, attempts : SUBSET Ids]
    OBVIOUS
  <2>2. [run |-> TRUE, attempts |-> {1}] \in [run : BOOLEAN, attempts : SUBSET Ids]
    BY Corners
  <2> QED BY <2>1, <2>2 DEF Init
<1>2. /\ bind \in [on : BOOLEAN, gen : GenIds \cup {None}, rev : RevIds \cup {None}]
      /\ revs \in [RevIds -> [there : BOOLEAN, pred : RevIds \cup {None}, gen : GenIds \cup {None}]]
      /\ auth \in [RevIds -> {"none", "Accepted", "Declined"}]
      /\ gens \in [GenIds -> [plan : Plans \cup {None}, rev : RevIds \cup {None}]]
  BY Corners DEF Init, NoRev, NoGen
<1>3. attempts \in [Ids -> [graph : Graphs \cup {"none"}, gen : GenIds \cup {None},
                            rev : RevIds \cup {None}, task : 0..MaxRevs, path : BOOLEAN]]
  <2> DEFINE Row == [graph : Graphs \cup {"none"}, gen : GenIds \cup {None},
                     rev : RevIds \cup {None}, task : 0..MaxRevs, path : BOOLEAN]
  <2>1. NoAttempt \in Row
    BY Corners DEF NoAttempt
  <2>2. [NoAttempt EXCEPT !.graph = "BoundGraph", !.task = 1, !.path = TRUE] \in Row
    BY <2>1, Corners DEF Graphs
  <2> HIDE DEF Row
  <2>3. attempts \in [Ids -> Row]
    BY <2>1, <2>2 DEF Init
  <2> QED BY <2>3 DEF Row
<1>4. /\ next \in 1..(MaxIds + 1)
      /\ events \subseteq [gen : GenIds \cup {None}, rev : RevIds \cup {None}, task : Plans,
                           id : Ids \cup {None}]
      /\ placed \in BOOLEAN /\ late \in BOOLEAN
      /\ fence \in Callers \cup {NoOne}
  <2>1. next \in {1, 2}
    BY DEF Init
  <2>2. {1, 2} \subseteq 1..(MaxIds + 1)
    BY LedgerAssumption
  <2> QED BY <2>1, <2>2 DEF Init
<1>5. caller \in [Callers -> [pc : {"idle", "activate", "adopt"}, b : RevIds \cup {None}]]
  BY DEF Init
<1>6. writer \in [Writers -> [op : {"none", "row", "event", "attempt", "events", "attempts"},
                              graph : Graphs, id : Ids \cup {None}, checked : BOOLEAN,
                              left : 0..MaxWrites]]
  BY LedgerAssumption DEF Init, NoWrite, Graphs
<1> QED
  BY <1>1, <1>2, <1>3, <1>4, <1>5, <1>6 DEF TypeOK

Writes == [op : {"none", "row", "event", "attempt", "events", "attempts"}, graph : Graphs,
           id : Ids \cup {None}, checked : BOOLEAN, left : 0..MaxWrites]

\* A write that is done is one less to come.
LEMMA DoneType ==
  ASSUME NEW w \in Writes, w.left > 0
  PROVE  Done(w) \in Writes /\ Done(w).op = "none" /\ Done(w).checked = FALSE
<1>1. w.left \in 0..MaxWrites /\ w.left - 1 \in 0..MaxWrites
  BY LedgerAssumption DEF Writes
<1>2. NoWrite \in Writes
  BY LedgerAssumption DEF NoWrite, Writes, Graphs
<1>3. [NoWrite EXCEPT !.left = w.left - 1] \in Writes
  BY <1>1, <1>2 DEF Writes
<1> QED
  BY <1>3 DEF Done, NoWrite

States == [pc : {"idle", "activate", "adopt"}, b : RevIds \cup {None}]

\* A caller's counter and what it has read change together.
LEMMA CallerFacts ==
  ASSUME caller \in [Callers -> States], NEW c \in Callers,
         NEW p \in {"idle", "activate", "adopt"}, NEW q \in RevIds \cup {None},
         caller' = [caller EXCEPT ![c].pc = p, ![c].b = q]
  PROVE  /\ caller' \in [Callers -> States]
         /\ caller'[c].pc = p /\ caller'[c].b = q
         /\ \A d \in Callers : d # c => caller'[d] = caller[d]
<1>1. [caller[c] EXCEPT !.pc = p] \in States /\ [caller[c] EXCEPT !.pc = p].pc = p
  BY DEF States
<1> DEFINE f == [caller EXCEPT ![c] = [caller[c] EXCEPT !.pc = p]]
<1>2. f \in [Callers -> States] /\ f[c].pc = p /\ \A d \in Callers : d # c => f[d] = caller[d]
  BY <1>1
<1>3. caller' = [f EXCEPT ![c] = [f[c] EXCEPT !.b = q]]
  OBVIOUS
<1> HIDE DEF f
<1>4. [f[c] EXCEPT !.b = q] \in States /\ [f[c] EXCEPT !.b = q].b = q /\ [f[c] EXCEPT !.b = q].pc = p
  BY <1>2 DEF States
<1> QED
  BY <1>2, <1>3, <1>4

\* The transactions of the fence's holder keep the types.
LEMMA CallerTyping ==
  ASSUME TypeOK, NEW c \in Callers, Caller(c) \/ Adopt(c)
  PROVE  TypeOK'
<1> USE DEF TypeOK, plans, records, procs, Around
<1>n. \A r \in RevIds : PlanOf(r) \in Plans
  BY DEF PlanOf, Plans
<1>1. CASE AcquireFence(c)
  BY <1>1 DEF AcquireFence
<1>2. CASE ReleaseFence(c)
  BY <1>2, CallerFacts DEF ReleaseFence, States
<1>3. CASE CreateRunBinding(c)
  BY <1>3 DEF CreateRunBinding
<1>4. CASE AppendRevision(c)
  BY <1>4 DEF AppendRevision
<1>5. CASE AuthorizeRevision(c)
  BY <1>5 DEF AuthorizeRevision
<1>6. CASE InsertGeneration(c)
  <2>1. run.plan \in Plans
    BY DEF Rows
  <2> QED BY <1>6, <2>1 DEF InsertGeneration
<1>7. CASE BeginActivate(c)
  BY <1>7, CallerFacts DEF BeginActivate, States
<1>8. CASE EndActivate(c)
  <2>1. run.plan \in Plans
    BY DEF Rows
  <2>2. PICK r \in RevIds, g \in GenIds : Activates(c, r, g)
    BY <1>8 DEF EndActivate
  <2>3. /\ bind' \in [on : BOOLEAN, gen : GenIds \cup {None}, rev : RevIds \cup {None}]
        /\ revs' \in [RevIds -> [there : BOOLEAN, pred : RevIds \cup {None},
                                 gen : GenIds \cup {None}]]
        /\ auth' \in [RevIds -> {"none", "Accepted", "Declined"}]
        /\ gens' \in [GenIds -> [plan : Plans \cup {None}, rev : RevIds \cup {None}]]
    BY <2>1, <2>2 DEF Activates
  <2>4. caller' \in [Callers -> [pc : {"idle", "activate", "adopt"}, b : RevIds \cup {None}]]
    BY <1>8, CallerFacts DEF EndActivate, States
  <2> QED BY <1>8, <2>3, <2>4 DEF EndActivate
<1>9. ASSUME NEW r \in RevIds, Follow(r)
      PROVE  /\ run' \in Rows
             /\ bind' \in [on : BOOLEAN, gen : GenIds \cup {None}, rev : RevIds \cup {None}]
  BY <1>9, <1>n, Corners DEF Follow, Projected, PlanState
<1>10. CASE SelectRevision(c)
  BY <1>9, <1>10 DEF SelectRevision
<1>11. CASE ProjectRevision(c)
  BY <1>9, <1>11 DEF ProjectRevision
<1>12. CASE ReserveAttempt(c)
  <2> DEFINE id == Max({next, Max(Stored \cup {0}) + 1})
             Row == [graph : Graphs \cup {"none"}, gen : GenIds \cup {None},
                     rev : RevIds \cup {None}, task : 0..MaxRevs, path : BOOLEAN]
  <2>1. id \in Ids /\ next' = id + 1 /\ UNCHANGED <<Around, run, plans, events>>
    BY <1>12 DEF ReserveAttempt
  <2>2. PICK task \in TasksOf(PlanOf(bind.rev)) :
          attempts' = [attempts EXCEPT ![id] =
             [NoAttempt EXCEPT !.graph = "BoundGraph", !.gen = bind.gen, !.rev = bind.rev,
                               !.task = task]]
    BY <1>12 DEF ReserveAttempt
  <2>3. bind.rev \in RevIds
    BY <1>12 DEF ReserveAttempt, InScope
  <2>4. task \in 0..MaxRevs
    BY <2>2, <2>3, <1>n, Corners
  <2>5. NoAttempt \in Row
    BY Corners DEF NoAttempt
  <2>6. [NoAttempt EXCEPT !.graph = "BoundGraph", !.gen = bind.gen, !.rev = bind.rev,
                          !.task = task] \in Row
    BY <2>4, <2>5 DEF Graphs
  <2> HIDE DEF id
  <2>7. next' \in 1..(MaxIds + 1)
    BY <2>1, LedgerAssumption DEF Ids
  <2>8. attempts' \in [Ids -> Row]
    BY <2>2, <2>6
  <2> QED BY <2>1, <2>7, <2>8
<1>13. CASE AppendScopedEvent(c)
  <2>1. bind.rev \in RevIds
    BY <1>13 DEF AppendScopedEvent, InScope
  <2>2. TasksOf(PlanOf(bind.rev)) \subseteq Plans
    BY <2>1, <1>n, Corners
  <2> QED BY <1>13, <2>2 DEF AppendScopedEvent, InScopeAttempts
<1>14. CASE BeginAdopt(c)
  BY <1>14 DEF BeginAdopt
<1>15. CASE EndAdopt(c)
  <2>1. caller' \in [Callers -> States]
    BY <1>15 DEF EndAdopt, States
  <2>2. marked' \in [run : BOOLEAN, attempts : SUBSET Ids]
    <3>1. marked' = marked \/ marked' = [marked EXCEPT !.run = FALSE]
      BY <1>15 DEF EndAdopt
    <3>2. marked \in [run : BOOLEAN, attempts : SUBSET Ids]
      OBVIOUS
    <3>3. [marked EXCEPT !.run = FALSE] \in [run : BOOLEAN, attempts : SUBSET Ids]
      BY <3>2
    <3> QED BY <3>1, <3>2, <3>3
  <2>3. bind' \in [on : BOOLEAN, gen : GenIds \cup {None}, rev : RevIds \cup {None}]
    BY <1>15 DEF EndAdopt
  <2> QED BY <1>15, <2>1, <2>2, <2>3 DEF EndAdopt, States
<1> QED
  BY <1>1, <1>2, <1>3, <1>4, <1>5, <1>6, <1>7, <1>8, <1>10, <1>11, <1>12, <1>13, <1>14, <1>15
  DEF Caller, Adopt

\* The writes of legacy users keep the types.
LEMMA LegacyTyping ==
  ASSUME TypeOK, Admitted, NEW w \in Writers, Legacy(w)
  PROVE  TypeOK'
<1> USE DEF plans, records, procs
<1> DEFINE Row == [graph : Graphs \cup {"none"}, gen : GenIds \cup {None},
                   rev : RevIds \cup {None}, task : 0..MaxRevs, path : BOOLEAN]
<1>0. /\ writer \in [Writers -> Writes] /\ writer[w] \in Writes
      /\ writer[w].op # "none" => writer[w].left > 0 /\ Done(writer[w]) \in Writes
  BY DoneType DEF TypeOK, Writes, Admitted
<1>a. attempts \in [Ids -> Row]
  BY DEF TypeOK
<1>b. NoAttempt \in Row
  BY Corners DEF NoAttempt
<1>w. ASSUME writer' \in [Writers -> Writes],
             UNCHANGED <<marked, run, plans, records, placed, fence, caller, late>>
      PROVE  TypeOK'
  BY <1>w DEF TypeOK, Writes
<1>1. CASE TakeId(w)
  <2>1. PICK graph \in Graphs, id \in Ids :
          writer' = [writer EXCEPT ![w] = [op |-> "attempt", graph |-> graph, id |-> id,
                                           checked |-> FALSE, left |-> @.left]]
    BY <1>1 DEF TakeId
  <2>2. [op |-> "attempt", graph |-> graph, id |-> id, checked |-> FALSE,
         left |-> writer[w].left] \in Writes
    BY <1>0 DEF Writes
  <2>3. writer' \in [Writers -> Writes]
    BY <1>0, <2>1, <2>2
  <2> QED BY <1>1, <1>w, <2>3 DEF TakeId
<1>2. CASE Check(w)
  <2>1. writer' \in [Writers -> Writes]
    <3>1. CASE writer' = [writer EXCEPT ![w] = Done(@)] /\ writer[w].op = "attempt"
      BY <1>0, <3>1
    <3>2. CASE writer' = [writer EXCEPT ![w].checked = TRUE]
      BY <1>0, <3>2 DEF Writes
    <3>3. ASSUME NEW op \in {"row", "event", "events"},
                 writer' = [writer EXCEPT ![w].op = op, ![w].checked = TRUE]
          PROVE  writer' \in [Writers -> Writes]
      <4>1. [writer[w] EXCEPT !.op = op] \in Writes
        BY <1>0 DEF Writes
      <4> DEFINE f == [writer EXCEPT ![w] = [writer[w] EXCEPT !.op = op]]
      <4>2. f \in [Writers -> Writes]
        BY <1>0, <4>1
      <4>3. writer' = [f EXCEPT ![w] = [f[w] EXCEPT !.checked = TRUE]]
        BY <3>3
      <4> HIDE DEF f
      <4>4. [f[w] EXCEPT !.checked = TRUE] \in Writes
        BY <4>2 DEF Writes
      <4> QED BY <4>2, <4>3, <4>4
    <3> QED BY <1>2, <3>1, <3>2, <3>3 DEF Check
  <2> QED BY <1>2, <1>w, <2>1 DEF Check
<1>d. ASSUME writer[w].op # "none", writer' = [writer EXCEPT ![w] = Done(@)]
      PROVE  writer' \in [Writers -> Writes]
  BY <1>0, <1>d
<1>3. CASE WriteRow(w)
  <2>1. writer' \in [Writers -> Writes]
    BY <1>3, <1>d DEF WriteRow
  <2>2. late' \in BOOLEAN
    BY <1>3 DEF WriteRow, TypeOK
  <2> QED BY <1>3, <2>1, <2>2 DEF WriteRow, TypeOK, Writes
<1>4. CASE WriteEvent(w)
  <2>1. writer' \in [Writers -> Writes]
    BY <1>4, <1>d DEF WriteEvent
  <2>2. LegacyEvent \in [gen : GenIds \cup {None}, rev : RevIds \cup {None}, task : Plans,
                         id : Ids \cup {None}]
    BY Corners DEF LegacyEvent
  <2>3. run' \in Rows
    BY <1>4 DEF WriteEvent, TypeOK
  <2>4. events' \subseteq [gen : GenIds \cup {None}, rev : RevIds \cup {None}, task : Plans,
                           id : Ids \cup {None}]
    BY <1>4, <2>2 DEF WriteEvent, TypeOK
  <2> QED BY <1>4, <2>1, <2>3, <2>4 DEF WriteEvent, TypeOK, Writes
<1>5. CASE WriteAttempt(w)
  <2>1. writer' \in [Writers -> Writes]
    BY <1>5, <1>d DEF WriteAttempt
  <2>2. attempts' \in [Ids -> Row]
    <3>1. CASE UNCHANGED attempts
      BY <3>1, <1>a
    <3>2. CASE ~UNCHANGED attempts
      <4> DEFINE id == writer[w].id
                 new == [NoAttempt EXCEPT !.graph = writer[w].graph, !.task = 1, !.path = TRUE]
      <4>1. attempts' = [attempts EXCEPT ![id] = IF @.graph = "none" THEN new
                                                 ELSE [@ EXCEPT !.path = TRUE]]
        BY <1>5, <3>2 DEF WriteAttempt
      <4>2. id \in Ids
        BY <1>5 DEF WriteAttempt, Admitted
      <4>3. new \in Row
        BY <1>0, <1>b, Corners DEF Writes
      <4>4. [attempts[id] EXCEPT !.path = TRUE] \in Row
        BY <1>a, <4>2
      <4> HIDE DEF new
      <4> QED BY <1>a, <4>1, <4>2, <4>3, <4>4
    <3> QED BY <3>1, <3>2
  <2>3. late' \in BOOLEAN
    BY <1>5 DEF WriteAttempt, TypeOK, Scoped
  <2> HIDE DEF Row
  <2>4. TypeOK' <=> attempts' \in [Ids -> Row]
    BY <1>5, <2>1, <2>3 DEF WriteAttempt, TypeOK, Writes, Row
  <2> QED BY <2>2, <2>4
<1>6. CASE DeleteEvents(w)
  <2>1. writer' \in [Writers -> Writes]
    BY <1>0, <1>6 DEF DeleteEvents, Writes
  <2>2. late' \in BOOLEAN /\ events' = {}
    BY <1>6 DEF DeleteEvents, TypeOK
  <2> QED BY <1>6, <2>1, <2>2 DEF DeleteEvents, TypeOK, Writes
<1>7. CASE DeleteAttempts(w)
  <2>1. writer' \in [Writers -> Writes]
    BY <1>7, <1>d DEF DeleteAttempts
  <2>2. attempts' \in [Ids -> Row]
    BY <1>7, <1>a, <1>b DEF DeleteAttempts
  <2> HIDE DEF Row
  <2>4. TypeOK' <=> attempts' \in [Ids -> Row]
    BY <1>7, <2>1 DEF DeleteAttempts, TypeOK, Writes, Row
  <2> QED BY <2>2, <2>4
<1> QED
  BY <1>1, <1>2, <1>3, <1>4, <1>5, <1>6, <1>7 DEF Legacy

-----------------------------------------------------------------------------
(* The walk over a table of revisions.                                     *)

Revisions == [there : BOOLEAN, pred : RevIds \cup {None}, gen : GenIds \cup {None}]

\* The walk from r to initial in table f; Walk is the one in revs.
Leads(f, r, initial, S) == {r} \cup {f[q].pred : q \in S \ {initial}}
WalkIn(f, r, initial) ==
  {q \in RevIds : \A S \in SUBSET RevIds : Leads(f, r, initial, S) \subseteq S \cup {None} => q \in S}

LEMMA WalkIsWalkIn ==
  \A r, initial : Walk(r, initial) = WalkIn(revs, r, initial)
BY DEF Walk, WalkIn, Leads

\* The walk is the smallest set that its members lead on in.
LEMMA WalkLeast ==
  ASSUME NEW f \in [RevIds -> Revisions], NEW r \in RevIds, NEW initial
  PROVE  /\ WalkIn(f, r, initial) \subseteq RevIds
         /\ r \in WalkIn(f, r, initial)
         /\ \A q \in WalkIn(f, r, initial) \ {initial} :
              f[q].pred \in WalkIn(f, r, initial) \cup {None}
         /\ \A S \in SUBSET RevIds :
              r \in S /\ (\A q \in S \ {initial} : f[q].pred \in S \cup {None})
                => WalkIn(f, r, initial) \subseteq S
<1> DEFINE W == WalkIn(f, r, initial)
<1>1. W \subseteq RevIds /\ r \in W
  BY DEF WalkIn, Leads, None, RevIds
<1>2. ASSUME NEW q \in W \ {initial}, f[q].pred # None PROVE f[q].pred \in W
  <2>1. q \in RevIds /\ f[q].pred \in RevIds
    BY <1>1, <1>2 DEF Revisions
  <2>2. ASSUME NEW S \in SUBSET RevIds, Leads(f, r, initial, S) \subseteq S \cup {None}
        PROVE  f[q].pred \in S
    <3>1. q \in S
      BY <2>2 DEF WalkIn
    <3> QED BY <1>2, <2>1, <2>2, <3>1 DEF Leads
  <2> QED BY <2>1, <2>2 DEF WalkIn
<1>3. ASSUME NEW S \in SUBSET RevIds, r \in S,
             \A q \in S \ {initial} : f[q].pred \in S \cup {None}
      PROVE  W \subseteq S
  BY <1>3 DEF WalkIn, Leads
<1> QED
  BY <1>1, <1>2, <1>3

\* Where the walk begins is where it ends.
LEMMA WalkStop ==
  ASSUME NEW f \in [RevIds -> Revisions], NEW r \in RevIds
  PROVE  WalkIn(f, r, r) = {r}
<1>1. WalkIn(f, r, r) \subseteq {r}
  <2> DEFINE S == {r}
  <2>1. S \in SUBSET RevIds /\ r \in S /\ \A q \in S \ {r} : f[q].pred \in S \cup {None}
    OBVIOUS
  <2> HIDE DEF S
  <2>2. WalkIn(f, r, r) \subseteq S
    BY <2>1, WalkLeast
  <2> QED BY <2>2 DEF S
<1> QED
  BY <1>1, WalkLeast

\* A successor's walk is one step longer.
LEMMA WalkStep ==
  ASSUME NEW f \in [RevIds -> Revisions], NEW r \in RevIds, NEW initial, r # initial,
         NEW b \in RevIds, f[r].pred = b
  PROVE  WalkIn(f, r, initial) = {r} \cup WalkIn(f, b, initial)
<1> DEFINE W == WalkIn(f, r, initial)
           V == WalkIn(f, b, initial)
<1>1. /\ W \subseteq RevIds /\ r \in W
      /\ \A q \in W \ {initial} : f[q].pred \in W \cup {None}
      /\ V \subseteq RevIds /\ b \in V
      /\ \A q \in V \ {initial} : f[q].pred \in V \cup {None}
  BY WalkLeast
<1>2. b \in W
  <2>1. b # None
    BY Corners
  <2> QED BY <1>1, <2>1
<1>3. V \subseteq W
  BY <1>1, <1>2, WalkLeast
<1>4. W \subseteq {r} \cup V
  <2> DEFINE S == {r} \cup V
  <2>1. S \in SUBSET RevIds /\ r \in S /\ \A q \in S \ {initial} : f[q].pred \in S \cup {None}
    BY <1>1
  <2> HIDE DEF S
  <2>2. W \subseteq S
    BY <2>1, WalkLeast
  <2> QED BY <2>2 DEF S
<1> QED
  BY <1>1, <1>3, <1>4

\* What is appended elsewhere does not change the walk.
LEMMA WalkSame ==
  ASSUME NEW f \in [RevIds -> Revisions], NEW g \in [RevIds -> Revisions],
         NEW r \in RevIds, NEW initial,
         \A q \in WalkIn(f, r, initial) : g[q].pred = f[q].pred
  PROVE  WalkIn(g, r, initial) = WalkIn(f, r, initial)
<1> DEFINE W == WalkIn(f, r, initial)
           V == WalkIn(g, r, initial)
<1>1. /\ W \in SUBSET RevIds /\ r \in W
      /\ \A q \in W \ {initial} : f[q].pred \in W \cup {None}
      /\ V \in SUBSET RevIds /\ r \in V
      /\ \A q \in V \ {initial} : g[q].pred \in V \cup {None}
  BY WalkLeast
<1>2. V \subseteq W
  <2>1. \A q \in W \ {initial} : g[q].pred \in W \cup {None}
    BY <1>1
  <2> QED BY <1>1, <2>1, WalkLeast
<1>3. W \subseteq V
  <2>1. \A q \in V \ {initial} : f[q].pred \in V \cup {None}
    BY <1>1, <1>2
  <2> QED BY <1>1, <2>1, WalkLeast
<1> QED
  BY <1>2, <1>3

-----------------------------------------------------------------------------
(* The parts of the invariant, step by step.                               *)

\* What the steps do to the revisions: nothing, or one is added after an existing one.
Added(r, pred, gen) ==
  /\ ~revs[r].there /\ (pred # None => HasRev(pred))
  /\ revs' = [revs EXCEPT ![r] = [there |-> TRUE, pred |-> pred, gen |-> gen]]

LEMMA RevsChange ==
  ASSUME TypeOK, [Next]_vars
  PROVE  \/ UNCHANGED revs
         \/ \E r \in RevIds, pred \in RevIds \cup {None}, gen \in GenIds \cup {None} :
              Added(r, pred, gen)
<1> USE DEF plans, records, procs, Around
<1>1. CASE UNCHANGED vars
  BY <1>1 DEF vars
<1> DEFINE Adds == \E r \in RevIds, pred \in RevIds \cup {None}, gen \in GenIds \cup {None} :
                     Added(r, pred, gen)
<1>2. ASSUME NEW c \in Callers, AppendRevision(c) PROVE Adds
  <2>1. PICK r \in RevIds, pred \in RevIds \cup {None}, g \in {None, bind.gen} :
          /\ ~HasRev(r)
          /\ pred # None => HasRev(pred)
          /\ revs' = [revs EXCEPT ![r] = [there |-> TRUE, pred |-> pred, gen |-> g]]
    BY <1>2 DEF AppendRevision
  <2>2. g \in GenIds \cup {None} /\ ~revs[r].there
    BY <2>1 DEF TypeOK, HasRev
  <2> QED BY <2>1, <2>2 DEF Added
<1>3. ASSUME NEW c \in Callers, EndActivate(c) PROVE revs' = revs \/ Adds
  <2>1. PICK r \in RevIds, g \in GenIds : Activates(c, r, g)
    BY <1>3 DEF EndActivate
  <2>2. CASE revs[r].there
    <3>1. revs' = [revs EXCEPT ![r] = revs[r]]
      BY <2>1, <2>2 DEF Activates
    <3> QED BY <3>1 DEF TypeOK
  <2>3. CASE ~revs[r].there
    BY <2>1, <2>3 DEF Activates, Added
  <2> QED BY <2>2, <2>3
<1>4. ASSUME NEW c \in Callers, Caller(c) \/ Adopt(c), ~AppendRevision(c), ~EndActivate(c)
      PROVE  UNCHANGED revs
  BY <1>4 DEF Caller, Adopt, AcquireFence, ReleaseFence, CreateRunBinding, AuthorizeRevision,
     InsertGeneration, BeginActivate, SelectRevision, ProjectRevision, ReserveAttempt,
     AppendScopedEvent, BeginAdopt, EndAdopt
<1>5. ASSUME NEW w \in Writers, Legacy(w) PROVE UNCHANGED revs
  BY <1>5 DEF Legacy, TakeId, Check, WriteRow, WriteEvent, WriteAttempt, DeleteEvents,
     DeleteAttempts
<1>6. CASE MoveAway
  BY <1>6 DEF MoveAway
<1> QED
  BY <1>1, <1>2, <1>3, <1>4, <1>5, <1>6 DEF Next

\* Revisions stay rooted: the added one comes after those there are.
LEMMA RootedStep ==
  ASSUME TypeOK, Rooted, [Next]_vars
  PROVE  Rooted'
<1>1. CASE UNCHANGED revs
  BY <1>1 DEF Rooted
<1>2. ASSUME NEW r \in RevIds, NEW pred \in RevIds \cup {None}, NEW gen \in GenIds \cup {None},
             Added(r, pred, gen)
      PROVE  Rooted'
  <2>1. /\ revs'[r].there /\ revs'[r].pred = pred
        /\ \A q \in RevIds : q # r => revs'[q] = revs[q]
        /\ ~revs[r].there /\ pred # r
        /\ pred # None => revs[pred].there
    BY <1>2, Corners DEF Added, HasRev, TypeOK
  <2>2. ASSUME NEW q \in RevIds, revs'[q].there, revs'[q].pred # None
        PROVE  revs'[revs'[q].pred].there
    <3>1. CASE q = r
      BY <2>1, <2>2, <3>1
    <3>2. CASE q # r
      <4>1. revs[q].pred \in RevIds /\ revs[revs[q].pred].there
        BY <2>1, <2>2, <3>2 DEF Rooted, TypeOK
      <4> QED BY <2>1, <3>2, <4>1
    <3> QED BY <3>1, <3>2
  <2>3. ASSUME NEW S \in SUBSET {q \in RevIds : revs'[q].there}, S # {}
        PROVE  \E q \in S : revs'[q].pred \notin S
    <3>1. CASE S \ {r} = {}
      BY <2>1, <2>3, <3>1
    <3>2. CASE S \ {r} # {}
      <4>1. S \ {r} \in SUBSET {q \in RevIds : revs[q].there}
        BY <2>1
      <4>2. PICK q \in S \ {r} : revs[q].pred \notin S \ {r}
        BY <3>2, <4>1 DEF Rooted
      <4>3. q \in RevIds /\ q # r /\ revs[q].there
        BY <4>1, <4>2
      <4>4. revs[q].pred # r
        <5>1. revs[q].pred # None => revs[revs[q].pred].there
          BY <4>3 DEF Rooted
        <5>2. r # None
          BY Corners
        <5> QED BY <2>1, <5>1, <5>2
      <4>5. revs'[q].pred \notin S
        BY <2>1, <4>2, <4>3, <4>4
      <4> QED BY <4>2, <4>5
    <3> QED BY <3>1, <3>2
  <2> QED BY <2>2, <2>3 DEF Rooted
<1> QED
  BY <1>1, <1>2, RevsChange

\* The fence's holder alone is in a transaction.
LEMMA TransactsStep ==
  ASSUME TypeOK, Transacts, [Next]_vars
  PROVE  Transacts'
<1> USE DEF plans, records, procs, Around
<1>0. \A d \in Callers : caller[d].pc # "idle" => fence = d
  BY DEF Transacts
<1>1. ASSUME NEW c \in Callers, fence = c, caller'[c].pc = "idle",
             \A d \in Callers : d # c => caller'[d] = caller[d]
      PROVE  Transacts'
  BY <1>0, <1>1 DEF Transacts
<1>2. ASSUME NEW c \in Callers, AcquireFence(c) PROVE Transacts'
  <2>1. fence = NoOne /\ caller' = caller
    BY <1>2 DEF AcquireFence, FenceFree
  <2> QED BY <1>0, <2>1, LedgerAssumption DEF Transacts
<1>3. ASSUME NEW c \in Callers, ReleaseFence(c) PROVE Transacts'
  BY <1>1, <1>3, CallerFacts DEF ReleaseFence, TypeOK, States
<1>4. ASSUME NEW c \in Callers, Idle(c), UNCHANGED <<fence, caller>> PROVE Transacts'
  BY <1>1, <1>4 DEF Idle, Holds
<1>5. ASSUME NEW c \in Callers, BeginActivate(c) PROVE Transacts'
  <2>1. /\ fence = c /\ fence' = fence /\ bind.on /\ bind' = bind
        /\ caller' = [caller EXCEPT ![c].pc = "activate", ![c].b = bind.rev]
        /\ bind.rev \in RevIds \cup {None}
    BY <1>5 DEF BeginActivate, Idle, Holds, TypeOK
  <2>2. /\ caller'[c].pc = "activate" /\ caller'[c].b = bind.rev
        /\ \A d \in Callers : d # c => caller'[d] = caller[d]
    BY <2>1, CallerFacts DEF TypeOK, States
  <2> QED BY <1>0, <2>1, <2>2 DEF Transacts
<1>6. ASSUME NEW c \in Callers, EndActivate(c) PROVE Transacts'
  BY <1>1, <1>6, CallerFacts DEF EndActivate, Holds, TypeOK, States
<1>7. ASSUME NEW c \in Callers, BeginAdopt(c) PROVE Transacts'
  <2>1. /\ fence = c /\ fence' = fence /\ bind' = bind
        /\ caller'[c].pc = "adopt"
        /\ \A d \in Callers : d # c => caller'[d] = caller[d]
    BY <1>7 DEF BeginAdopt, Idle, Holds, TypeOK
  <2> QED BY <1>0, <2>1 DEF Transacts
<1>8. ASSUME NEW c \in Callers, EndAdopt(c) PROVE Transacts'
  BY <1>1, <1>8 DEF EndAdopt, Holds, TypeOK
<1>9. CASE UNCHANGED <<fence, caller, bind>>
  BY <1>9 DEF Transacts
<1>10. ASSUME NEW c \in Callers, Caller(c) \/ Adopt(c) PROVE Transacts'
  BY <1>10, <1>2, <1>3, <1>4, <1>5, <1>6, <1>7, <1>8 DEF Caller, Adopt, CreateRunBinding,
     AppendRevision, AuthorizeRevision, InsertGeneration, SelectRevision, ProjectRevision,
     ReserveAttempt, AppendScopedEvent
<1>11. ASSUME NEW w \in Writers, Legacy(w) PROVE UNCHANGED <<fence, caller, bind>>
  BY <1>11 DEF Legacy, TakeId, Check, WriteRow, WriteEvent, WriteAttempt, DeleteEvents,
     DeleteAttempts
<1>12. CASE MoveAway
  BY <1>9, <1>12 DEF MoveAway
<1>13. CASE UNCHANGED vars
  BY <1>9, <1>13 DEF vars
<1> QED
  BY <1>9, <1>10, <1>11, <1>12, <1>13 DEF Next

\* A legacy write is counted once it is done.
LEMMA AdmittedStep ==
  ASSUME TypeOK, Admitted, [Next]_vars
  PROVE  Admitted'
<1> USE DEF plans, records, procs, Around
<1>1. CASE UNCHANGED writer
  BY <1>1 DEF Admitted
<1>2. ASSUME NEW w \in Writers, NEW v, writer' = [writer EXCEPT ![w] = v],
             v.op # "none" => v.left > 0, v.op = "attempt" => v.id \in Ids
      PROVE  Admitted'
  BY <1>2 DEF Admitted, TypeOK
<1>3. ASSUME NEW w \in Writers PROVE Done(writer[w]).op = "none"
  BY DEF Done, NoWrite
<1>4. ASSUME NEW w \in Writers, writer' = [writer EXCEPT ![w] = Done(@)] PROVE Admitted'
  BY <1>2, <1>3, <1>4
<1>5. ASSUME NEW w \in Writers, TakeId(w) PROVE Admitted'
  BY <1>2, <1>5 DEF TakeId
<1>6. ASSUME NEW w \in Writers, Check(w) PROVE Admitted'
  <2>1. CASE writer' = [writer EXCEPT ![w] = Done(@)]
    BY <1>4, <2>1
  <2>2. CASE writer' = [writer EXCEPT ![w].checked = TRUE]
    BY <2>2 DEF Admitted, TypeOK
  <2>3. ASSUME NEW op \in {"row", "event", "events"}, writer[w].left > 0,
               writer' = [writer EXCEPT ![w].op = op, ![w].checked = TRUE]
        PROVE  Admitted'
    <3> DEFINE v == [[writer[w] EXCEPT !.op = op] EXCEPT !.checked = TRUE]
    <3>1. writer' = [writer EXCEPT ![w] = v]
      BY <2>3 DEF TypeOK
    <3>2. v.op = op /\ v.left = writer[w].left
      BY DEF TypeOK
    <3> HIDE DEF v
    <3> QED BY <1>2, <2>3, <3>1, <3>2
  <2> QED BY <1>6, <2>1, <2>2, <2>3 DEF Check
<1>7. ASSUME NEW w \in Writers, DeleteEvents(w) PROVE Admitted'
  BY <1>7 DEF DeleteEvents, Admitted, TypeOK
<1>8. ASSUME NEW w \in Writers, Legacy(w) PROVE Admitted'
  BY <1>4, <1>5, <1>6, <1>7, <1>8 DEF Legacy, WriteRow, WriteEvent, WriteAttempt, DeleteAttempts
<1>9. ASSUME NEW c \in Callers, Caller(c) \/ Adopt(c) PROVE UNCHANGED writer
  BY <1>9 DEF Caller, Adopt, AcquireFence, ReleaseFence, CreateRunBinding, AppendRevision,
     AuthorizeRevision, InsertGeneration, BeginActivate, EndActivate, SelectRevision,
     ProjectRevision, ReserveAttempt, AppendScopedEvent, BeginAdopt, EndAdopt
<1> QED
  BY <1>1, <1>8, <1>9 DEF Next, MoveAway, vars

\* What becomes of one attempt's row: as it was, its path set by a late write, reserved in
\* the current scope, or, while it is unscoped, written or deleted by a legacy user.
LEMMA AttemptsChange ==
  ASSUME TypeOK, Refers, Admitted, [Next]_vars, NEW i \in Ids
  PROVE  \/ attempts'[i] = attempts[i]
         \/ Scoped(i) /\ late' /\ attempts'[i] = [attempts[i] EXCEPT !.path = TRUE]
         \/ /\ ~Scoped(i) /\ ~Scoped(i)' /\ (bind.on /\ attempts'[i].graph = "BoundGraph"
                                               => attempts[i].graph = "BoundGraph")
         \/ /\ ~Scoped(i) /\ bind.gen # None /\ bind.on /\ Authorized(bind.rev)
            /\ attempts'[i].graph = "BoundGraph" /\ attempts'[i].gen = bind.gen
            /\ attempts'[i].rev = bind.rev /\ attempts'[i].path = FALSE
<1> USE DEF plans, records, procs, Around
<1>0. Scoped(i) => attempts[i].graph = "BoundGraph"
  BY DEF Refers
<1>1. CASE UNCHANGED attempts
  BY <1>1
<1>2. ASSUME NEW c \in Callers, ReserveAttempt(c), attempts'[i] # attempts[i]
      PROVE  /\ ~Scoped(i) /\ bind.gen # None /\ bind.on /\ Authorized(bind.rev)
             /\ attempts'[i].graph = "BoundGraph" /\ attempts'[i].gen = bind.gen
             /\ attempts'[i].rev = bind.rev /\ attempts'[i].path = FALSE
  <2> DEFINE id == Max({next, Max(Stored \cup {0}) + 1})
             new(t) == [NoAttempt EXCEPT !.graph = "BoundGraph", !.gen = bind.gen,
                                         !.rev = bind.rev, !.task = t]
  <2>1. id \in Ids /\ InScope(bind.gen, bind.rev)
        /\ \E t \in TasksOf(PlanOf(bind.rev)) : attempts' = [attempts EXCEPT ![id] = new(t)]
    BY <1>2 DEF ReserveAttempt
  <2>2. id \notin Stored
    BY FreshId
  <2>3. ASSUME NEW t PROVE /\ new(t).graph = "BoundGraph" /\ new(t).gen = bind.gen
                           /\ new(t).rev = bind.rev /\ new(t).path = FALSE
    BY DEF NoAttempt
  <2> HIDE DEF id, new
  <2>4. i = id
    BY <1>2, <2>1 DEF TypeOK
  <2>5. attempts[i].graph = "none"
    BY <2>2, <2>4 DEF Stored
  <2>6. ~Scoped(i)
    BY <1>0, <2>5
  <2>7. PICK t : attempts' = [attempts EXCEPT ![id] = new(t)]
    BY <2>1
  <2>8. attempts'[i] = new(t)
    BY <2>4, <2>7 DEF TypeOK
  <2>9. bind.gen # None /\ bind.on /\ Authorized(bind.rev)
    BY <2>1 DEF InScope
  <2> QED BY <2>3, <2>6, <2>8, <2>9
<1>3. ASSUME NEW w \in Writers, WriteAttempt(w), attempts'[i] # attempts[i]
      PROVE  \/ Scoped(i) /\ late' /\ attempts'[i] = [attempts[i] EXCEPT !.path = TRUE]
             \/ /\ ~Scoped(i) /\ ~Scoped(i)' /\ (bind.on /\ attempts'[i].graph = "BoundGraph"
                                                   => attempts[i].graph = "BoundGraph")
  <2> DEFINE id == writer[w].id
             new == [NoAttempt EXCEPT !.graph = writer[w].graph, !.task = 1, !.path = TRUE]
  <2>1. /\ ~Trigger(writer[w].graph) /\ id \in Ids
        /\ attempts' = [attempts EXCEPT ![id] = IF @.graph = "none" THEN new
                                                ELSE [@ EXCEPT !.path = TRUE]]
        /\ late' = (late \/ Scoped(id))
    BY <1>3 DEF WriteAttempt, Admitted
  <2>2. new.graph = writer[w].graph /\ new.gen = None
    BY DEF NoAttempt
  <2> HIDE DEF new
  <2>3. i = id
    BY <1>3, <2>1 DEF TypeOK
  <2>4. CASE attempts[i].graph = "none"
    <3>1. attempts'[i] = new /\ ~Scoped(i)
      BY <1>0, <2>1, <2>3, <2>4 DEF TypeOK
    <3> QED BY <2>1, <2>2, <3>1 DEF Scoped, Trigger
  <2>5. CASE attempts[i].graph # "none"
    <3>1. attempts'[i] = [attempts[i] EXCEPT !.path = TRUE]
      BY <2>1, <2>3, <2>5 DEF TypeOK
    <3>2. attempts'[i].graph = attempts[i].graph /\ attempts'[i].gen = attempts[i].gen
      BY <3>1 DEF TypeOK
    <3> QED BY <2>1, <2>3, <3>1, <3>2 DEF Scoped
  <2> QED BY <2>4, <2>5
<1>4. ASSUME NEW w \in Writers, DeleteAttempts(w), attempts'[i] # attempts[i]
      PROVE  ~Scoped(i) /\ ~Scoped(i)' /\ attempts'[i].graph # "BoundGraph"
  <2>1. ~Referenced /\ attempts' = [j \in Ids |-> IF j \in OfGraph THEN NoAttempt ELSE attempts[j]]
    BY <1>4 DEF DeleteAttempts
  <2>2. i \in OfGraph /\ attempts'[i] = NoAttempt
    BY <1>4, <2>1 DEF TypeOK
  <2> QED BY <2>1, <2>2 DEF Referenced, Scoped, NoAttempt
<1>5. ASSUME NEW c \in Callers, Caller(c) \/ Adopt(c), ~ReserveAttempt(c)
      PROVE  UNCHANGED attempts
  BY <1>5 DEF Caller, Adopt, AcquireFence, ReleaseFence, CreateRunBinding, AppendRevision,
     AuthorizeRevision, InsertGeneration, BeginActivate, EndActivate, SelectRevision,
     ProjectRevision, AppendScopedEvent, BeginAdopt, EndAdopt
<1>6. ASSUME NEW w \in Writers, Legacy(w), ~WriteAttempt(w), ~DeleteAttempts(w)
      PROVE  UNCHANGED attempts
  BY <1>6 DEF Legacy, TakeId, Check, WriteRow, WriteEvent, DeleteEvents
<1>7. CASE MoveAway \/ UNCHANGED vars
  BY <1>7 DEF MoveAway, vars
<1> QED
  BY <1>1, <1>2, <1>3, <1>4, <1>5, <1>6, <1>7 DEF Next

\* What an event in the log is: one from before, an unscoped one of a graph that is not
\* bound, or one of the current scope about an attempt of that scope.
LEMMA EventsChange ==
  ASSUME TypeOK, [Next]_vars, NEW e \in events'
  PROVE  \/ e \in events
         \/ e.gen = None /\ ~bind.on
         \/ /\ e.gen = bind.gen /\ e.rev = bind.rev /\ bind.gen # None
            /\ Authorized(bind.rev) /\ UNCHANGED <<attempts, plans>>
            /\ e.id # None => e.id \in InScopeAttempts /\ attempts[e.id].task = e.task
<1> USE DEF plans, records, procs, Around
<1>1. CASE UNCHANGED events
  BY <1>1
<1>2. ASSUME NEW c \in Callers, AppendScopedEvent(c), e \notin events
      PROVE  /\ e.gen = bind.gen /\ e.rev = bind.rev /\ bind.gen # None
             /\ Authorized(bind.rev) /\ UNCHANGED <<attempts, plans>>
             /\ e.id # None => e.id \in InScopeAttempts /\ attempts[e.id].task = e.task
  <2>1. PICK task \in TasksOf(PlanOf(bind.rev)), j \in InScopeAttempts \cup {None} :
          /\ j # None => attempts[j].task = task
          /\ events' = events \cup {[gen |-> bind.gen, rev |-> bind.rev, task |-> task, id |-> j]}
    BY <1>2 DEF AppendScopedEvent
  <2>2. e = [gen |-> bind.gen, rev |-> bind.rev, task |-> task, id |-> j]
    BY <1>2, <2>1
  <2> QED BY <1>2, <2>1, <2>2 DEF AppendScopedEvent, InScope
<1>3. ASSUME NEW w \in Writers, WriteEvent(w), e \notin events PROVE e.gen = None /\ ~bind.on
  BY <1>3 DEF WriteEvent, LegacyEvent, Trigger
<1>4. ASSUME NEW c \in Callers, Caller(c) \/ Adopt(c), ~AppendScopedEvent(c)
      PROVE  UNCHANGED events
  BY <1>4 DEF Caller, Adopt, AcquireFence, ReleaseFence, CreateRunBinding, AppendRevision,
     AuthorizeRevision, InsertGeneration, BeginActivate, EndActivate, SelectRevision,
     ProjectRevision, ReserveAttempt, BeginAdopt, EndAdopt
<1>5. ASSUME NEW w \in Writers, Legacy(w), ~WriteEvent(w) PROVE e \in events
  BY <1>5 DEF Legacy, TakeId, Check, WriteRow, WriteAttempt, DeleteEvents, DeleteAttempts
<1>6. CASE MoveAway \/ UNCHANGED vars
  BY <1>6 DEF MoveAway, vars
<1> QED
  BY <1>1, <1>2, <1>3, <1>4, <1>5, <1>6 DEF Next

\* The step leaves the active generation and its revision where they are.
Settled ==
  /\ bind'.gen = bind.gen /\ bind'.rev = bind.rev /\ (bind.on => bind'.on)
  /\ \A g \in GenIds : HasGen(g) => gens'[g] = gens[g]
  /\ \A r \in RevIds : auth[r] # "none" => auth'[r] # "none"

\* Which steps do not.
LEMMA SettledSteps ==
  ASSUME TypeOK, Refers, [Next]_vars
  PROVE  \/ Settled
         \/ \E c \in Callers : EndActivate(c)
         \/ \E r \in RevIds : /\ Follow(r) /\ bind.on
                              /\ UNCHANGED <<marked, revs, auth, gens, attempts, events, late>>
<1> USE DEF plans, records, procs, Around
<1>1. ASSUME UNCHANGED <<bind, auth, gens>> PROVE Settled
  BY <1>1 DEF Settled
<1>2. ASSUME NEW c \in Callers, AuthorizeRevision(c) PROVE Settled
  BY <1>2 DEF AuthorizeRevision, Settled, TypeOK
<1>3. ASSUME NEW c \in Callers, InsertGeneration(c) PROVE Settled
  BY <1>3 DEF InsertGeneration, Settled, TypeOK, HasGen
<1>4. ASSUME NEW c \in Callers, CreateRunBinding(c) \/ AppendRevision(c) PROVE Settled
  BY <1>4 DEF CreateRunBinding, AppendRevision, Settled, TypeOK
<1>5. ASSUME NEW c \in Callers, EndAdopt(c) PROVE Settled
  <2>1. bind' = bind \/ bind' = [bind EXCEPT !.on = TRUE]
    BY <1>5 DEF EndAdopt
  <2> QED BY <1>5, <2>1 DEF EndAdopt, Settled, TypeOK
<1>6. ASSUME NEW c \in Callers, SelectRevision(c) \/ ProjectRevision(c)
      PROVE  \E r \in RevIds : /\ Follow(r) /\ bind.on
                               /\ UNCHANGED <<marked, revs, auth, gens, attempts, events, late>>
  BY <1>6 DEF SelectRevision, ProjectRevision
<1>7. ASSUME NEW c \in Callers, Caller(c) \/ Adopt(c), ~EndActivate(c)
      PROVE  \/ Settled
             \/ \E r \in RevIds : /\ Follow(r) /\ bind.on
                                  /\ UNCHANGED <<marked, revs, auth, gens, attempts, events, late>>
  <2>1. CASE \/ AcquireFence(c) \/ ReleaseFence(c) \/ BeginActivate(c)
             \/ ReserveAttempt(c) \/ AppendScopedEvent(c) \/ BeginAdopt(c)
    <3>1. UNCHANGED <<bind, auth, gens>>
      BY <2>1 DEF AcquireFence, ReleaseFence, BeginActivate, ReserveAttempt,
         AppendScopedEvent, BeginAdopt
    <3> QED BY <1>1, <3>1
  <2>2. CASE SelectRevision(c) \/ ProjectRevision(c)
    BY <1>6, <2>2
  <2> QED BY <1>2, <1>3, <1>4, <1>5, <1>7, <2>1, <2>2 DEF Caller, Adopt
<1>8. ASSUME NEW w \in Writers, Legacy(w) PROVE UNCHANGED <<bind, auth, gens>>
  BY <1>8 DEF Legacy, TakeId, Check, WriteRow, WriteEvent, WriteAttempt, DeleteEvents,
     DeleteAttempts
<1>9. CASE MoveAway \/ UNCHANGED vars
  BY <1>1, <1>9 DEF MoveAway, vars
<1> QED
  BY <1>1, <1>7, <1>8, <1>9 DEF Next

\* What an activation leaves: a new generation that begins with the revision it is bound to.
LEMMA Activation ==
  ASSUME TypeOK, Transacts, Refers, NEW c \in Callers, EndActivate(c)
  PROVE  \E r \in RevIds, g \in GenIds :
           /\ ~HasGen(g) /\ (bind.rev = None \/ bind.rev = r)
           /\ bind.on /\ bind'.on /\ bind'.gen = g /\ bind'.rev = r
           /\ gens'[g] = [plan |-> r, rev |-> r]
           /\ \A h \in GenIds : HasGen(h) => gens'[h] = gens[h]
           /\ revs'[r].there /\ auth'[r] = "Accepted"
           /\ \A q \in RevIds : auth[q] # "none" => auth'[q] # "none"
           /\ run.plan = PlanOf(r)
           /\ UNCHANGED <<run, marked, attempts, events, late>>
<1> USE DEF plans, records
<1>1. PICK r \in RevIds, g \in GenIds : Activates(c, r, g)
  BY DEF EndActivate
<1>2. bind.on /\ caller[c].b = bind.rev
  BY DEF EndActivate, Transacts
<1>3. run = [state |-> "PlanAccepted", plan |-> r]
  BY <1>1 DEF Activates, PlanOf
<1>4. bind'.on /\ bind'.gen = g /\ bind'.rev = r
  BY <1>1, <1>2 DEF Activates, TypeOK
<1>5. /\ gens'[g] = [plan |-> r, rev |-> r] /\ ~HasGen(g)
      /\ \A h \in GenIds : HasGen(h) => gens'[h] = gens[h]
  BY <1>1, <1>3 DEF Activates, TypeOK
<1>6. revs'[r].there
  BY <1>1 DEF Activates, TypeOK
<1>7. auth'[r] = "Accepted" /\ \A q \in RevIds : auth[q] # "none" => auth'[q] # "none"
  BY <1>1 DEF Activates, TypeOK
<1>8. bind.rev = None \/ bind.rev = r
  BY <1>1, <1>2 DEF Activates
<1> QED
  BY <1>2, <1>3, <1>4, <1>5, <1>6, <1>7, <1>8 DEF EndActivate, PlanOf

\* A mark goes only by the adoption's own proof, and a graph that becomes bound has none.
LEMMA MarksChange ==
  ASSUME TypeOK, Transacts, Refers, [Next]_vars
  PROVE  /\ marked.run /\ ~marked'.run => Proven
         /\ bind'.on => ~marked'.run
<1> USE DEF plans, records, procs, Around
<1>0. bind.on => ~marked.run
  BY DEF Refers
<1>1. CASE marked' = marked /\ bind'.on = bind.on
  BY <1>0, <1>1
<1>2. ASSUME NEW c \in Callers, CreateRunBinding(c) PROVE ~marked.run /\ marked' = marked
  BY <1>2 DEF CreateRunBinding, Bindable, Unresolved
<1>3. ASSUME NEW c \in Callers, EndAdopt(c), ~UNCHANGED <<marked, bind>>
      PROVE  Proven /\ ~marked'.run
  BY <1>3 DEF EndAdopt, StillProven, TypeOK
<1>4. ASSUME NEW c \in Callers, EndActivate(c) PROVE marked' = marked /\ bind'.on = bind.on
  <2>1. bind.on /\ bind'.on
    BY <1>4, Activation
  <2> QED BY <1>4, <2>1 DEF EndActivate
<1>5. ASSUME NEW c \in Callers, SelectRevision(c) \/ ProjectRevision(c)
      PROVE  marked' = marked /\ bind'.on = bind.on
  BY <1>5 DEF SelectRevision, ProjectRevision, Follow, TypeOK
<1>6. ASSUME NEW c \in Callers, Caller(c) \/ Adopt(c), ~CreateRunBinding(c), ~EndAdopt(c),
             ~EndActivate(c), ~SelectRevision(c), ~ProjectRevision(c)
      PROVE  UNCHANGED <<marked, bind>>
  BY <1>6 DEF Caller, Adopt, AcquireFence, ReleaseFence, AppendRevision, AuthorizeRevision,
     InsertGeneration, BeginActivate, ReserveAttempt, AppendScopedEvent, BeginAdopt
<1>7. ASSUME NEW w \in Writers, Legacy(w) PROVE UNCHANGED <<marked, bind>>
  BY <1>7 DEF Legacy, TakeId, Check, WriteRow, WriteEvent, WriteAttempt, DeleteEvents,
     DeleteAttempts
<1>8. CASE MoveAway \/ UNCHANGED vars
  BY <1>1, <1>8 DEF MoveAway, vars
<1> QED
  BY <1>1, <1>2, <1>3, <1>4, <1>5, <1>6, <1>7, <1>8 DEF Next

\* The tables go on referring to each other.
LEMMA RefersStep ==
  ASSUME TypeOK, TypeOK', Transacts, Refers, Admitted, [Next]_vars
  PROVE  Refers'
<1>1. bind'.on => ~marked'.run
  BY MarksChange
<1>g. \A g \in GenIds : HasGen(g) => HasGen(g)'
  <2>1. CASE Settled
    BY <2>1 DEF Settled, HasGen
  <2>2. ASSUME NEW c \in Callers, EndActivate(c) PROVE \A g \in GenIds : HasGen(g) => HasGen(g)'
    BY <2>2, Activation DEF HasGen
  <2>3. CASE UNCHANGED gens
    BY <2>3 DEF HasGen
  <2> QED BY <2>1, <2>2, <2>3, SettledSteps
<1>r. \A r \in RevIds : revs[r].there => revs'[r].there
  BY RevsChange DEF Added, TypeOK
<1>2. /\ ~bind'.on => bind'.gen = None /\ bind'.rev = None
      /\ bind'.gen # None => HasGen(bind.gen)'
      /\ bind'.rev # None => revs'[bind'.rev].there
  <2>1. CASE Settled
    BY <2>1, <1>g, <1>r DEF Settled, Refers, HasGen, TypeOK
  <2>2. ASSUME NEW c \in Callers, EndActivate(c)
        PROVE /\ ~bind'.on => bind'.gen = None /\ bind'.rev = None
              /\ bind'.gen # None => HasGen(bind.gen)'
              /\ bind'.rev # None => revs'[bind'.rev].there
    <3>1. PICK r \in RevIds, g \in GenIds :
            /\ bind'.on /\ bind'.gen = g /\ bind'.rev = r
            /\ gens'[g] = [plan |-> r, rev |-> r] /\ revs'[r].there
      BY <2>2, Activation
    <3>2. gens'[g].plan # None
      BY <3>1, Corners
    <3> QED BY <3>1, <3>2 DEF HasGen
  <2>3. ASSUME NEW r \in RevIds, Follow(r), bind.on, UNCHANGED <<marked, revs, gens>>
        PROVE /\ ~bind'.on => bind'.gen = None /\ bind'.rev = None
              /\ bind'.gen # None => HasGen(bind.gen)'
              /\ bind'.rev # None => revs'[bind'.rev].there
    <3>1. bind'.rev = r /\ bind'.gen = bind.gen /\ bind'.on = bind.on /\ revs[r].there
      BY <2>3 DEF Follow, TypeOK, HasRev
    <3>2. bind.gen # None => HasGen(bind.gen)
      BY DEF Refers
    <3> QED BY <2>3, <3>1, <3>2 DEF HasGen
  <2> QED BY <2>1, <2>2, <2>3, SettledSteps
<1>3. ASSUME NEW i \in Ids, Scoped(i)'
      PROVE  attempts'[i].graph = "BoundGraph" /\ HasGen(attempts[i].gen)'
  <2>1. CASE Scoped(i)
    <3>0. attempts'[i] = attempts[i] \/ attempts'[i] = [attempts[i] EXCEPT !.path = TRUE]
      BY <2>1, AttemptsChange
    <3>1. attempts'[i].graph = attempts[i].graph /\ attempts'[i].gen = attempts[i].gen
      BY <3>0 DEF TypeOK
    <3>2. attempts[i].graph = "BoundGraph" /\ HasGen(attempts[i].gen)
      BY <2>1 DEF Refers
    <3> QED BY <3>1, <3>2, <1>g DEF HasGen
  <2>2. CASE ~Scoped(i)
    <3>1. bind.gen # None /\ attempts'[i].graph = "BoundGraph" /\ attempts'[i].gen = bind.gen
      BY <1>3, <2>2, AttemptsChange DEF Scoped
    <3> QED BY <3>1, <1>g DEF Refers, HasGen
  <2> QED BY <2>1, <2>2
<1>4. ASSUME NEW e \in events', e.gen # None PROVE HasGen(e.gen)'
  <2>1. \/ e \in events
        \/ e.gen = bind.gen /\ bind.gen # None
    BY <1>4, EventsChange
  <2>2. HasGen(e.gen)
    BY <1>4, <2>1 DEF Refers
  <2> QED BY <1>g, <2>2 DEF HasGen
<1> QED
  BY <1>1, <1>2, <1>3, <1>4 DEF Refers

\* A generation that stays active keeps its chain and what was executed in it.
LEMMA ExecutedSettled ==
  ASSUME TypeOK, TypeOK', Rooted, Transacts, Refers, Admitted, Executed, [Next]_vars, Settled
  PROVE  Executed'
<1> SUFFICES ASSUME bind'.gen # None
             PROVE  Executed'
  BY DEF Executed
<1>0. /\ bind'.gen = bind.gen /\ bind'.rev = bind.rev /\ bind.gen # None
      /\ HasGen(bind.gen) /\ bind.gen \in GenIds
      /\ \A r \in RevIds : auth[r] # "none" => auth'[r] # "none"
  BY DEF Settled, Refers, HasGen
<1>1. gens'[bind.gen] = gens[bind.gen] /\ Initial' = Initial
  BY <1>0 DEF Settled, Initial
<1>2. /\ Initial # None /\ auth[Initial] # "none" /\ gens[bind.gen].plan = Initial
      /\ Initial \in Chain /\ bind.rev \in Chain
      /\ \A r \in Chain : revs[r].there
      /\ \A r \in Chain \ {Initial} : revs[r].gen \in {None, bind.gen} /\ revs[r].pred \in Chain
  BY <1>0 DEF Executed
<1>3. Chain = WalkIn(revs, bind.rev, Initial) /\ Chain' = WalkIn(revs', bind.rev, Initial)
  BY <1>0, <1>1, WalkIsWalkIn DEF Chain, Walk, WalkIn, Leads
<1>4. Chain \subseteq RevIds /\ bind.rev \in RevIds /\ Initial \in RevIds
  BY <1>2, <1>3 DEF WalkIn
<1>5. \A r \in RevIds : revs[r].there => revs'[r] = revs[r]
  BY RevsChange DEF Added, TypeOK
<1>6. revs \in [RevIds -> Revisions] /\ revs' \in [RevIds -> Revisions]
  BY DEF TypeOK, Revisions
<1>7. Chain' = Chain
  <2>1. \A r \in Chain : revs'[r].pred = revs[r].pred
    BY <1>2, <1>4, <1>5
  <2> QED BY <1>3, <1>4, <1>6, <2>1, WalkSame
<1>8. \A r \in Chain : revs'[r] = revs[r]
  BY <1>2, <1>4, <1>5
<1>9. late => late'
  BY DEF Next, vars, plans, records, procs, Around, Caller, Adopt, AcquireFence, ReleaseFence,
     CreateRunBinding, AppendRevision, AuthorizeRevision, InsertGeneration, BeginActivate,
     EndActivate, SelectRevision, ProjectRevision, ReserveAttempt, AppendScopedEvent, BeginAdopt,
     EndAdopt, MoveAway, Legacy, TakeId, Check, WriteRow, WriteEvent, WriteAttempt, DeleteEvents,
     DeleteAttempts
<1>10. ASSUME NEW i \in Ids, attempts'[i].gen = bind.gen
       PROVE  /\ attempts'[i].rev \in Chain /\ auth'[attempts'[i].rev] # "none"
              /\ late' \/ ~attempts'[i].path
  <2>1. CASE attempts'[i] = attempts[i]
    <3>1. i \in scoped_attempts
      BY <1>10, <2>1 DEF scoped_attempts
    <3>2. /\ attempts[i].rev \in Chain /\ auth[attempts[i].rev] # "none"
          /\ late \/ ~attempts[i].path
      BY <1>0, <3>1 DEF Executed
    <3> QED BY <1>0, <1>4, <1>9, <2>1, <3>2
  <2>2. CASE late' /\ attempts'[i] = [attempts[i] EXCEPT !.path = TRUE]
    <3>0. attempts'[i].gen = attempts[i].gen /\ attempts'[i].rev = attempts[i].rev
      BY <2>2 DEF TypeOK
    <3>1. i \in scoped_attempts
      BY <1>10, <3>0 DEF scoped_attempts
    <3>2. attempts[i].rev \in Chain /\ auth[attempts[i].rev] # "none"
      BY <1>0, <3>1 DEF Executed
    <3> QED BY <1>0, <1>4, <2>2, <3>0, <3>2
  <2>3. CASE /\ Authorized(bind.rev) /\ attempts'[i].rev = bind.rev /\ attempts'[i].path = FALSE
    <3>1. auth[bind.rev] # "none"
      BY <2>3 DEF Authorized
    <3> QED BY <1>0, <1>2, <1>4, <2>3, <3>1
  <2>4. Scoped(i)'
    BY <1>0, <1>10 DEF Scoped
  <2> QED BY <2>1, <2>2, <2>3, <2>4, AttemptsChange
<1>11. ASSUME NEW e \in events', e.gen = bind.gen
       PROVE  /\ e.rev \in Chain /\ auth'[e.rev] # "none"
              /\ e.id # None => e.id \in scoped_attempts' /\ attempts'[e.id].task = e.task
  <2>1. CASE e \in events
    <3>1. e \in scoped_events
      BY <1>11, <2>1 DEF scoped_events
    <3>2. /\ e.rev \in Chain /\ auth[e.rev] # "none"
          /\ e.id # None => e.id \in scoped_attempts /\ attempts[e.id].task = e.task
      BY <1>0, <3>1 DEF Executed
    <3>3. ASSUME e.id # None PROVE e.id \in scoped_attempts' /\ attempts'[e.id].task = e.task
      <4>1. e.id \in Ids /\ attempts[e.id].gen = bind.gen /\ attempts[e.id].task = e.task
        BY <3>2, <3>3 DEF scoped_attempts
      <4>2. Scoped(e.id)
        BY <1>0, <4>1 DEF Scoped
      <4>3. attempts'[e.id] = attempts[e.id]
              \/ attempts'[e.id] = [attempts[e.id] EXCEPT !.path = TRUE]
        BY <4>1, <4>2, AttemptsChange
      <4>4. \A j \in Ids : attempts'[j] = [attempts[j] EXCEPT !.path = TRUE]
               => attempts'[j].gen = attempts[j].gen /\ attempts'[j].task = attempts[j].task
        BY DEF TypeOK
      <4>5. attempts'[e.id].gen = attempts[e.id].gen /\ attempts'[e.id].task = attempts[e.id].task
        BY <4>1, <4>3, <4>4
      <4> QED BY <1>0, <4>1, <4>5 DEF scoped_attempts
    <3> QED BY <1>0, <1>4, <3>2, <3>3
  <2>2. CASE /\ e.gen = bind.gen /\ e.rev = bind.rev
             /\ Authorized(bind.rev) /\ UNCHANGED <<attempts, plans>>
             /\ e.id # None => e.id \in InScopeAttempts /\ attempts[e.id].task = e.task
    <3>1. e.id # None => e.id \in scoped_attempts' /\ attempts'[e.id].task = e.task
      BY <1>0, <2>2 DEF InScopeAttempts, scoped_attempts
    <3>2. e.rev \in Chain /\ auth'[e.rev] # "none"
      BY <1>0, <1>2, <1>4, <2>2 DEF Authorized
    <3> QED BY <3>1, <3>2
  <2> QED BY <1>0, <1>11, <2>1, <2>2, EventsChange
<1>12. auth'[Initial] # "none"
  BY <1>0, <1>2, <1>4
<1>13. /\ \A i \in scoped_attempts' :
            /\ attempts'[i].rev \in Chain /\ auth'[attempts'[i].rev] # "none"
            /\ late' \/ ~attempts'[i].path
       /\ \A e \in scoped_events' :
            /\ e.rev \in Chain /\ auth'[e.rev] # "none"
            /\ e.id # None => e.id \in scoped_attempts' /\ attempts'[e.id].task = e.task
  BY <1>0, <1>10, <1>11 DEF scoped_attempts, scoped_events
<1>14. /\ Initial' # None /\ auth'[Initial'] # "none" /\ gens'[bind'.gen].plan = Initial'
       /\ Initial' \in Chain' /\ bind'.rev \in Chain'
       /\ \A r \in Chain' : revs'[r].there
       /\ \A r \in Chain' \ {Initial'} :
            revs'[r].gen \in {None, bind'.gen} /\ revs'[r].pred \in Chain'
  BY <1>0, <1>1, <1>2, <1>7, <1>8, <1>12
<1> QED
  BY <1>7, <1>13, <1>14 DEF Executed

\* A new generation has the one revision it was activated with and nothing executed.
LEMMA ExecutedActivate ==
  ASSUME TypeOK, TypeOK', Transacts, Refers, NEW c \in Callers, EndActivate(c)
  PROVE  Executed'
<1>1. PICK r \in RevIds, g \in GenIds :
        /\ ~HasGen(g) /\ bind'.gen = g /\ bind'.rev = r
        /\ gens'[g] = [plan |-> r, rev |-> r]
        /\ revs'[r].there /\ auth'[r] = "Accepted"
        /\ UNCHANGED <<attempts, events>>
  BY Activation
<1>2. Initial' = r /\ Initial' # None /\ gens'[bind'.gen].plan = r
  BY <1>1, Corners DEF Initial
<1>3. Chain' = {r}
  <2>1. revs' \in [RevIds -> Revisions]
    BY DEF TypeOK, Revisions
  <2>2. WalkIn(revs', r, r) = {r}
    BY <2>1, WalkStop
  <2>3. Chain' = WalkIn(revs', r, r)
    BY <1>1, <1>2 DEF Chain, Walk, WalkIn, Leads
  <2> QED BY <2>2, <2>3
<1>4. scoped_attempts' = {}
  <2>1. ASSUME NEW i \in Ids, attempts[i].gen = g PROVE FALSE
    <3>1. Scoped(i)
      BY <2>1, Corners DEF Scoped
    <3> QED BY <1>1, <2>1, <3>1 DEF Refers
  <2> QED BY <1>1, <2>1 DEF scoped_attempts
<1>5. scoped_events' = {}
  <2>1. ASSUME NEW e \in events, e.gen = g PROVE FALSE
    <3>1. e.gen # None
      BY <2>1, Corners
    <3> QED BY <1>1, <2>1, <3>1 DEF Refers
  <2> QED BY <1>1, <2>1 DEF scoped_events
<1> QED
  BY <1>1, <1>2, <1>3, <1>4, <1>5 DEF Executed

\* A successor that becomes current makes the chain one revision longer.
LEMMA ExecutedFollow ==
  ASSUME TypeOK, TypeOK', Rooted, Executed, NEW r \in RevIds, Follow(r),
         UNCHANGED <<revs, auth, gens, attempts, events, late>>
  PROVE  Executed'
<1> SUFFICES ASSUME bind'.gen # None
             PROVE  Executed'
  BY DEF Executed
<1>0. /\ bind'.gen = bind.gen /\ bind'.rev = r /\ bind.gen # None
      /\ revs[r].there /\ revs[r].gen \in {None, bind.gen}
      /\ revs[r].pred = bind.rev \/ bind.rev = r
  BY DEF Follow, HasRev, Successor, TypeOK
<1>1. Initial' = Initial
  BY <1>0 DEF Initial
<1>2. /\ Initial # None /\ auth[Initial] # "none" /\ gens[bind.gen].plan = Initial
      /\ Initial \in Chain /\ bind.rev \in Chain
      /\ \A q \in Chain : revs[q].there
      /\ \A q \in Chain \ {Initial} : revs[q].gen \in {None, bind.gen} /\ revs[q].pred \in Chain
  BY <1>0 DEF Executed
<1>3. Chain = WalkIn(revs, bind.rev, Initial) /\ Chain' = WalkIn(revs, r, Initial)
  BY <1>0, <1>1, WalkIsWalkIn DEF Chain, Walk, WalkIn, Leads
<1>4. Chain \subseteq RevIds /\ bind.rev \in RevIds
  BY <1>2, <1>3 DEF WalkIn
<1>5. Chain' = {r} \cup Chain
  <2>1. CASE bind.rev = r
    BY <1>2, <1>3, <2>1
  <2>2. CASE revs[r].pred = bind.rev
    <3>1. r # Initial
      <4> SUFFICES ASSUME r = Initial PROVE FALSE
        OBVIOUS
      <4>1. Chain \in SUBSET {q \in RevIds : revs[q].there} /\ Chain # {}
        BY <1>2, <1>4
      <4>2. \A q \in Chain : revs[q].pred \in Chain
        BY <1>2, <2>2
      <4> QED BY <4>1, <4>2 DEF Rooted
    <3>2. revs \in [RevIds -> Revisions]
      BY DEF TypeOK, Revisions
    <3> QED BY <1>3, <1>4, <2>2, <3>1, <3>2, WalkStep
  <2> QED BY <1>0, <2>1, <2>2
<1>6. revs[r].pred \in Chain \/ r \in Chain
  BY <1>0, <1>2
<1>7. /\ \A q \in Chain' : revs[q].there
      /\ \A q \in Chain' \ {Initial} : revs[q].gen \in {None, bind.gen} /\ revs[q].pred \in Chain'
  BY <1>0, <1>2, <1>5, <1>6
<1>8. scoped_attempts' = scoped_attempts /\ scoped_events' = scoped_events
  BY <1>0 DEF scoped_attempts, scoped_events
<1>9. /\ \A i \in scoped_attempts :
           /\ attempts[i].rev \in Chain /\ auth[attempts[i].rev] # "none"
           /\ late \/ ~attempts[i].path
      /\ \A e \in scoped_events :
           /\ e.rev \in Chain /\ auth[e.rev] # "none"
           /\ e.id # None => e.id \in scoped_attempts /\ attempts[e.id].task = e.task
  BY <1>0 DEF Executed
<1> QED
  BY <1>0, <1>1, <1>2, <1>5, <1>7, <1>8, <1>9 DEF Executed

\* The binding's revision and the run's row change together.
LEMMA RowStep ==
  ASSUME TypeOK, Transacts, Refers, RowIsCurrentRevision, [Next]_vars
  PROVE  RowIsCurrentRevision'
<1> USE DEF plans, records, procs, Around
<1>1. ASSUME NEW r \in RevIds, Follow(r) PROVE RowIsCurrentRevision'
  BY <1>1 DEF Follow, Projected, RowIsCurrentRevision, PlanOf, TypeOK
<1>2. ASSUME NEW c \in Callers, EndActivate(c) PROVE RowIsCurrentRevision'
  BY <1>2, Activation DEF RowIsCurrentRevision, PlanOf
<1>3. CASE UNCHANGED <<run, late>> /\ Settled
  <2>1. bind'.on /\ bind'.rev # None => bind.on
    BY <1>3 DEF Settled, Refers
  <2> QED BY <1>3, <2>1 DEF Settled, RowIsCurrentRevision, PlanOf
<1>4. ASSUME NEW w \in Writers, Legacy(w) PROVE RowIsCurrentRevision'
  <2>1. bind' = bind
    BY <1>4 DEF Legacy, TakeId, Check, WriteRow, WriteEvent, WriteAttempt, DeleteEvents,
       DeleteAttempts
  <2>2. CASE WriteRow(w)
    BY <2>1, <2>2 DEF WriteRow, RowIsCurrentRevision
  <2>3. CASE WriteEvent(w)
    BY <2>1, <2>3 DEF WriteEvent, RowIsCurrentRevision, Trigger, PlanOf
  <2>4. CASE ~WriteRow(w) /\ ~WriteEvent(w)
    <3>1. run' = run
      BY <1>4, <2>4 DEF Legacy, TakeId, Check, WriteAttempt, DeleteEvents, DeleteAttempts
    <3>2. late' = late \/ late' = (late \/ Scoped(writer[w].id)) \/ late' = (late \/ bind.on)
      BY <1>4, <2>4 DEF Legacy, TakeId, Check, WriteAttempt, DeleteEvents, DeleteAttempts
    <3> QED BY <2>1, <3>1, <3>2 DEF RowIsCurrentRevision, PlanOf
  <2> QED BY <2>2, <2>3, <2>4
<1>5. ASSUME NEW c \in Callers, Caller(c) \/ Adopt(c), ~EndActivate(c), ~SelectRevision(c),
             ~ProjectRevision(c)
      PROVE  UNCHANGED <<run, late>>
  BY <1>5 DEF Caller, Adopt, AcquireFence, ReleaseFence, CreateRunBinding, AppendRevision,
     AuthorizeRevision, InsertGeneration, BeginActivate, ReserveAttempt, AppendScopedEvent,
     BeginAdopt, EndAdopt
<1>6. CASE MoveAway \/ UNCHANGED vars
  BY <1>6 DEF MoveAway, vars, RowIsCurrentRevision, PlanOf
<1>7. ASSUME NEW c \in Callers, SelectRevision(c) \/ ProjectRevision(c)
      PROVE  RowIsCurrentRevision'
  BY <1>1, <1>7 DEF SelectRevision, ProjectRevision
<1> QED
  BY <1>1, <1>2, <1>3, <1>4, <1>5, <1>6, <1>7, SettledSteps DEF Next

\* Every step keeps the types.
LEMMA Typing ==
  ASSUME TypeOK, Admitted, [Next]_vars
  PROVE  TypeOK'
<1> USE DEF plans, records, procs
<1>1. CASE MoveAway
  BY <1>1 DEF MoveAway, TypeOK
<1>2. CASE UNCHANGED vars
  BY <1>2 DEF vars, TypeOK
<1> QED
  BY <1>1, <1>2, CallerTyping, LegacyTyping DEF Next

\* A graph that is not bound yet satisfies the invariant.
LEMMA InitInv == Init => IInv
<1> SUFFICES ASSUME Init PROVE IInv
  OBVIOUS
<1>1. TypeOK
  BY TypeInit
<1>2. Rooted
  <2>1. \A r \in RevIds : ~revs[r].there
    BY DEF Init, NoRev
  <2> QED BY <2>1 DEF Rooted
<1>3. Transacts /\ Admitted
  BY DEF Init, Transacts, Admitted, NoWrite
<1>4. Refers
  <2>1. \A i \in Ids : ~Scoped(i)
    BY DEF Init, Scoped, NoAttempt
  <2> QED BY <2>1 DEF Init, Refers
<1>5. Executed /\ RowIsCurrentRevision
  BY DEF Init, Executed, RowIsCurrentRevision
<1> QED
  BY <1>1, <1>2, <1>3, <1>4, <1>5 DEF IInv

\* Every step keeps the invariant.
LEMMA StepInv ==
  ASSUME IInv, [Next]_vars
  PROVE  IInv'
<1> USE DEF IInv
<1>1. TypeOK'
  BY Typing
<1>2. Rooted' /\ Transacts' /\ Admitted' /\ RowIsCurrentRevision'
  BY RootedStep, TransactsStep, AdmittedStep, RowStep
<1>3. Refers'
  BY <1>1, RefersStep
<1>4. Executed'
  BY <1>1, SettledSteps, ExecutedSettled, ExecutedActivate, ExecutedFollow
<1> QED
  BY <1>1, <1>2, <1>3, <1>4

\* The inductive invariant of the ledger: rows refer to rows that are there, revisions form
\* trees, whoever is in a transaction holds the fence, what an attempt or an event of the
\* active generation names is a revision read_frame goes through.
THEOREM LedgerInvariance == Spec => []IInv
<1>1. IInv /\ UNCHANGED vars => IInv'
  BY StepInv
<1>2. IInv /\ [Next]_vars => IInv'
  BY StepInv
<1> QED
  BY InitInv, <1>2, PTL DEF Spec

\* What was executed in a generation can be observed.
LEMMA ExecutedIsRead ==
  ASSUME IInv
  PROVE  ObservationAccepts
<1> SUFFICES ASSUME bind.gen # None, ~late, ~Dropped
             PROVE  Captures /\ read_frame_snapshot
  <2>1. ASSUME bind.gen # None, ~late PROVE Captures
    BY <2>1 DEF IInv, Executed, Captures, PlanOf
  <2> QED BY <2>1 DEF ObservationAccepts
<1>1. Executed /\ Captures
  BY DEF IInv, Executed, Captures, PlanOf
<1>2. WasAccepted(Initial)
  BY <1>1 DEF Executed, WasAccepted
<1>3. ASSUME NEW i \in scoped_attempts PROVE ReadsAttempt(i)
  BY <1>1, <1>3 DEF Executed, Dropped, ReadsAttempt, WasAccepted
<1>4. ASSUME NEW e \in scoped_events PROVE ReadsEvent(e)
  BY <1>1, <1>4 DEF Executed, Dropped, ReadsEvent, WasAccepted
<1> QED
  BY <1>1, <1>2, <1>3, <1>4 DEF read_frame_snapshot

-----------------------------------------------------------------------------
\* What is executed in a generation, over any number of revisions, activations, decisions
\* and legacy writers, is read back in one chain of accepted revisions, and the run's row is
\* the binding's revision, until an admitted legacy write lands late.
THEOREM OneRevision == Spec => []ReadsOneRevision
<1>1. IInv => ReadsOneRevision
  BY ExecutedIsRead DEF IInv, ReadsOneRevision
<1> QED
  BY <1>1, LedgerInvariance, PTL

\* No legacy write enters a bound graph, however old its check; no scoped attempt changes
\* its row, scope or task; and a marked run is bound by a proved adoption only.
THEOREM LegacyOut == Spec => LegacyStaysOut
<1> DEFINE Enters == bind.on =>
             /\ {e \in events' : e.gen = None} \subseteq events
             /\ \A i \in Ids : attempts'[i].graph = "BoundGraph" /\ attempts'[i].gen = None
                                => attempts[i].graph = "BoundGraph"
           Kept == \A i \in Ids : Scoped(i) =>
             /\ attempts'[i].graph = attempts[i].graph /\ attempts'[i].gen = attempts[i].gen
             /\ attempts'[i].rev = attempts[i].rev /\ attempts'[i].task = attempts[i].task
           Goes == /\ marked.run /\ ~marked'.run => Proven
                   /\ bind'.on => ~marked'.run
<1>1. IInv /\ [Next]_vars => Enters
  <2> SUFFICES ASSUME IInv, [Next]_vars, bind.on PROVE Enters
    OBVIOUS
  <2>1. ASSUME NEW e \in events', e.gen = None PROVE e \in events
    BY <2>1, EventsChange DEF IInv
  <2>2. ASSUME NEW i \in Ids, attempts'[i].graph = "BoundGraph", attempts'[i].gen = None
        PROVE  attempts[i].graph = "BoundGraph"
    <3>1. CASE Scoped(i)
      BY <3>1 DEF IInv, Refers
    <3>2. CASE ~Scoped(i)
      BY <2>2, <3>2, AttemptsChange DEF IInv
    <3> QED BY <3>1, <3>2
  <2> QED BY <2>1, <2>2
<1>2. IInv /\ [Next]_vars => Kept
  <2> SUFFICES ASSUME IInv, [Next]_vars, NEW i \in Ids, Scoped(i)
               PROVE  /\ attempts'[i].graph = attempts[i].graph /\ attempts'[i].gen = attempts[i].gen
                      /\ attempts'[i].rev = attempts[i].rev /\ attempts'[i].task = attempts[i].task
    OBVIOUS
  <2>1. attempts'[i] = attempts[i] \/ attempts'[i] = [attempts[i] EXCEPT !.path = TRUE]
    BY AttemptsChange DEF IInv
  <2> QED BY <2>1 DEF IInv, TypeOK
<1>3. IInv /\ [Next]_vars => Goes
  BY MarksChange DEF IInv
<1>4. Spec => [][Enters]_vars /\ [][Kept]_vars /\ [][Goes]_vars
  <2> HIDE DEF Enters, Kept, Goes
  <2> QED BY <1>1, <1>2, <1>3, LedgerInvariance, PTL DEF Spec
<1> QED
  BY <1>4, PTL DEF LegacyStaysOut, LegacyNeverEntersBound, ScopedAttemptKept, MarkGoesByProof

-----------------------------------------------------------------------------
(* The workspace inventory                                                 *)

\* A commit contains itself, its parents, and all that they contain.
LEMMA AncestorFacts ==
  ASSUME NEW c \in Commits
  PROVE  /\ c \in Ancestors[c] /\ Ancestors[c] \subseteq Commits
         /\ Parents[c] \subseteq Ancestors[c]
<1> DEFINE Closed(S) == \A d \in S : Parents[d] \subseteq S
<1>1. Ancestors[c] = {a \in Commits : \A S \in SUBSET Commits : c \in S /\ Closed(S) => a \in S}
  BY DEF Ancestors
<1>2. Parents[c] \subseteq Commits
  BY CommitsAssumption
<1> QED
  BY <1>1, <1>2

\* What an empty set of reasons says, whatever the receipt and the repository.
LEMMA PassFacts ==
  ASSUME NEW r \in DeliveryReceipt, NEW t \in Commits \cup {NoCommit}, NEW away, NEW dirty,
         prove_delivery_receipt(r, t, away, dirty) = {}
  PROVE  /\ t # NoCommit /\ contained(r, t)
         /\ r.recorded \in {NoCommit, t} /\ r.recovery \cap away = {}
<1>1. t \in Commits
  BY DEF prove_delivery_receipt
<1>2. note_landing(r, t, away) = {} /\ ~Mismatch(r, t) /\ note_recovery(r, away) = {}
  BY <1>1, CommitsAssumption DEF prove_delivery_receipt, NoCommit
<1>3. r.recorded \in {NoCommit, t} /\ r.recovery \cap away = {} /\ t # NoCommit
  BY <1>1, <1>2, CommitsAssumption DEF Mismatch, note_recovery, NoCommit
<1>4. CASE r.strategy = "rewrite"
  <2>1. note_rewrite(r, away) = {}
    BY <1>2, <1>4 DEF note_landing
  <2>2. r.recorded = t /\ contained(r, r.recorded)
    BY <1>3, <2>1 DEF note_rewrite, ask
  <2> QED BY <1>3, <2>2
<1>5. CASE r.strategy = "merge"
  <2>1. note_merge(r, t, away) = {}
    BY <1>2, <1>5 DEF note_landing
  <2>2. r.accepted \in Parents[t]
    BY <1>2, <2>1 DEF note_merge
  <2>3. is_ancestor(r.accepted, t)
    BY <1>1, <2>2, AncestorFacts DEF is_ancestor
  <2> QED BY <1>3, <2>3 DEF contained
<1>6. CASE r.strategy = "fast-forward"
  <2>1. note_fast_forward(r, t, away) = {}
    BY <1>2, <1>6 DEF note_landing
  <2>2. is_ancestor(r.accepted, t)
    BY <1>2, <2>1 DEF note_fast_forward, ask
  <2> QED BY <1>3, <2>2 DEF contained
<1> QED
  BY <1>4, <1>5, <1>6 DEF DeliveryReceipt, LandingStrategy

\* The reasons are of the type the receipt's proof reports.
LEMMA ReasonsType ==
  \A r, t, away, dirty : prove_delivery_receipt(r, t, away, dirty) \subseteq DeliveryReason
BY DEF prove_delivery_receipt, note_landing, note_rewrite, note_merge, note_fast_forward,
   note_recovery, ask, DeliveryReason

-----------------------------------------------------------------------------
Sources == {"artifact", "generation", "provisional", "driver", "legacy-attempt", "legacy-run",
            "git-worktree", "configured-entry"}
Scopes == {"withheld", "repository", "root", "configured", "run", "log"}

\* What a discovered entry says of the directory its key names.
Shape(o) ==
  /\ o.source \in Sources
  /\ \E s \in Scopes, d \in Dirs : o.key[1] = s /\ o.key[2] = d
  /\ o.id => \E s \in {"root", "log"}, d \in Dirs : o.key = <<s, d, "">>

\* Each row is the one its key names.
Shaped(R) ==
  /\ \A c, b \in R : c.key = b.key => c = b
  /\ \A c \in R : /\ \E s \in Scopes, d \in Dirs : c.key[1] = s /\ c.key[2] = d
                  /\ c.id => \E s \in {"root", "log"}, d \in Dirs : c.key = <<s, d, "">>

\* The ranks tell the entries of a plan apart.
Ranked(plan) == \A c \in plan : \E s \in {"root", "log"}, d \in Dirs :
                  c.id = <<s, d, "">> /\ c.rank = 2 * d + (IF s = "log" THEN 1 ELSE 0)

\* Sources are ranked from one on.
LEMMA SourceRankType == \A s \in Sources : SourceRank(s) \in Nat
<1> DEFINE T == <<"artifact", "generation", "provisional", "driver", "legacy-attempt",
                  "legacy-run", "git-worktree", "configured-entry">>
<1>1. /\ T[1] = "artifact" /\ T[2] = "generation" /\ T[3] = "provisional" /\ T[4] = "driver"
      /\ T[5] = "legacy-attempt" /\ T[6] = "legacy-run" /\ T[7] = "git-worktree"
      /\ T[8] = "configured-entry"
  OBVIOUS
<1> HIDE DEF T
<1>2. \A s \in Sources : \E i \in 1..8 : s = T[i]
  BY <1>1 DEF Sources
<1>3. \A s \in Sources : (CHOOSE i \in 1..8 : s = T[i]) \in 1..8
  BY <1>2
<1>4. ASSUME NEW s \in Sources PROVE (CHOOSE i \in 1..8 : s = T[i]) \in Nat
  <2> DEFINE j == CHOOSE i \in 1..8 : s = T[i]
  <2>1. j \in 1..8
    BY <1>3
  <2> HIDE DEF j
  <2>2. j \in Nat
    BY <2>1
  <2> QED BY <2>2 DEF j
<1> QED
  BY <1>4 DEF SourceRank, T

\* What is merged for a location is of that location, and is as doubtful, as legacy and as
\* owned as any of the observations it was merged from.
LEMMA CombineFacts ==
  ASSUME NEW S, S # {}, \A o \in S : o.source \in Sources
  PROVE  /\ \E o \in S : Combine(S).key = o.key /\ Combine(S).source = o.source
         /\ Combine(S).legacy <=> \E o \in S : o.legacy
         /\ Combine(S).identity <=> \E o \in S : o.record /\ o.identity
         /\ Combine(S).id <=> \E o \in S : o.id
<1> DEFINE T == {SourceRank(o.source) : o \in S}
<1>1. T \in SUBSET Nat /\ T # {}
  BY SourceRankType
<1>2. PICK n \in T : \A m \in T : n <= m
  BY <1>1, LeastNatural
<1>3. PICK b \in S : SourceRank(b.source) = n
  OBVIOUS
<1>4. \A p \in S : SourceRank(b.source) <= SourceRank(p.source)
  BY <1>2, <1>3
<1> DEFINE best == CHOOSE o \in S : \A p \in S : SourceRank(o.source) <= SourceRank(p.source)
<1>5. best \in S
  BY <1>4
<1>6. Combine(S).key = best.key /\ Combine(S).source = best.source
  BY DEF Combine
<1> HIDE DEF best
<1>7. /\ Combine(S).legacy = (\E o \in S : o.legacy)
      /\ Combine(S).identity = (\E o \in S : o.record /\ o.identity)
      /\ Combine(S).id = (\E o \in S : o.id)
  BY DEF Combine
<1> QED
  BY <1>5, <1>6, <1>7

\* The observations of one location.
At(O, k) == {o \in O : o.key = k}

\* An entry of the merged inventory.
LEMMA MergeFacts ==
  ASSUME NEW O, \A p \in O : p.source \in Sources, NEW o \in merge(O)
  PROVE  /\ o = Combine(At(O, o.key))
         /\ \E p \in O : p.key = o.key /\ p.source = o.source
         /\ o.legacy <=> \E p \in O : p.key = o.key /\ p.legacy
         /\ o.identity <=> \E p \in O : p.key = o.key /\ p.record /\ p.identity
         /\ o.id <=> \E p \in O : p.key = o.key /\ p.id
<1>1. PICK k \in {p.key : p \in O} : o = Combine(At(O, k))
  BY DEF merge, At
<1>2. At(O, k) # {} /\ \A p \in At(O, k) : p.source \in Sources
  BY DEF At
<1>3. /\ \E p \in At(O, k) : o.key = p.key /\ o.source = p.source
      /\ o.legacy <=> \E p \in At(O, k) : p.legacy
      /\ o.identity <=> \E p \in At(O, k) : p.record /\ p.identity
      /\ o.id <=> \E p \in At(O, k) : p.id
  BY <1>1, <1>2, CombineFacts
<1>4. o.key = k
  BY <1>3 DEF At
<1> QED
  BY <1>1, <1>3, <1>4 DEF At

\* The row the facts have of a merged entry.
Row(o, ok, r) ==
  LET e == Entry(o, ok)
      git == observe_entry(e, r)
  IN [key |-> e.key, source |-> e.source, id |-> e.id, run |-> e.run, class |-> e.class,
      owner |-> e.owner, blockers |-> e.blockers, flags |-> git.flags,
      commit |-> git.commit, reachable |-> git.reachable]

LEMMA RowFacts ==
  ASSUME NEW o, NEW ok, NEW r
  PROVE  /\ Row(o, ok, r).key = o.key /\ Row(o, ok, r).id = o.id
         /\ Row(o, ok, r).class = Class(o, ok) /\ Row(o, ok, r).owner = Ownership(o, ok)
         /\ Row(o, ok, r).blockers = Blockers(o, ok)
         /\ Row(o, ok, r).flags = observe_entry(Entry(o, ok), r).flags
         /\ Row(o, ok, r).commit = observe_entry(Entry(o, ok), r).commit
         /\ Row(o, ok, r).reachable = observe_entry(Entry(o, ok), r).reachable
         /\ Entry(o, ok).key = o.key
BY DEF Row, Entry

LEMMA FactsRows ==
  \A O, ok, r : Facts(O, ok, r).rows = {Row(o, ok, r) : o \in merge(O)}
BY DEF Facts, Candidates, Row

\* The rows of the facts are one for each location.
LEMMA RowsShaped ==
  ASSUME NEW O, \A p \in O : Shape(p), NEW ok, NEW r
  PROVE  Shaped(Facts(O, ok, r).rows)
<1>0. \A p \in O : p.source \in Sources
  BY DEF Shape
<1>1. ASSUME NEW o \in merge(O), NEW n \in merge(O), o.key = n.key PROVE o = n
  <2>1. o = Combine(At(O, o.key)) /\ n = Combine(At(O, n.key))
    BY <1>0, MergeFacts
  <2> QED BY <1>1, <2>1
<1>2. ASSUME NEW o \in merge(O)
      PROVE  /\ \E s \in Scopes, d \in Dirs : o.key[1] = s /\ o.key[2] = d
             /\ o.id => \E s \in {"root", "log"}, d \in Dirs : o.key = <<s, d, "">>
  <2>1. PICK p \in O : p.key = o.key
    BY <1>0, MergeFacts
  <2>2. o.id => \E q \in O : q.key = o.key /\ q.id
    BY <1>0, MergeFacts
  <2> QED BY <2>1, <2>2 DEF Shape
<1> DEFINE R == Facts(O, ok, r).rows
<1>3. \A c \in R : \E o \in merge(O) : c = Row(o, ok, r) /\ c.key = o.key /\ c.id = o.id
  BY FactsRows, RowFacts
<1> HIDE DEF R
<1>4. \A c, b \in R : c.key = b.key => c = b
  BY <1>1, <1>3
<1>5. ASSUME NEW c \in R
      PROVE  /\ \E s \in Scopes, d \in Dirs : c.key[1] = s /\ c.key[2] = d
             /\ c.id => \E s \in {"root", "log"}, d \in Dirs : c.key = <<s, d, "">>
  <2>1. PICK o \in merge(O) : c = Row(o, ok, r) /\ c.key = o.key /\ c.id = o.id
    BY <1>3
  <2> QED BY <1>2, <2>1
<1> QED
  BY <1>4, <1>5 DEF Shaped, R

-----------------------------------------------------------------------------
\* What removal and adoption say of one entry, whatever was observed.
LEMMA AdoptOrCleanRow ==
  ASSUME NEW o, NEW ok, NEW r
  PROVE  /\ Eligible(Row(o, ok, r)) => ~adoption_candidate(Row(o, ok, r))
         /\ "ambiguous-ownership" \in reasons_for(Row(o, ok, r))
              => adoption_candidate(Row(o, ok, r))
<1> DEFINE c == Row(o, ok, r)
<1>1. c.class = Class(o, ok) /\ c.owner = Ownership(o, ok) /\ c.blockers = Blockers(o, ok)
  BY RowFacts
<1> HIDE DEF c
<1>2. ASSUME Eligible(c) PROVE ~adoption_candidate(c)
  <2>1. /\ c.owner = "ledger-owned" /\ c.class # "inaccessible"
        /\ "driver-active" \notin c.blockers
        /\ c.blockers \cap {"reparse-blocked", "external-path-withheld", "path-inaccessible"} = {}
        /\ c.blockers \cap {"unknown-ownership", "legacy-ownership-unresolved"} = {}
    BY <1>2 DEF Eligible, reasons_for
  <2>2. ~o.legacy /\ Owned(o, ok)
    BY <1>1, <2>1 DEF Ownership
  <2>3. c.class \notin {"legacy", "unknown"}
    BY <1>1, <2>2 DEF Class
  <2> QED BY <2>1, <2>3 DEF adoption_candidate
<1>3. ASSUME "ambiguous-ownership" \in reasons_for(c) PROVE adoption_candidate(c)
  <2>1. \/ c.owner # "ledger-owned"
        \/ c.blockers \cap {"unknown-ownership", "legacy-ownership-unresolved"} # {}
    BY <1>3 DEF reasons_for
  <2>2. c.owner # "ledger-owned"
          => c.blockers \cap {"unknown-ownership", "legacy-ownership-unresolved"} # {}
    BY <1>1 DEF Ownership, Blockers
  <2> QED BY <2>1, <2>2 DEF adoption_candidate
<1> QED
  BY <1>2, <1>3 DEF c

-----------------------------------------------------------------------------
(* What is discovered has the shape of what it was discovered from.        *)

\* Where a path is: in the checkout, under a registered root, or not told.
Places == {"withheld", "repository", "root"}

LEMMA PlaceFacts ==
  ASSUME NEW d \in Dirs, NEW source, NEW ok
  PROVE  /\ \E s \in Places : PlaceOf(d, source, ok)[1] = s
         /\ PlaceOf(d, source, ok)[2] = d
BY DEF PlaceOf, Places

\* What a ledger row is observed as.
LedgerRow(o, ok) ==
  \/ \E s \in {"generation", "artifact", "provisional"} : \E d \in RowDirs(s) :
       /\ o.source = s /\ o.key = <<"root", d, "">>
       /\ o.legacy <=> s # "provisional" /\ <<"runs", d>> \in marks
  \/ \E d \in RowDirs("attempt") : /\ o.source = "legacy-run" /\ o.key = <<"run", d, "">>
                                   /\ o.legacy /\ ~o.id
  \/ \E d \in RowDirs("attempt") :
       /\ o.source \in {"legacy-attempt", "artifact"} /\ ~o.id
       /\ \E s \in Places : o.key[1] = s /\ o.key[2] = d
       /\ o.legacy <=> \/ <<"attempts", d>> \in marks \/ <<"runs", d>> \in marks
                       \/ legacy_run(d)
  \/ \E d \in RowDirs("driver") : o.source = "driver" /\ o.key = <<"log", d, "">>

LEMMA LedgerFacts ==
  ASSUME NEW ok, NEW o \in LedgerObservations(ok)
  PROVE  LedgerRow(o, ok) /\ o.identity = ok /\ o.record = TRUE
<1>1. CASE o \in RecordObservations(ok)
  <2>1. PICK s \in {"generation", "artifact", "provisional"} :
          \E d \in RowDirs(s) :
            o = ledger_observation(s, <<"root", d, "">>, resolve_record(d, ok),
                                   s # "provisional" /\ <<"runs", d>> \in marks, ok)
    BY <1>1 DEF RecordObservations
  <2>2. PICK d \in RowDirs(s) :
          o = ledger_observation(s, <<"root", d, "">>, resolve_record(d, ok),
                                 s # "provisional" /\ <<"runs", d>> \in marks, ok)
    BY <2>1
  <2>3. /\ o.source = s /\ o.key = <<"root", d, "">> /\ o.identity = ok /\ o.record = TRUE
        /\ o.legacy = (s # "provisional" /\ <<"runs", d>> \in marks)
    BY <2>2 DEF ledger_observation, Observation
  <2> QED BY <2>3 DEF LedgerRow
<1>2. CASE o \in RunObservations(ok)
  <2>1. PICK d \in RowDirs("attempt") :
          o = ledger_observation("legacy-run", <<"run", d, "">>, "NotApplicable", TRUE, ok)
    BY <1>2 DEF RunObservations
  <2>2. /\ o.source = "legacy-run" /\ o.key = <<"run", d, "">> /\ o.legacy = TRUE /\ ~o.id
        /\ o.identity = ok /\ o.record = TRUE
    BY <2>1 DEF ledger_observation, Observation
  <2> QED BY <2>2 DEF LedgerRow
<1>3. CASE o \in AttemptObservations(ok)
  <2> DEFINE mk(d) == <<"attempts", d>> \in marks \/ <<"runs", d>> \in marks \/ legacy_run(d)
             src(d) == IF mk(d) THEN "legacy-attempt" ELSE "artifact"
             obsd(d) == ledger_observation(src(d), PlaceOf(d, src(d), ok), dir[d].presence,
                                           mk(d), ok)
  <2>1. PICK d \in RowDirs("attempt") : o = [obsd(d) EXCEPT !.id = FALSE]
    BY <1>3 DEF AttemptObservations
  <2>2. /\ o.source = src(d) /\ o.key = PlaceOf(d, src(d), ok) /\ o.identity = ok
        /\ o.record = TRUE /\ o.legacy = mk(d) /\ o.id = FALSE
    <3> HIDE DEF mk, src
    <3> QED BY <2>1 DEF ledger_observation, Observation
  <2>3. d \in Dirs
    BY DEF RowDirs
  <2>4. \E s \in Places : o.key[1] = s /\ o.key[2] = d
    BY <2>2, <2>3, PlaceFacts
  <2>5. o.source \in {"legacy-attempt", "artifact"}
    BY <2>2
  <2> QED BY <2>2, <2>4, <2>5 DEF LedgerRow
<1>4. CASE o \in DriverObservations(ok)
  <2>1. PICK d \in RowDirs("driver") :
          o = ledger_observation("driver", <<"log", d, "">>,
                      IF ~ok THEN "NotApplicable"
                      ELSE IF root # "same" THEN "Inaccessible" ELSE "Present", FALSE, ok)
    BY <1>4 DEF DriverObservations
  <2>2. o.source = "driver" /\ o.key = <<"log", d, "">> /\ o.identity = ok /\ o.record = TRUE
    BY <2>1 DEF ledger_observation, Observation
  <2> QED BY <2>2 DEF LedgerRow
<1> QED
  BY <1>1, <1>2, <1>3, <1>4 DEF LedgerObservations

LEMMA LedgerShape ==
  ASSUME NEW ok, NEW o \in LedgerObservations(ok)
  PROVE  Shape(o)
<1>1. LedgerRow(o, ok)
  BY LedgerFacts
<1>2. ASSUME NEW s \in {"root", "run", "log"}, NEW d \in Dirs, o.key = <<s, d, "">>
      PROVE  \E t \in Scopes, e \in Dirs : o.key[1] = t /\ o.key[2] = e
  <2>1. <<s, d, "">>[1] = s /\ <<s, d, "">>[2] = d /\ s \in Scopes
    BY DEF Scopes
  <2> QED BY <1>2, <2>1
<1>3. \E t \in Scopes, e \in Dirs : o.key[1] = t /\ o.key[2] = e
  BY <1>1, <1>2 DEF LedgerRow, RowDirs, Scopes, Places
<1>4. o.source \in Sources
  BY <1>1 DEF LedgerRow, Sources
<1>5. o.id => \E s \in {"root", "log"}, d \in Dirs : o.key = <<s, d, "">>
  BY <1>1 DEF LedgerRow, RowDirs
<1> QED
  BY <1>3, <1>4, <1>5 DEF Shape

\* Git's list and the configured directories name no record.
LEMMA OtherFacts ==
  ASSUME NEW ok, NEW o \in GitObservations(ok) \cup ConfiguredObservations(ok)
  PROVE  Shape(o) /\ ~o.record
<1>1. CASE o \in GitObservations(ok)
  <2>1. PICK d \in Dirs :
          o = Observation("git-worktree", PlaceOf(d, "git-worktree", ok), dir[d].presence,
                          FALSE, FALSE, FALSE)
    BY <1>1 DEF GitObservations
  <2>2. o.source = "git-worktree" /\ o.key = PlaceOf(d, "git-worktree", ok) /\ ~o.id /\ ~o.record
    BY <2>1 DEF Observation
  <2>3. \E s \in Scopes : o.key[1] = s /\ o.key[2] = d
    BY <2>2, PlaceFacts DEF Scopes, Places
  <2> QED BY <2>2, <2>3 DEF Shape, Sources
<1>2. CASE o \in ConfiguredObservations(ok)
  <2>1. PICK d \in Dirs :
          o = Observation("configured-entry",
                          <<IF d \in Outside THEN "root" ELSE "configured", d, "">>,
                          dir[d].presence, FALSE, FALSE, FALSE)
    BY <1>2 DEF ConfiguredObservations
  <2>2. /\ o.source = "configured-entry" /\ ~o.id /\ ~o.record
        /\ o.key = <<IF d \in Outside THEN "root" ELSE "configured", d, "">>
    BY <2>1 DEF Observation
  <2>3. ASSUME NEW s \in {"root", "configured"} PROVE <<s, d, "">>[1] \in Scopes /\ <<s, d, "">>[2] = d
    BY DEF Scopes
  <2>4. o.key[1] \in Scopes /\ o.key[2] = d
    <3>1. CASE d \in Outside
      BY <2>2, <2>3, <3>1
    <3>2. CASE d \notin Outside
      BY <2>2, <2>3, <3>2
    <3> QED BY <3>1, <3>2
  <2> QED BY <2>2, <2>4 DEF Shape, Sources
<1> QED
  BY <1>1, <1>2

\* An entry whose row holds nothing back: git was asked in the directory itself, about a
\* clean worktree inside the checkout and under a root that is the registered one.
LEMMA ObservedFacts ==
  ASSUME NEW o, NEW ok, NEW r, NEW d \in Dirs, o.key[2] = d, Eligible(Row(o, ok, r)),
         o.key[1] \in Places, dir[d].listed, dir[d].at \in Commits
  PROVE  /\ d \notin Outside /\ ~dir[d].dirty /\ is_ancestor(dir[d].at, head)
         /\ o.key[1] = "root" => root = "same"
         /\ Row(o, ok, r).commit = dir[d].at
<1> DEFINE e == Entry(o, ok)
           c == Row(o, ok, r)
           git == observe_entry(e, r)
<1>1. e.key = o.key /\ c.flags = git.flags /\ c.commit = git.commit /\ c.reachable = git.reachable
  BY RowFacts
<1>2. /\ c.flags \cap {"dirty", "reparse", "outside", "missing"} = {} /\ "unproven" \notin c.flags
      /\ c.commit # NoCommit => c.reachable
  <2> HIDE DEF c
  <2>1. Eligible(c)
    BY DEF c
  <2> QED BY <2>1 DEF Eligible, reasons_for
<1> HIDE DEF c
<1>3. e.key[1] # "withheld" /\ e.key[1] # "run" /\ e.key[1] # "log"
  <2>1. e.key[1] = "withheld" => git.flags = {"outside"}
    BY DEF observe_entry, flagged
  <2> QED BY <1>1, <1>2, <2>1 DEF Places
<1>4. location_root(e.key[1], r)
  <2>1. ~location_root(e.key[1], r) => git.flags = {"outside", "missing"}
    BY <1>3 DEF observe_entry, flagged
  <2> QED BY <1>1, <1>2, <2>1
<1>5. git = probe_path(d)
  BY <1>1, <1>3, <1>4 DEF observe_entry
<1> HIDE DEF git
<1>6. git = git_facts(d) /\ d \notin Outside
  BY <1>1, <1>2, <1>5 DEF probe_path, flagged
<1>7. /\ git.flags = IF dir[d].dirty THEN {"dirty"} ELSE {}
      /\ git.commit = dir[d].at /\ git.reachable = is_ancestor(dir[d].at, head)
  BY <1>6 DEF git_facts
<1>8. dir[d].at # NoCommit
  BY CommitsAssumption
<1> QED
  BY <1>1, <1>2, <1>4, <1>6, <1>7, <1>8 DEF location_root, c

\* A worktree that may go: a record names it, and git has it clean and contained in HEAD.
Removable(c) ==
  LET d == c.key[2] IN
  /\ d \in Dirs /\ registry = "ours" /\ ledger = "bound" /\ d \notin Outside /\ Named(d)
  /\ c.key[1] = "root" => root = "same"
  /\ ~dir[d].dirty /\ is_ancestor(dir[d].at, head) /\ c.commit = dir[d].at

\* The facts of one moment show no other worktree as up for removal.
LEMMA RemovableFacts ==
  ASSUME NEW c \in FactsNow.rows, Eligible(c), dir[c.key[2]].listed,
         \A d \in Dirs : dir[d].at \in Commits
  PROVE  Removable(c)
<1> DEFINE ok == LedgerConfirms(registry)
           sound == ~(RegistryConflicts(registry) \/ LedgerConflicts(registry))
           L == IF ledger = "missing" THEN {} ELSE LedgerObservations(ok)
           O == L \cup GitObservations(ok) \cup ConfiguredObservations(ok)
<1>0. FactsNow.rows = {Row(o, sound, registry) : o \in merge(O)}
  BY FactsRows DEF FactsNow
<1> HIDE DEF O, sound, ok
<1>1. PICK o \in merge(O) : c = Row(o, sound, registry)
  BY <1>0
<1>2. c.key = o.key /\ c.owner = Ownership(o, sound)
  BY <1>1, RowFacts
<1>3. c.owner = "ledger-owned"
  BY DEF Eligible, reasons_for
<1>4. ~o.legacy /\ o.identity
  BY <1>2, <1>3 DEF Ownership, Owned
<1>5. \A p \in O : p.source \in Sources
  BY LedgerShape, OtherFacts DEF O, Shape
<1>6. /\ \E p \in O : p.key = o.key /\ p.record /\ p.identity
      /\ \A p \in O : p.key = o.key => ~p.legacy
  BY <1>4, <1>5, MergeFacts
<1>7. PICK p \in LedgerObservations(ok) : p.key = o.key /\ p.record /\ p.identity /\ ~p.legacy
  BY <1>6, OtherFacts DEF O
<1>8. LedgerRow(p, ok) /\ ok
  <2>1. LedgerRow(p, ok) /\ p.identity = ok
    BY LedgerFacts
  <2> QED BY <1>7, <2>1
<1>9. registry = "ours" /\ ledger = "bound"
  BY <1>8 DEF LedgerConfirms, ok
<1>10. \E d \in Dirs : o.key[2] = d /\ Named(d) /\ o.key[1] \in Places
  <2>1. ASSUME NEW s \in {"generation", "artifact", "provisional"}, NEW d \in RowDirs(s),
               o.key = <<"root", d, "">>, ~(s # "provisional" /\ <<"runs", d>> \in marks)
        PROVE  o.key[2] = d /\ Named(d) /\ o.key[1] \in Places /\ d \in Dirs
    <3>1. <<"root", d, "">>[1] = "root" /\ <<"root", d, "">>[2] = d
      OBVIOUS
    <3>2. s \in RowsOf(d) /\ d \in Dirs
      BY DEF RowsOf, RowDirs, RowSources
    <3>3. Named(d)
      BY <2>1, <3>2 DEF Named
    <3> QED BY <2>1, <3>1, <3>2, <3>3 DEF Places
  <2>2. ASSUME NEW d \in RowDirs("attempt"), NEW s \in Places, o.key[1] = s, o.key[2] = d,
               <<"runs", d>> \notin marks, ~legacy_run(d)
        PROVE  o.key[2] = d /\ Named(d) /\ o.key[1] \in Places /\ d \in Dirs
    BY <2>2 DEF RowsOf, RowDirs, RowSources, Named
  <2>3. ASSUME NEW d \in RowDirs("driver"), o.key = <<"log", d, "">> PROVE FALSE
    <3>1. o.key[1] = "log"
      <4>1. <<"log", d, "">>[1] = "log"
        OBVIOUS
      <4> QED BY <2>3, <4>1
    <3>2. c.flags = observe_entry(Entry(o, sound), registry).flags /\ Entry(o, sound).key = o.key
      BY <1>1, RowFacts
    <3>3. c.flags \in {{"outside", "missing"}, {"dirty", "unproven"}}
      BY <3>1, <3>2 DEF observe_entry, flagged, Unknown
    <3> QED BY <3>3 DEF Eligible, reasons_for
  <2>4. \/ \E s \in {"generation", "artifact", "provisional"} : \E d \in RowDirs(s) :
             o.key = <<"root", d, "">> /\ ~(s # "provisional" /\ <<"runs", d>> \in marks)
        \/ \E d \in RowDirs("attempt") : \E s \in Places :
             o.key[1] = s /\ o.key[2] = d /\ <<"runs", d>> \notin marks /\ ~legacy_run(d)
        \/ \E d \in RowDirs("driver") : o.key = <<"log", d, "">>
    BY <1>7, <1>8 DEF LedgerRow
  <2> QED BY <2>1, <2>2, <2>3, <2>4
<1>11. PICK d \in Dirs : o.key[2] = d /\ Named(d) /\ o.key[1] \in Places
  BY <1>10
<1>12. /\ d \notin Outside /\ ~dir[d].dirty /\ is_ancestor(dir[d].at, head)
       /\ o.key[1] = "root" => root = "same"
       /\ c.commit = dir[d].at
  BY <1>1, <1>2, <1>11, ObservedFacts
<1> QED
  BY <1>2, <1>9, <1>11, <1>12 DEF Removable

-----------------------------------------------------------------------------
(* The invariant.                                                          *)

Directories ==
  dir \in [Dirs -> [presence : Presences, listed : BOOLEAN, dirty : BOOLEAN, at : Commits]]

\* What a command has read is shaped like what there was, and tells its entries apart.
Reading ==
  /\ \A o \in obs : Shape(o)
  /\ pc = "outcomes" => Shaped(facts.rows)
  /\ \A p \in planned : Ranked(p)

\* An apply is bound to facts the operator was shown, or to the plan of what was read.
Promised ==
  /\ want \in planned \cup {{}}
  /\ phase = "apply" => IF want = {} THEN digest \in shown ELSE want = CleanupPlanOf(digest, seen)

\* What is left to remove comes from there, and what is about to be removed was checked.
Chosen ==
  /\ pc \notin {"fence", "next", "remove"} => todo = {}
  /\ pc \in {"fence", "next", "remove"} => phase = "apply"
  /\ \A c \in todo : c \in digest.rows /\ (want # {} => c.key \in Selected(want))
  /\ want # {} => \A c, b \in todo : c = b
  /\ pc = "remove" => \E c \in todo : /\ facts.rows = {c}
                                      /\ mark = changes => Removable(c)

\* Nothing is changed any more once a receipt is proved.
Proved == pc = "proved" => verdict = prove_delivery_receipt(receipt, tip, gone, dir[First].dirty)

InventoryInv == InventoryTypeOK /\ Directories /\ Reading /\ Promised /\ Chosen /\ Proved

-----------------------------------------------------------------------------
(* Plans and selections.                                                   *)

LEMMA PlanRanked ==
  ASSUME NEW f, Shaped(f.rows), NEW outcomes
  PROVE  Ranked(CleanupPlanOf(f, outcomes))
<1> SUFFICES ASSUME NEW m \in CleanupPlanOf(f, outcomes)
             PROVE  \E s \in {"root", "log"}, d \in Dirs :
                      m.id = <<s, d, "">> /\ m.rank = 2 * d + (IF s = "log" THEN 1 ELSE 0)
  BY DEF Ranked
<1>1. PICK c \in f.rows : c.id /\ m.id = c.key /\ m.rank = Rank(c)
  BY DEF CleanupPlanOf
<1>2. PICK s \in {"root", "log"}, d \in Dirs : c.key = <<s, d, "">>
  BY <1>1 DEF Shaped
<1>3. <<s, d, "">>[1] = s /\ <<s, d, "">>[2] = d
  OBVIOUS
<1>4. Rank(c) = 2 * d + (IF s = "log" THEN 1 ELSE 0)
  BY <1>2, <1>3 DEF Rank
<1> QED
  BY <1>1, <1>2, <1>4

\* A plan selects at most one entry, whatever its window.
LEMMA SelectedOne ==
  ASSUME NEW plan, Ranked(plan), NEW k \in Selected(plan), NEW j \in Selected(plan)
  PROVE  k = j
<1> DEFINE considered == {c \in plan : Cardinality({b \in plan : b.rank < c.rank}) < MaxConsidered}
           free == {c \in considered : c.retain = "none"}
<1>1. /\ \E c \in free : c.id = k /\ \A b \in free : c.rank <= b.rank
      /\ \E c \in free : c.id = j /\ \A b \in free : c.rank <= b.rank
      /\ free \subseteq plan
  BY DEF Selected
<1> HIDE DEF free
<1>2. PICK c \in plan, b \in plan : c.id = k /\ b.id = j /\ c.rank <= b.rank /\ b.rank <= c.rank
  BY <1>1
<1>3. PICK s \in {"root", "log"}, d \in Dirs :
        c.id = <<s, d, "">> /\ c.rank = 2 * d + (IF s = "log" THEN 1 ELSE 0)
  BY DEF Ranked
<1>4. PICK t \in {"root", "log"}, e \in Dirs :
        b.id = <<t, e, "">> /\ b.rank = 2 * e + (IF t = "log" THEN 1 ELSE 0)
  BY DEF Ranked
<1>5. d \in Nat /\ e \in Nat
  BY DirsAssumption
<1>6. \A x, y \in {0, 1} : 2 * d + x <= 2 * e + y /\ 2 * e + y <= 2 * d + x => d = e /\ x = y
  BY <1>5
<1> DEFINE x == IF s = "log" THEN 1 ELSE 0
           y == IF t = "log" THEN 1 ELSE 0
<1>7. x \in {0, 1} /\ y \in {0, 1} /\ (x = y => s = t)
  OBVIOUS
<1>8. c.rank = 2 * d + x /\ b.rank = 2 * e + y
  BY <1>3, <1>4
<1> HIDE DEF x, y
<1>9. d = e /\ s = t
  BY <1>2, <1>6, <1>7, <1>8
<1> QED
  BY <1>2, <1>3, <1>4, <1>9

\* What a plan selects belongs to a run that landed, as far as was read.
LEMMA SelectedLanded ==
  ASSUME NEW f, NEW outcomes, NEW k \in Selected(CleanupPlanOf(f, outcomes))
  PROVE  "Accepted" \in outcomes[k[2]] /\ outcomes[k[2]] \cap {"Failed", "Cancelled"} = {}
<1>1. PICK m \in CleanupPlanOf(f, outcomes) : m.id = k /\ m.retain = "none"
  BY DEF Selected
<1>2. PICK c \in f.rows : c.key = k /\ retain_reason(c, outcomes) = "none"
  BY <1>1 DEF CleanupPlanOf
<1> DEFINE states == OutcomeOf(c, outcomes)
<1>3. /\ "Failed" \notin states /\ "Cancelled" \notin states
      /\ states # {} /\ "Accepted" \in states
  BY <1>2 DEF retain_reason
<1>4. states = outcomes[k[2]]
  BY <1>2, <1>3 DEF OutcomeOf
<1> QED
  BY <1>3, <1>4

\* Git's flags are the policy's.
LEMMA FlagsType ==
  ASSUME NEW O, NEW ok, NEW r, NEW c \in Facts(O, ok, r).rows
  PROVE  c.flags \subseteq Flags
<1>1. PICK o \in merge(O) : c = Row(o, ok, r)
  BY FactsRows
<1>2. c.flags = observe_entry(Entry(o, ok), r).flags
  BY <1>1, RowFacts
<1> QED
  BY <1>2 DEF observe_entry, flagged, Unknown, probe_path, git_facts, Flags

-----------------------------------------------------------------------------
(* The world's part of the types. *)
WorldOK ==
  /\ Directories
  /\ head \in Commits \ gone /\ gone \subseteq Commits
  /\ rows \subseteq RowSources \X Dirs /\ marks \subseteq {"runs", "attempts"} \X Dirs
  /\ bindings \subseteq Dirs /\ log \in [Dirs -> SUBSET ToStates]

LEMMA WorldIsTyped == InventoryInv => WorldOK
BY DEF InventoryInv, InventoryTypeOK, WorldOK

\* And the command's.
ProcessOK ==
  /\ pc \in Pcs /\ phase \in {"show", "plan", "apply"}
  /\ \A c \in todo : c.flags \subseteq Flags /\ Eligible(c)
  /\ want # {} => Cardinality(todo) <= 1
  /\ receipt \in Receipts /\ tip \in Commits \cup {NoCommit} /\ verdict \subseteq DeliveryReason
  /\ commands \in 0..MaxCommands /\ changes \in 0..MaxChanges /\ mark \in 0..changes

LEMMA TypeParts ==
  /\ WorldOK /\ ProcessOK => InventoryTypeOK /\ Directories
  /\ WorldOK' /\ ProcessOK' => InventoryTypeOK' /\ Directories'
BY DEF WorldOK, ProcessOK, InventoryTypeOK, Directories

LEMMA ProcessIsTyped == InventoryTypeOK => ProcessOK
BY DEF ProcessOK, InventoryTypeOK

-----------------------------------------------------------------------------
(* Every step keeps the invariant.                                         *)

LEMMA FirstIsOne == First \in Dirs
<1>1. \E d \in Dirs : \A e \in Dirs : d <= e
  BY DirsAssumption, LeastNatural
<1> QED
  BY <1>1 DEF First

LEMMA InventoryInitInv == InventoryInit => InventoryInv
<1> SUFFICES ASSUME InventoryInit PROVE InventoryInv
  OBVIOUS
<1>0. First \in Dirs /\ {1, 2, 3} \subseteq Commits
  BY FirstIsOne, DirsAssumption
<1>1. PICK own \in {{"generation"}, {"provisional"}, {"generation", "attempt"},
                    {"generation", "artifact"}, {"attempt"}, {}}, c \in {1, 3} :
        /\ rows = {<<s, First>> : s \in own} \cup {<<"generation", d>> : d \in Dirs \ {First}}
        /\ dir = [d \in Dirs |-> Landed(IF d = First THEN c ELSE 1)]
        /\ marks \in SUBSET {<<"runs", First>> : s \in own \ {"provisional"}}
  BY DEF InventoryInit
<1>2. Directories
  BY <1>0, <1>1 DEF Directories, Landed, Presences
<1>3. rows \subseteq RowSources \X Dirs
  <2>1. own \subseteq RowSources /\ "generation" \in RowSources
    BY DEF RowSources
  <2> QED BY <1>0, <1>1, <2>1
<1>4. marks \subseteq {"runs", "attempts"} \X Dirs
  BY <1>0, <1>1
<1>5. log \in [Dirs -> SUBSET ToStates]
  BY DEF InventoryInit, ToStates
<1>6. WorldOK
  BY <1>0, <1>2, <1>3, <1>4, <1>5 DEF InventoryInit, WorldOK
<1>7. ProcessOK
  <2>1. receipt \in Receipts
    BY DirsAssumption DEF InventoryInit
  <2>2. want = {} /\ todo = {} /\ verdict = {} /\ mark = 0 /\ changes = 0
    BY DEF InventoryInit
  <2> QED BY <2>1, <2>2, DirsAssumption DEF InventoryInit, ProcessOK, Pcs
<1>8. Reading /\ Promised /\ Chosen /\ Proved
  BY DEF InventoryInit, Reading, Promised, Chosen, Proved
<1> QED
  BY <1>2, <1>6, <1>7, <1>8, TypeParts DEF InventoryInv

\* What others change leaves the command where it is, and any check behind.
LEMMA ChangeStep ==
  ASSUME InventoryInv, Change, WorldOK'
  PROVE  InventoryInv'
<1> USE DEF process, bound, views, operator, proof
<1>1. /\ pc' = pc /\ phase' = phase /\ digest' = digest /\ want' = want
      /\ obs' = obs /\ facts' = facts /\ seen' = seen /\ todo' = todo /\ mark' = mark
      /\ shown' = shown /\ planned' = planned /\ receipt' = receipt /\ tip' = tip
      /\ verdict' = verdict /\ commands' = commands
      /\ pc # "proved" /\ changes < MaxChanges /\ changes' = changes + 1
  BY DEF Change
<1>2. ProcessOK
  BY ProcessIsTyped DEF InventoryInv
<1>3. changes \in Nat /\ changes' \in 0..MaxChanges /\ mark \in 0..changes' /\ mark # changes'
  BY <1>1, <1>2, DirsAssumption DEF ProcessOK
<1>4. ProcessOK'
  BY <1>1, <1>2, <1>3 DEF ProcessOK
<1>5. Reading' /\ Promised' /\ Proved'
  BY <1>1 DEF InventoryInv, Reading, Promised, Proved
<1>6. Chosen'
  BY <1>1, <1>3 DEF InventoryInv, Chosen
<1> QED
  BY <1>4, <1>5, <1>6, TypeParts DEF InventoryInv

LEMMA WorldStep ==
  ASSUME InventoryInv, World
  PROVE  InventoryInv'
<1>0. WorldOK /\ dir \in [Dirs -> [presence : Presences, listed : BOOLEAN, dirty : BOOLEAN,
                                   at : Commits]]
  BY WorldIsTyped DEF WorldOK, Directories
<1> USE DEF ledgerRows
<1>1. ASSUME NEW d \in Dirs, UserChanges(d) PROVE Change /\ WorldOK'
  <2>1. Directories'
    <3>1. CASE dir' = [dir EXCEPT ![d].dirty = ~@]
      BY <1>0, <3>1 DEF Directories
    <3>2. CASE dir' = [dir EXCEPT ![d].presence = "Missing"]
      BY <1>0, <3>2 DEF Directories, Presences
    <3>3. CASE dir' = [dir EXCEPT ![d].presence = "Reparse"]
      BY <1>0, <3>3 DEF Directories, Presences
    <3>4. ASSUME NEW c \in Commits, dir' = [dir EXCEPT ![d].at = c, ![d].dirty = FALSE]
          PROVE  Directories'
      <4> DEFINE R == [presence : Presences, listed : BOOLEAN, dirty : BOOLEAN, at : Commits]
                 f == [dir EXCEPT ![d] = [dir[d] EXCEPT !.at = c]]
      <4>1. [dir[d] EXCEPT !.at = c] \in R
        BY <1>0
      <4>2. f \in [Dirs -> R]
        BY <1>0, <4>1
      <4>3. dir' = [f EXCEPT ![d] = [f[d] EXCEPT !.dirty = FALSE]]
        BY <1>0, <3>4
      <4> HIDE DEF f
      <4>4. [f[d] EXCEPT !.dirty = FALSE] \in R
        BY <4>2
      <4> HIDE DEF R
      <4>5. dir' \in [Dirs -> R]
        BY <4>2, <4>3, <4>4
      <4> QED BY <4>5 DEF Directories, R
    <3> QED BY <1>1, <3>1, <3>2, <3>3, <3>4 DEF UserChanges
  <2> QED BY <1>0, <1>1, <2>1 DEF UserChanges, WorldOK
<1>2. ASSUME HeadMoves PROVE Change /\ WorldOK'
  <2>1. head' \in Commits /\ head' \notin gone /\ gone' = gone /\ dir' = dir
    BY <1>2, AncestorFacts DEF HeadMoves
  <2> QED BY <1>0, <1>2, <2>1 DEF HeadMoves, WorldOK, Directories
<1>3. ASSUME NEW c \in Commits, Prune(c) PROVE Change /\ WorldOK'
  <2>1. c # head
    BY <1>0, <1>3, AncestorFacts DEF Prune, WorldOK
  <2> QED BY <1>0, <1>3, <2>1 DEF Prune, WorldOK, Directories
<1>4. ASSUME NEW d \in Dirs, DriverChanges(d) PROVE Change /\ WorldOK'
  <2>1. rows' \subseteq RowSources \X Dirs
    BY <1>0, <1>4 DEF DriverChanges, WorldOK, RowSources
  <2> QED BY <1>0, <1>4, <2>1 DEF DriverChanges, WorldOK, Directories
<1>5. ASSUME NEW d \in Dirs, RunMoves(d) PROVE Change /\ WorldOK'
  <2>1. rows' \subseteq RowSources \X Dirs /\ log' \in [Dirs -> SUBSET ToStates]
    BY <1>0, <1>5 DEF RunMoves, WorldOK
  <2> QED BY <1>0, <1>5, <2>1 DEF RunMoves, WorldOK, Directories
<1>6. ASSUME NEW d \in Dirs, Adopts(d) PROVE Change /\ WorldOK'
  BY <1>0, <1>6 DEF Adopts, WorldOK, Directories
<1>7. ASSUME Replaced PROVE Change /\ WorldOK'
  BY <1>0, <1>7 DEF Replaced, WorldOK, Directories
<1> QED
  BY <1>1, <1>2, <1>3, <1>4, <1>5, <1>6, <1>7, ChangeStep DEF World

\* A command that is over has nothing left of what it read.
LEMMA ReturnStep ==
  ASSUME InventoryInv, Return, WorldOK', UNCHANGED <<proof, changes>>,
         commands' \in 0..MaxCommands, \A p \in planned' : Ranked(p)
  PROVE  InventoryInv'
<1> USE DEF proof
<1>1. ProcessOK
  BY ProcessIsTyped DEF InventoryInv
<1>2. /\ pc' = "idle" /\ phase' = "show" /\ want' = {} /\ obs' = {} /\ todo' = {} /\ mark' = 0
  BY DEF Return
<1>3. ProcessOK'
  <2>1. 0 \in 0..changes
    BY <1>1, DirsAssumption DEF ProcessOK
  <2> QED BY <1>1, <1>2, <2>1 DEF ProcessOK, Pcs
<1>4. Reading' /\ Promised' /\ Chosen' /\ Proved'
  BY <1>2 DEF Reading, Promised, Chosen, Proved
<1> QED
  BY <1>3, <1>4, TypeParts DEF InventoryInv

\* The facts of what was observed tell their rows apart.
LEMMA ObservedShaped ==
  ASSUME InventoryInv
  PROVE  Shaped(Observed.rows)
BY RowsShaped DEF InventoryInv, Reading, Observed

\* The steps up to the comparison of the digest.
LEMMA ReadStep ==
  ASSUME InventoryInv, Preview \/ Apply \/ Maintain \/ ReadRegistry \/ ReadLedger \/ ReadGit \/ Observe
  PROVE  InventoryInv'
<1> USE DEF process, bound, views, operator, proof, world, ledgerRows
<1>0. WorldOK /\ ProcessOK
  BY WorldIsTyped, ProcessIsTyped DEF InventoryInv
<1>w. ASSUME UNCHANGED world PROVE WorldOK'
  BY <1>0, <1>w DEF WorldOK, Directories
<1>1. ASSUME NEW p \in {"show", "plan", "apply"}, NEW d, NEW w \in planned \cup {{}}, Begin(p, d, w),
             p = "apply" => w = {} /\ d \in shown
      PROVE  InventoryInv'
  <2>1. todo = {} /\ todo' = {}
    BY <1>1 DEF InventoryInv, Chosen, Begin
  <2>2. ProcessOK'
    <3>1. commands' \in 0..MaxCommands
      BY <1>0, <1>1, DirsAssumption DEF Begin, ProcessOK
    <3>2. Cardinality({}) <= 1
      BY FS_EmptySet
    <3> QED BY <1>0, <1>1, <2>1, <3>1, <3>2 DEF Begin, ProcessOK, Pcs
  <2>3. Reading'
    BY <1>1 DEF InventoryInv, Reading, Begin
  <2>4. Promised'
    BY <1>1 DEF InventoryInv, Promised, Begin
  <2>5. Chosen' /\ Proved'
    BY <1>1, <2>1 DEF Chosen, Proved, Begin
  <2> QED BY <1>1, <1>w, <2>2, <2>3, <2>4, <2>5, TypeParts DEF InventoryInv, Begin
<1>2. CASE Preview \/ Apply \/ Maintain
  BY <1>1, <1>2 DEF Preview, Apply, Maintain
<1>3. ASSUME NEW p \in Pcs \ {"fence", "next", "remove", "proved"},
             pc \notin {"fence", "next", "remove"}, pc' = p, \A o \in obs' : Shape(o),
             p = "outcomes" => Shaped(facts'.rows),
             UNCHANGED <<world, bound, seen, todo, mark, operator, proof, commands, changes>>
      PROVE  InventoryInv'
  <2>1. todo' = {}
    BY <1>3 DEF InventoryInv, Chosen
  <2>2. ProcessOK'
    BY <1>0, <1>3 DEF ProcessOK
  <2>3. Reading' /\ Promised' /\ Proved'
    BY <1>3 DEF InventoryInv, Reading, Promised, Proved
  <2>4. Chosen'
    BY <1>3, <2>1 DEF Chosen
  <2> QED BY <1>3, <1>w, <2>2, <2>3, <2>4, TypeParts DEF InventoryInv
<1>4. \A o \in obs : Shape(o)
  BY DEF InventoryInv, Reading
<1>5. CASE ReadRegistry
  BY <1>3, <1>4, <1>5 DEF ReadRegistry, Pcs
<1>6. CASE ReadLedger
  <2>1. \A o \in obs' : Shape(o)
    BY <1>6, LedgerShape DEF ReadLedger
  <2> QED BY <1>3, <1>6, <2>1 DEF ReadLedger, Pcs
<1>7. CASE ReadGit
  <2>1. \A o \in obs' : Shape(o)
    BY <1>4, <1>7, OtherFacts DEF ReadGit
  <2> QED BY <1>3, <1>7, <2>1 DEF ReadGit, Pcs
<1>8. CASE Observe
  <2>1. obs' = obs /\ Shaped(facts'.rows)
    BY <1>8, ObservedShaped DEF Observe
  <2> QED BY <1>3, <1>4, <1>8, <2>1 DEF Observe, Pcs
<1> QED
  BY <1>2, <1>5, <1>6, <1>7, <1>8

\* A preview ends, and a plan is shown or goes on to its apply.
LEMMA ShowPlanStep ==
  ASSUME InventoryInv, Show \/ Plan
  PROVE  InventoryInv'
<1> USE DEF process, bound, views, operator, proof, world, ledgerRows
<1>0. WorldOK /\ ProcessOK
  BY WorldIsTyped, ProcessIsTyped DEF InventoryInv
<1>w. WorldOK'
  BY <1>0 DEF Show, Plan, WorldOK, Directories
<1>r. \A p \in planned : Ranked(p)
  BY DEF InventoryInv, Reading
<1>1. CASE Show
  <2>1. Return /\ UNCHANGED <<proof, changes>> /\ commands' = commands /\ planned' = planned
    BY <1>1 DEF Show
  <2> QED BY <1>0, <1>w, <1>r, <2>1, ReturnStep DEF ProcessOK
<1>2. CASE Plan
  <2> DEFINE plan == CleanupPlanOf(facts, Outcomes)
  <2>1. pc = "outcomes" /\ todo = {}
    BY <1>2 DEF Plan, InventoryInv, Chosen
  <2>2. CASE planned' = planned \cup {plan} /\ Return
    <3>1. Ranked(plan)
      BY <2>1, PlanRanked DEF InventoryInv, Reading
    <3>2. \A p \in planned' : Ranked(p)
      BY <1>r, <2>2, <3>1
    <3>3. UNCHANGED <<proof, changes>> /\ commands' = commands
      BY <1>2 DEF Plan
    <3> QED BY <1>0, <1>w, <2>2, <3>2, <3>3, ReturnStep DEF ProcessOK
  <2>3. CASE /\ want = plan /\ Selected(plan) # {}
             /\ pc' = "registry" /\ phase' = "apply" /\ digest' = facts /\ seen' = Outcomes
             /\ obs' = {} /\ UNCHANGED <<want, todo, mark, planned, shown, proof, commands, changes>>
    <3>1. want # {}
      <4>1. Selected({}) = {}
        BY DEF Selected
      <4> QED BY <2>3, <4>1
    <3>2. Promised'
      BY <2>3, <3>1 DEF InventoryInv, Promised
    <3>3. ProcessOK'
      BY <1>0, <2>3 DEF ProcessOK, Pcs
    <3>4. Reading' /\ Chosen' /\ Proved'
      BY <1>r, <2>1, <2>3 DEF Reading, Chosen, Proved
    <3> QED BY <1>w, <3>2, <3>3, <3>4, TypeParts DEF InventoryInv
  <2> QED BY <1>2, <2>2, <2>3 DEF Plan
<1> QED
  BY <1>1, <1>2

\* An apply goes on with the facts it is bound to, or ends.
LEMMA CompareStep ==
  ASSUME InventoryInv, Compare \/ Fence
  PROVE  InventoryInv'
<1> USE DEF process, bound, views, operator, proof, world, ledgerRows
<1>0. WorldOK /\ ProcessOK
  BY WorldIsTyped, ProcessIsTyped DEF InventoryInv
<1>w. WorldOK'
  BY <1>0 DEF Compare, Fence, WorldOK, Directories
<1>r. \A p \in planned : Ranked(p)
  BY DEF InventoryInv, Reading
<1>1. CASE Return
  <2>1. UNCHANGED <<proof, changes>> /\ commands' = commands /\ planned' = planned
    BY DEF Compare, Fence
  <2> QED BY <1>0, <1>w, <1>r, <1>1, <2>1, ReturnStep DEF ProcessOK
<1>2. CASE Fence /\ ~Return
  <2>1. pc = "fence" /\ pc' = "next" /\ UNCHANGED <<process, operator, proof, commands, changes>>
    BY <1>2 DEF Fence
  <2>2. ProcessOK'
    BY <1>0, <2>1 DEF ProcessOK, Pcs
  <2>3. Reading' /\ Promised' /\ Chosen' /\ Proved'
    BY <2>1 DEF InventoryInv, Reading, Promised, Chosen, Proved
  <2> QED BY <1>w, <2>2, <2>3, TypeParts DEF InventoryInv
<1>3. CASE Compare /\ ~Return
  <2> DEFINE chosen == {c \in Observed.rows : Eligible(c) /\ (want # {} => c.key \in Selected(want))}
  <2>1. /\ pc = "observe" /\ phase = "apply" /\ Observed = digest /\ pc' = "fence" /\ todo' = chosen
        /\ UNCHANGED <<bound, views, facts, seen, mark, operator, proof, commands, changes>>
    BY <1>3 DEF Compare
  <2>2. \A c \in chosen : c.flags \subseteq Flags /\ Eligible(c)
    BY FlagsType DEF Observed
  <2>3. ASSUME want # {} PROVE \A c, b \in chosen : c = b
    <3>1. Ranked(want)
      BY <1>r, <2>3 DEF InventoryInv, Promised
    <3>2. \A c, b \in chosen : c.key = b.key
      BY <2>3, <3>1, SelectedOne
    <3> QED BY <3>2, ObservedShaped DEF Shaped
  <2>4. want # {} => Cardinality(chosen) <= 1
    <3> HIDE DEF chosen
    <3>1. CASE chosen = {}
      BY <3>1, FS_EmptySet
    <3>2. ASSUME NEW c \in chosen, want # {} PROVE Cardinality(chosen) <= 1
      <4>1. chosen = {c}
        BY <2>3, <3>2
      <4>2. Cardinality({c}) = 1
        BY ONLY FS_Singleton
      <4> QED BY <4>1, <4>2
    <3> QED BY <3>1, <3>2
  <2>5. ProcessOK'
    <3> HIDE DEF chosen
    <3> QED BY <1>0, <2>1, <2>2, <2>4 DEF ProcessOK, Pcs
  <2>6. Chosen'
    <3>1. \A c \in chosen : c \in digest.rows /\ (want # {} => c.key \in Selected(want))
      BY <2>1
    <3> HIDE DEF chosen
    <3> QED BY <2>1, <2>3, <3>1 DEF Chosen
  <2>7. Reading' /\ Promised' /\ Proved'
    <3> HIDE DEF chosen
    <3> QED BY <2>1 DEF InventoryInv, Reading, Promised, Proved
  <2> QED BY <1>w, <2>5, <2>6, <2>7, TypeParts DEF InventoryInv
<1> QED
  BY <1>1, <1>2, <1>3

\* A candidate is checked under the fence, and then it goes.
LEMMA RemovalStep ==
  ASSUME InventoryInv, NEW c \in todo, Validate(c) \/ Remove(c)
  PROVE  InventoryInv'
<1> USE DEF process, bound, views, operator, proof, world, ledgerRows
<1>0. WorldOK /\ ProcessOK
  BY WorldIsTyped, ProcessIsTyped DEF InventoryInv
<1>r. \A p \in planned : Ranked(p)
  BY DEF InventoryInv, Reading
<1>a. /\ \A b \in todo : b \in digest.rows /\ (want # {} => b.key \in Selected(want))
      /\ want # {} => \A d, b \in todo : d = b
  BY DEF InventoryInv, Chosen
<1>w. WorldOK'
  <2>1. CASE Validate(c)
    BY <1>0, <2>1 DEF Validate, WorldOK, Directories
  <2>2. CASE Remove(c)
    <3> DEFINE R == [presence : Presences, listed : BOOLEAN, dirty : BOOLEAN, at : Commits]
               d == c.key[2]
               f == [dir EXCEPT ![d] = [dir[d] EXCEPT !.presence = "Missing"]]
    <3>1. dir \in [Dirs -> R] /\ UNCHANGED <<head, gone, registry, root, ledger, ledgerRows>>
      BY <1>0, <2>2 DEF Remove, WorldOK, Directories
    <3>2. CASE dir' = dir
      BY <1>0, <3>1, <3>2 DEF WorldOK, Directories
    <3>3. CASE dir' = [dir EXCEPT ![d].presence = "Missing", ![d].listed = FALSE]
      <4>1. f \in [Dirs -> R]
        BY <3>1 DEF Presences
      <4>2. dir' = [f EXCEPT ![d] = [f[d] EXCEPT !.listed = FALSE]]
        BY <3>1, <3>3
      <4> HIDE DEF f
      <4>3. \A e \in Dirs : [f[e] EXCEPT !.listed = FALSE] \in R
        BY <4>1
      <4> HIDE DEF R, d
      <4>4. dir' \in [Dirs -> R]
        BY <4>1, <4>2, <4>3
      <4> QED BY <1>0, <3>1, <4>4 DEF WorldOK, Directories, R
    <3> QED BY <2>2, <3>2, <3>3 DEF Remove
  <2> QED BY <2>1, <2>2
<1>1. CASE Return
  <2>1. UNCHANGED <<proof, changes>> /\ commands' = commands /\ planned' = planned
    BY DEF Validate, Remove
  <2> QED BY <1>0, <1>w, <1>r, <1>1, <2>1, ReturnStep DEF ProcessOK
<1>2. CASE Validate(c) /\ ~Return
  <2>1. /\ pc = "next" /\ Valid(c) /\ pc' = "remove" /\ mark' = changes
        /\ facts' = [NoFacts EXCEPT !.rows = {c}]
        /\ UNCHANGED <<world, bound, views, seen, todo, operator, proof, commands, changes>>
    BY <1>2 DEF Validate
  <2>2. facts'.rows = {c}
    BY <2>1 DEF NoFacts
  <2>3. Removable(c)'
    <3>1. \A d \in Dirs : dir[d].at \in Commits
      BY <1>0 DEF WorldOK, Directories
    <3>2. Removable(c)
      BY <2>1, <3>1, RemovableFacts DEF Valid
    <3> QED BY <2>1, <3>2 DEF Removable, Named, RowsOf, legacy_run
  <2>4. ProcessOK'
    <3>1. changes \in 0..changes
      BY <1>0, DirsAssumption DEF ProcessOK
    <3> QED BY <1>0, <2>1, <3>1 DEF ProcessOK, Pcs
  <2>5. Reading' /\ Promised' /\ Proved'
    BY <2>1 DEF InventoryInv, Reading, Promised, Proved
  <2>6. Chosen'
    <3>1. phase' = "apply"
      BY <2>1 DEF InventoryInv, Chosen
    <3> QED BY <1>a, <2>1, <2>2, <2>3, <3>1 DEF Chosen
  <2> QED BY <1>w, <2>4, <2>5, <2>6, TypeParts DEF InventoryInv
<1>3. CASE Remove(c) /\ ~Return
  <2>1. /\ pc = "remove" /\ pc' = "next" /\ todo' = todo \ {c} /\ mark' = 0
        /\ UNCHANGED <<bound, views, seen, operator, proof, commands, changes>>
    BY <1>3 DEF Remove
  <2>2. todo' \subseteq todo
    BY <2>1
  <2>3. ProcessOK'
    <3>1. 0 \in 0..changes
      BY <1>0, DirsAssumption DEF ProcessOK
    <3>2. want # {} => Cardinality(todo') <= 1
      <4>1. CASE want # {}
        <5>1. todo' = {}
          BY <1>a, <2>1, <4>1
        <5> QED BY <5>1, FS_EmptySet
      <4> QED BY <4>1
    <3> QED BY <1>0, <2>1, <2>2, <3>1, <3>2 DEF ProcessOK, Pcs
  <2>4. Reading' /\ Promised' /\ Proved'
    BY <2>1 DEF InventoryInv, Reading, Promised, Proved
  <2>5. Chosen'
    <3>1. phase' = "apply"
      BY <2>1 DEF InventoryInv, Chosen
    <3> QED BY <1>a, <2>1, <2>2, <3>1 DEF Chosen
  <2> QED BY <1>w, <2>3, <2>4, <2>5, TypeParts DEF InventoryInv
<1> QED
  BY <1>1, <1>2, <1>3

\* A receipt is proved from what its ref resolved to.
LEMMA ProofStep ==
  ASSUME InventoryInv, Prove \/ \E r \in Receipts : Resolve(r)
  PROVE  InventoryInv'
<1> USE DEF process, bound, views, operator, proof, world, ledgerRows
<1>0. WorldOK /\ ProcessOK
  BY WorldIsTyped, ProcessIsTyped DEF InventoryInv
<1>w. WorldOK'
  BY <1>0 DEF Prove, Resolve, WorldOK, Directories
<1>1. /\ pc \in {"idle", "prove"} /\ pc' \in {"prove", "proved"}
      /\ UNCHANGED <<world, process, operator, changes>>
  BY DEF Prove, Resolve
<1>2. todo = {}
  BY <1>1 DEF InventoryInv, Chosen
<1>3. ProcessOK'
  <2>1. CASE Prove
    BY <1>0, <2>1, ReasonsType DEF Prove, ProcessOK, Pcs
  <2>2. ASSUME NEW r \in Receipts, Resolve(r) PROVE ProcessOK'
    BY <1>0, <2>2, DirsAssumption DEF Resolve, ProcessOK, Pcs, WorldOK
  <2> QED BY <2>1, <2>2
<1>4. Reading' /\ Promised'
  BY <1>1 DEF InventoryInv, Reading, Promised
<1>5. Chosen'
  BY <1>1, <1>2 DEF InventoryInv, Chosen
<1>6. Proved'
  <2>1. CASE Prove
    BY <2>1 DEF Prove, Proved
  <2>2. CASE ~Prove
    BY <2>2 DEF Resolve, Proved
  <2> QED BY <2>1, <2>2
<1> QED
  BY <1>w, <1>3, <1>4, <1>5, <1>6, TypeParts DEF InventoryInv

LEMMA StutterStep ==
  ASSUME InventoryInv, UNCHANGED inventoryVars
  PROVE  InventoryInv'
<1> USE DEF process, bound, views, operator, proof, world, ledgerRows
<1>0. WorldOK /\ ProcessOK
  BY WorldIsTyped, ProcessIsTyped DEF InventoryInv
<1>1. WorldOK' /\ ProcessOK'
  BY <1>0 DEF inventoryVars, WorldOK, ProcessOK, Directories
<1>2. Reading' /\ Promised' /\ Proved'
  BY DEF inventoryVars, InventoryInv, Reading, Promised, Proved
<1>3. Chosen'
  BY DEF inventoryVars, InventoryInv, Chosen, Removable, Named, RowsOf, legacy_run
<1> QED
  BY <1>1, <1>2, <1>3, TypeParts DEF InventoryInv

\* The inductive invariant of the inventory: what is read was there, what is shown was
\* planned from it, and what is left to remove comes from what was shown.
THEOREM InventoryInvariance == InventorySpec => []InventoryInv
<1>1. InventoryInv /\ [InventoryNext]_inventoryVars => InventoryInv'
  BY StutterStep, WorldStep, ReadStep, ShowPlanStep, CompareStep, RemovalStep, ProofStep
  DEF InventoryNext, Command
<1> QED
  BY InventoryInitInv, <1>1, PTL DEF InventorySpec

-----------------------------------------------------------------------------
\* The two previews of one inventory never contradict each other: whatever was discovered
\* and merged, what may be removed is not open to adoption, and what is held back for its
\* ownership is; and a maintenance has at most one removal ahead of it.
THEOREM PreviewsAgree == InventorySpec => []InventoryAgrees
<1>1. ASSUME NEW c \in FactsNow.rows
      PROVE  /\ Eligible(c) => ~adoption_candidate(c)
             /\ "ambiguous-ownership" \in reasons_for(c) => adoption_candidate(c)
  <2>1. \E o, ok : c = Row(o, ok, registry)
    BY FactsRows DEF FactsNow
  <2> QED BY <2>1, AdoptOrCleanRow
<1>2. AdoptOrClean
  BY <1>1 DEF AdoptOrClean
<1>3. InventoryInv => InventoryAgrees
  BY <1>2 DEF InventoryInv, InventoryAgrees
<1> QED
  BY <1>3, InventoryInvariance, PTL

\* A delivery receipt that passes is about content its destination contained when the ref
\* was resolved, and about objects that are still there.
THEOREM PassedLanded == InventorySpec => []PassedMeansLanded
<1>1. InventoryInv => PassedMeansLanded
  <2> SUFFICES ASSUME InventoryInv, pc = "proved", verdict = {} PROVE PassedMeansLanded
    BY DEF PassedMeansLanded
  <2>1. /\ receipt \in DeliveryReceipt /\ tip \in Commits \cup {NoCommit}
        /\ prove_delivery_receipt(receipt, tip, gone, dir[First].dirty) = {}
    BY DirsAssumption DEF InventoryInv, InventoryTypeOK, Proved
  <2> QED BY <2>1, PassFacts DEF PassedMeansLanded
<1> QED
  BY <1>1, InventoryInvariance, PTL

\* Which step takes a worktree off git's list, and what is known of it then.
LEMMA RemovesFacts ==
  ASSUME InventoryInv, [InventoryNext]_inventoryVars, NEW d \in Dirs, Removes(d)
  PROVE  \E c \in todo : /\ pc = "remove" /\ c.key[2] = d /\ facts.rows = {c}
                         /\ c \in digest.rows /\ Eligible(c)
                         /\ want # {} => c.key \in Selected(want)
                         /\ Undisturbed => Removable(c)
<1> USE DEF process, bound, views, operator, proof, world, ledgerRows
<1>0. dir \in [Dirs -> [presence : Presences, listed : BOOLEAN, dirty : BOOLEAN, at : Commits]]
  BY DEF InventoryInv, Directories
<1>1. dir[d].listed /\ ~dir'[d].listed
  BY DEF Removes
<1>2. dir' # dir
  BY <1>1
<1>3. ~(\E e \in Dirs : UserChanges(e))
  <2> SUFFICES ASSUME NEW e \in Dirs, UserChanges(e) PROVE dir'[d].listed = dir[d].listed
    BY <1>1
  <2>1. \/ dir' = [dir EXCEPT ![e].dirty = ~@]
        \/ dir' = [dir EXCEPT ![e].presence = "Missing"]
        \/ dir' = [dir EXCEPT ![e].presence = "Reparse"]
        \/ \E c \in Commits : dir' = [dir EXCEPT ![e].at = c, ![e].dirty = FALSE]
    BY DEF UserChanges
  <2>2. ASSUME NEW c, dir' = [dir EXCEPT ![e].at = c, ![e].dirty = FALSE]
        PROVE  dir'[d].listed = dir[d].listed
    <3> DEFINE f == [dir EXCEPT ![e] = [dir[e] EXCEPT !.at = c]]
    <3>1. DOMAIN f = Dirs /\ \A b \in Dirs : f[b].listed = dir[b].listed
      BY <1>0
    <3>2. dir' = [f EXCEPT ![e] = [f[e] EXCEPT !.dirty = FALSE]]
      BY <1>0, <2>2
    <3>3. "listed" \in DOMAIN f[e] /\ [f[e] EXCEPT !.dirty = FALSE].listed = f[e].listed
      BY <1>0
    <3> HIDE DEF f
    <3> QED BY <3>1, <3>2, <3>3
  <2>3. CASE dir' = [dir EXCEPT ![e].dirty = ~@]
    BY <1>0, <2>3
  <2>4. CASE dir' = [dir EXCEPT ![e].presence = "Missing"]
    BY <1>0, <2>4
  <2>5. CASE dir' = [dir EXCEPT ![e].presence = "Reparse"]
    BY <1>0, <2>5
  <2> QED BY <2>1, <2>2, <2>3, <2>4, <2>5
<1>4. PICK c \in todo : Remove(c)
  <2>1. ~World
    BY <1>2, <1>3 DEF World, HeadMoves, Prune, DriverChanges, RunMoves, Adopts, Replaced
  <2>2. ~(Prove \/ \E r \in Receipts : Resolve(r)) /\ ~UNCHANGED inventoryVars
    BY <1>2 DEF Prove, Resolve, inventoryVars
  <2>3. Command
    BY <2>1, <2>2 DEF InventoryNext
  <2>4. ~(\/ Preview \/ Apply \/ Maintain \/ ReadRegistry \/ ReadLedger \/ ReadGit
          \/ Show \/ Observe \/ Plan \/ Compare \/ Fence)
    BY <1>2 DEF Preview, Apply, Maintain, Begin, ReadRegistry, ReadLedger, ReadGit, Show, Observe,
       Plan, Compare, Fence
  <2>5. ~(\E c \in todo : Validate(c))
    BY <1>2 DEF Validate
  <2> QED BY <2>3, <2>4, <2>5 DEF Command
<1>5. pc = "remove" /\ c \in facts.rows
  BY <1>4 DEF Remove
<1>6. PICK b \in todo : facts.rows = {b} /\ (mark = changes => Removable(b))
  BY <1>5 DEF InventoryInv, Chosen
<1>7. c.key[2] = d
  <2>1. dir' = [dir EXCEPT ![c.key[2]].presence = "Missing", ![c.key[2]].listed = FALSE]
    BY <1>2, <1>4 DEF Remove
  <2> QED BY <1>0, <1>1, <2>1
<1>8. c \in digest.rows /\ Eligible(c) /\ (want # {} => c.key \in Selected(want))
  BY DEF InventoryInv, Chosen, InventoryTypeOK
<1> QED
  BY <1>5, <1>6, <1>7, <1>8 DEF Undisturbed

\* Cleanup and maintenance remove only what the ledger owns, clean and contained in HEAD if
\* nobody interferes after the check, only what the operator was shown, and for maintain
\* only what belongs to a run that landed: for any inventory and any commands.
THEOREM OwnedRemovals == InventorySpec => RemovalIsOwned
<1> DEFINE Owns == \A d \in Dirs : Removes(d) /\ Undisturbed =>
             /\ registry = "ours" /\ ledger = "bound" /\ d \notin Outside /\ Named(d)
             /\ \A c \in facts.rows : c.key[1] = "root" => root = "same"
             /\ ~dir[d].dirty /\ is_ancestor(dir[d].at, head)
           Shown == \A d \in Dirs : Removes(d) =>
             IF want = {}
               THEN \E f \in shown : \E c \in f.rows :
                      /\ c.key[2] = d /\ Eligible(c)
                      /\ Undisturbed => c.commit = dir[d].at
               ELSE \E p \in planned : \E k \in Selected(p) : k[2] = d
           Lands == \A d \in Dirs : Removes(d) /\ want # {} =>
             "Accepted" \in seen[d] /\ seen[d] \cap {"Failed", "Cancelled"} = {}
<1>1. InventoryInv /\ [InventoryNext]_inventoryVars => Owns
  <2> SUFFICES ASSUME InventoryInv, [InventoryNext]_inventoryVars, NEW d \in Dirs, Removes(d), Undisturbed
               PROVE  /\ registry = "ours" /\ ledger = "bound" /\ d \notin Outside /\ Named(d)
                      /\ \A c \in facts.rows : c.key[1] = "root" => root = "same"
                      /\ ~dir[d].dirty /\ is_ancestor(dir[d].at, head)
    OBVIOUS
  <2>1. PICK c \in todo : c.key[2] = d /\ facts.rows = {c} /\ Removable(c)
    BY RemovesFacts
  <2> QED BY <2>1 DEF Removable
<1>2. InventoryInv /\ [InventoryNext]_inventoryVars => Shown
  <2> SUFFICES ASSUME InventoryInv, [InventoryNext]_inventoryVars, NEW d \in Dirs, Removes(d)
               PROVE  IF want = {}
                        THEN \E f \in shown : \E c \in f.rows :
                               /\ c.key[2] = d /\ Eligible(c)
                               /\ Undisturbed => c.commit = dir[d].at
                        ELSE \E p \in planned : \E k \in Selected(p) : k[2] = d
    OBVIOUS
  <2>1. PICK c \in todo : /\ pc = "remove" /\ c.key[2] = d /\ c \in digest.rows /\ Eligible(c)
                          /\ want # {} => c.key \in Selected(want)
                          /\ Undisturbed => Removable(c)
    BY RemovesFacts
  <2>2. phase = "apply"
    BY <2>1 DEF InventoryInv, Chosen
  <2>3. CASE want = {}
    <3>1. digest \in shown
      BY <2>2, <2>3 DEF InventoryInv, Promised
    <3> QED BY <2>1, <2>3, <3>1 DEF Removable
  <2>4. CASE want # {}
    <3>1. want \in planned
      BY <2>4 DEF InventoryInv, Promised
    <3> QED BY <2>1, <2>4, <3>1
  <2> QED BY <2>3, <2>4
<1>3. InventoryInv /\ [InventoryNext]_inventoryVars => Lands
  <2> SUFFICES ASSUME InventoryInv, [InventoryNext]_inventoryVars, NEW d \in Dirs, Removes(d), want # {}
               PROVE  "Accepted" \in seen[d] /\ seen[d] \cap {"Failed", "Cancelled"} = {}
    OBVIOUS
  <2>1. PICK c \in todo : pc = "remove" /\ c.key[2] = d /\ c.key \in Selected(want)
    BY RemovesFacts
  <2>2. want = CleanupPlanOf(digest, seen)
    BY <2>1 DEF InventoryInv, Chosen, Promised
  <2> QED BY <2>1, <2>2, SelectedLanded
<1>4. InventorySpec => [][Owns]_inventoryVars /\ [][Shown]_inventoryVars /\ [][Lands]_inventoryVars
  <2> HIDE DEF Owns, Shown, Lands
  <2> QED BY <1>1, <1>2, <1>3, InventoryInvariance, PTL DEF InventorySpec
<1> QED
  BY <1>4, PTL DEF RemovalIsOwned, OnlyOwnedRemoved, RemovedAsShown, MaintainRemovesLanded

=============================================================================
