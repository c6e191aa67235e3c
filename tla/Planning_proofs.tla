-------------------------- MODULE Planning_proofs ---------------------------
(***************************************************************************)
(* Proofs about planning: the session that has a plan made, and the gate   *)
(* the plan passes before and while it is driven.                          *)
(***************************************************************************)
EXTENDS PlanGate, PlannerSession, FiniteSetTheorems, SequenceTheorems, TLAPS

-----------------------------------------------------------------------------
(* The plan gate                                                           *)

Plans == Seq(Node(Ids, {NoTag}))
Complete(g) == validate(g) /\ \A n \in nodes(g) : n.tier \in Tiers
GoodPlans == {g \in Plans : Complete(g)}
GoodRows == {NoRow} \cup [state : PlanStates, plan : GoodPlans]
Folds == [Ids -> TaskStates \cup {NoRecord}]

\* What a command process holds, and the checks behind each program point.
Held == [kind : {"none", "review", "run", "reset", "mutate"}, pc : Pcs,
         file : Files \cup {<<>>}, decision : Decisions, row : GoodRows, graph : Plans,
         tasks : Folds, mutation : Mutations \cup {NoMutation}, review : BOOLEAN]
Checked(r) ==
  /\ r.pc \in {"stage", "stage-save", "start", "start-save"} =>
       r.file \in Files /\ validate(r.file)
  /\ r.pc = "stage-save" => r.row.state # "PlanAccepted"
  /\ r.pc = "start-save" => r.row = NoRow
  /\ r.pc = "decide-save" =>
       r.row # NoRow /\ plan_transition(r.row.state, r.decision) # "NoRow"
  /\ r.pc \in {"row", "graph", "tasks", "mutate"} => r.kind = "mutate" /\ r.mutation \in Mutations
  /\ r.pc \in {"graph", "tasks", "mutate"} => r.row # NoRow
  /\ r.pc = "mutate" => Mutable(r.mutation, r.tasks) /\ MutationApplies(r.graph, r.mutation)
Cmds == {r \in Held : Checked(r)}

Typed ==
  /\ row \in GoodRows /\ integ \in BOOLEAN /\ corrupt \in BOOLEAN /\ overlap \in BOOLEAN
  /\ st \in Folds /\ dst \in Folds
  /\ cmd \in [Commands -> Cmds]
  /\ dpc \in {"off", "load", "graph", "fold", "work"}
  /\ held \subseteq Ids /\ issued \in 0..MaxCommands /\ events \in 0..MaxEvents

\* Without overlapping writes nothing changes under a tick.
Untouched ==
  /\ ~corrupt
  /\ row.state = "PlanAccepted" => held = {}
  /\ dpc \in {"graph", "fold", "work"} => row.state = "PlanAccepted"
  /\ dpc \in {"fold", "work"} => dplan = row.plan
  /\ dpc = "work" => dst = st

IInv == Typed /\ (~overlap => Untouched)

-----------------------------------------------------------------------------
(* Plans: what assign_tiers and apply_mutation give. *)

\* A function on 1..n is a sequence of length n.
LEMMA SequenceOf ==
  ASSUME NEW T, NEW n \in Nat, NEW f \in [1..n -> T]
  PROVE  f \in Seq(T) /\ Len(f) = n /\ DOMAIN f = 1..n
  <1>1. f \in Seq(T)
    BY SeqDef
  <1>2. DOMAIN f = 1..n /\ DOMAIN f = 1..Len(f) /\ Len(f) \in Nat
    BY <1>1
  <1>. QED BY <1>1, <1>2

\* Nodes and dependencies by position.
LEMMA Positions ==
  ASSUME NEW g, NEW h, DOMAIN h = DOMAIN g,
         \A i \in DOMAIN g : h[i].id = g[i].id /\ h[i].deps = g[i].deps
  PROVE  /\ IdsOf(h) = IdsOf(g)
         /\ \A t : DepsOf(h, t) = DepsOf(g, t)
  <1>1. IdsOf(h) = IdsOf(g)
    BY DEF IdsOf, nodes
  <1>2. ASSUME NEW t PROVE DepsOf(h, t) = DepsOf(g, t)
    BY DEF DepsOf, nodes
  <1>. QED BY <1>1, <1>2

\* assign_tiers keeps a valid plan valid, gives every node a tier, and leaves
\* ids and dependencies alone.
LEMMA TiersComplete ==
  ASSUME NEW g \in Plans, validate(g)
  PROVE  /\ assign_tiers(g) \in GoodPlans
         /\ IdsOf(assign_tiers(g)) = IdsOf(g)
         /\ \A t : DepsOf(assign_tiers(g), t) = DepsOf(g, t)
  <1>. DEFINE h == assign_tiers(g)
  <1>1. /\ DOMAIN h = DOMAIN g /\ DOMAIN g = 1..Len(g) /\ Len(g) \in Nat
        /\ \A i \in DOMAIN g : g[i] \in Node(Ids, {NoTag})
    BY DEF assign_tiers, Plans
  <1>2. ASSUME NEW i \in DOMAIN g
        PROVE  /\ h[i] \in Node(Ids, {NoTag}) /\ h[i].tier \in Tiers
               /\ h[i].id = g[i].id /\ h[i].deps = g[i].deps /\ h[i].gate = g[i].gate
               /\ g[i].tier # NoTier => h[i].tier = g[i].tier
    <2>1. DefaultTier(g, g[i].id) \in Tiers
      BY DEF DefaultTier, Tiers
    <2>2. g[i] \in Node(Ids, {NoTag})
      BY <1>1
    <2>3. CASE g[i].tier = NoTier
      <3>1. h[i] = [g[i] EXCEPT !.tier = DefaultTier(g, g[i].id)]
        BY <2>3 DEF assign_tiers
      <3>. QED BY <2>1, <2>2, <2>3, <3>1 DEF Node
    <2>4. CASE g[i].tier # NoTier
      <3>1. h[i] = g[i]
        BY <2>4 DEF assign_tiers
      <3>. QED BY <2>2, <2>4, <3>1 DEF Node
    <2>. QED BY <2>3, <2>4
  <1>. HIDE DEF h
  <1>3. IdsOf(h) = IdsOf(g) /\ \A t : DepsOf(h, t) = DepsOf(g, t)
    BY <1>1, <1>2, Positions
  <1>4. h \in Plans
    <2>1. h = [i \in 1..Len(g) |-> h[i]]
      BY <1>1 DEF h, assign_tiers
    <2>2. h \in [1..Len(g) -> Node(Ids, {NoTag})]
      BY <1>1, <1>2, <2>1
    <2>. QED BY <1>1, <2>2, SequenceOf DEF Plans
  <1>5. h # <<>>
    BY <1>1 DEF validate, Plans
  <1>6. \A n \in nodes(h) : /\ n.tier \in Tiers /\ n.id # 0 /\ (n.gate = "verify" => n.tier \in {1, 2})
                            /\ n.deps \subseteq IdsOf(h)
    <2>. SUFFICES ASSUME NEW i \in DOMAIN h
         PROVE  /\ h[i].tier \in Tiers /\ h[i].id # 0
                /\ h[i].gate = "verify" => h[i].tier \in {1, 2}
                /\ h[i].deps \subseteq IdsOf(h)
      BY DEF nodes
    <2>1. g[i] \in nodes(g)
      BY <1>1 DEF nodes
    <2>. QED BY <1>1, <1>2, <1>3, <2>1 DEF validate, NoTier
  <1>7. NoDuplicates(h)
    BY <1>1, <1>2 DEF validate, NoDuplicates
  <1>8. Acyclic(h)
    BY <1>3 DEF validate, Acyclic
  <1>. QED BY <1>3, <1>4, <1>5, <1>6, <1>7, <1>8 DEF GoodPlans, Complete, validate, h

\* The mutated plan is typed, keeps the nodes it had, and the dependencies of
\* all but the node a prerequisite is inserted before.
LEMMA MutatedKeeps ==
  ASSUME NEW g \in Plans, NEW m \in Mutations, MutationApplies(g, m)
  PROVE  /\ Mutated(g, m) \in Plans /\ validate(Mutated(g, m))
         /\ IdsOf(m.new) \subseteq Ids
         /\ \A t \in IdsOf(g) :
              /\ t \in IdsOf(Mutated(g, m))
              /\ \/ m.kind = "InsertPrerequisite" /\ t = m.task
                 \/ DepsOf(Mutated(g, m), t) = DepsOf(g, t)
  <1>. DEFINE S == Node(Ids, {NoTag})
  <1>1. /\ g \in Seq(S) /\ m.new \in Seq(S) /\ m.task \in Ids /\ m.kind \in MutationKinds
        /\ validate(Mutated(g, m))
        /\ \A n \in nodes(m.new) : n.id \notin IdsOf(g)
    <2>1. m.new \in Seq(S) /\ m.task \in Ids /\ m.kind \in MutationKinds
      BY InputsAssumption
    <2>. QED BY <2>1 DEF Plans, MutationApplies
  <1>2. IdsOf(m.new) \subseteq Ids
    <2>1. \A i \in DOMAIN m.new : m.new[i] \in S
      BY <1>1
    <2>2. \A i \in DOMAIN m.new : m.new[i].id \in Ids
      BY <2>1 DEF Node
    <2>. QED BY <2>2 DEF IdsOf, nodes
  <1>3. ASSUME NEW a \in Seq(S), NEW b \in Seq(S), Len(a) = Len(g), Len(b) = Len(m.new),
               \A i \in DOMAIN g : a[i].id = g[i].id,
               \A i \in DOMAIN b : b[i].id = m.new[i].id
        PROVE  /\ a \o b \in Seq(S)
               /\ \A n : n \in nodes(a \o b) <=> n \in nodes(a) \/ n \in nodes(b)
               /\ IdsOf(g) \subseteq IdsOf(a \o b)
               /\ \A t \in IdsOf(g) : \A n \in nodes(b) : n.id # t
    <2>1. a \o b \in Seq(S) /\ nodes(a \o b) = nodes(a) \cup nodes(b)
      <3>1. a \o b \in Seq(S) /\ Len(a \o b) = Len(a) + Len(b)
            /\ \A i \in 1..Len(a) + Len(b) :
                 (a \o b)[i] = IF i <= Len(a) THEN a[i] ELSE b[i - Len(a)]
        BY ConcatProperties
      <3>2. DOMAIN (a \o b) = 1..Len(a) + Len(b) /\ DOMAIN a = 1..Len(a) /\ DOMAIN b = 1..Len(b)
            /\ Len(a) \in Nat /\ Len(b) \in Nat
        BY <3>1
      <3>3. ASSUME NEW i \in DOMAIN (a \o b) PROVE (a \o b)[i] \in nodes(a) \cup nodes(b)
        <4>1. CASE i <= Len(a)
          BY <3>1, <3>2, <4>1 DEF nodes
        <4>2. CASE ~(i <= Len(a))
          <5>1. i - Len(a) \in DOMAIN b /\ (a \o b)[i] = b[i - Len(a)]
            BY <3>1, <3>2, <4>2
          <5>. QED BY <5>1 DEF nodes
        <4>. QED BY <4>1, <4>2
      <3>4. ASSUME NEW i \in DOMAIN a PROVE a[i] \in nodes(a \o b)
        <4>1. i \in DOMAIN (a \o b) /\ (a \o b)[i] = a[i]
          BY <3>1, <3>2
        <4>. QED BY <4>1 DEF nodes
      <3>5. ASSUME NEW i \in DOMAIN b PROVE b[i] \in nodes(a \o b)
        <4>1. i + Len(a) \in DOMAIN (a \o b) /\ (a \o b)[i + Len(a)] = b[i]
          BY <3>1, <3>2
        <4>. QED BY <4>1 DEF nodes
      <3>. QED BY <3>1, <3>3, <3>4, <3>5 DEF nodes
    <2>2. DOMAIN a = DOMAIN g /\ DOMAIN b = DOMAIN m.new
      BY <1>1, <1>3
    <2>3. \A i \in DOMAIN g : a[i] \in nodes(a \o b)
      BY <2>1, <2>2 DEF nodes
    <2>4. IdsOf(g) \subseteq IdsOf(a \o b)
      BY <1>3, <2>3 DEF IdsOf, nodes
    <2>5. \A t \in IdsOf(g) : \A n \in nodes(b) : n.id # t
      BY <1>1, <1>3, <2>2 DEF nodes
    <2>. QED BY <2>1, <2>4, <2>5
  <1>4. CASE m.kind = "InsertPrerequisite"
    <2>. DEFINE a == [i \in DOMAIN g |-> IF g[i].id = m.task
                        THEN [g[i] EXCEPT !.deps = @ \cup Terminals(m.new)] ELSE g[i]]
    <2>1. Mutated(g, m) = a \o m.new
      BY <1>4 DEF Mutated, InsertPrerequisite
    <2>2. Terminals(m.new) \subseteq Ids
      BY <1>2 DEF Terminals, IdsOf
    <2>3. ASSUME NEW i \in DOMAIN g
          PROVE  a[i] \in S /\ a[i].id = g[i].id /\ (g[i].id # m.task => a[i] = g[i])
      <3>1. g[i] \in S
        BY <1>1
      <3>2. a[i].deps \subseteq Ids /\ a[i].deps \in SUBSET Ids
        BY <2>2, <3>1 DEF Node
      <3>. QED BY <2>2, <3>1 DEF Node
    <2>4. a \in Seq(S) /\ Len(a) = Len(g) /\ DOMAIN a = DOMAIN g
      <3>1. DOMAIN g = 1..Len(g) /\ Len(g) \in Nat
        BY <1>1
      <3>2. a \in [1..Len(g) -> S]
        BY <2>3, <3>1
      <3>. HIDE DEF a, S
      <3>. QED BY <3>1, <3>2, SequenceOf
    <2>. HIDE DEF a, S
    <2>5. /\ a \o m.new \in Seq(S) /\ IdsOf(g) \subseteq IdsOf(a \o m.new)
          /\ \A n : n \in nodes(a \o m.new) <=> n \in nodes(a) \/ n \in nodes(m.new)
          /\ \A t \in IdsOf(g) : \A n \in nodes(m.new) : n.id # t
      BY <1>1, <1>3, <2>3, <2>4
    <2>6. ASSUME NEW t \in IdsOf(g), t # m.task
          PROVE  DepsOf(a \o m.new, t) = DepsOf(g, t)
      <3>1. {n \in nodes(a \o m.new) : n.id = t} = {n \in nodes(g) : n.id = t}
        BY <2>3, <2>4, <2>5, <2>6 DEF nodes
      <3>. QED BY <3>1 DEF DepsOf
    <2>. QED BY <1>1, <1>2, <1>4, <2>1, <2>5, <2>6 DEF Plans, S
  <1>5. CASE m.kind = "AppendFollowup"
    <2>. DEFINE b == [i \in DOMAIN m.new |-> IF m.new[i].deps \cap IdsOf(m.new) = {}
                        THEN [m.new[i] EXCEPT !.deps = @ \cup {m.task}] ELSE m.new[i]]
    <2>1. Mutated(g, m) = g \o b
      BY <1>5 DEF Mutated, AppendFollowup
    <2>2. ASSUME NEW i \in DOMAIN m.new
          PROVE  b[i] \in S /\ b[i].id = m.new[i].id
      <3>1. m.new[i] \in S
        BY <1>1
      <3>. QED BY <1>1, <3>1 DEF Node
    <2>3. b \in Seq(S) /\ Len(b) = Len(m.new) /\ DOMAIN b = DOMAIN m.new
      <3>1. DOMAIN m.new = 1..Len(m.new) /\ Len(m.new) \in Nat
        BY <1>1
      <3>2. b \in [1..Len(m.new) -> S]
        BY <2>2, <3>1
      <3>. HIDE DEF b, S
      <3>. QED BY <3>1, <3>2, SequenceOf
    <2>. HIDE DEF b, S
    <2>4. /\ g \o b \in Seq(S) /\ IdsOf(g) \subseteq IdsOf(g \o b)
          /\ \A n : n \in nodes(g \o b) <=> n \in nodes(g) \/ n \in nodes(b)
          /\ \A t \in IdsOf(g) : \A n \in nodes(b) : n.id # t
      BY <1>1, <1>3, <2>2, <2>3
    <2>5. ASSUME NEW t \in IdsOf(g)
          PROVE  DepsOf(g \o b, t) = DepsOf(g, t)
      <3>1. {n \in nodes(g \o b) : n.id = t} = {n \in nodes(g) : n.id = t}
        BY <2>4, <2>5
      <3>. QED BY <3>1 DEF DepsOf
    <2>. QED BY <1>1, <1>2, <2>1, <2>4, <2>5 DEF Plans, S
  <1>. QED BY <1>1, <1>4, <1>5 DEF MutationKinds

-----------------------------------------------------------------------------
(* Every step keeps the types and the checks of the commands. *)

\* A row of a mutation or a staged plan is a good one.
LEMMA GoodRow ==
  ASSUME NEW g \in GoodPlans, NEW s \in PlanStates
  PROVE  [state |-> s, plan |-> g] \in GoodRows
  BY DEF GoodRows

\* What each row says of itself.
LEMMA RowShape ==
  ASSUME NEW r \in GoodRows, r # NoRow
  PROVE  /\ r.state \in PlanStates /\ r.plan \in GoodPlans /\ r.plan \in Plans
         /\ r = [state |-> r.state, plan |-> r.plan]
         /\ validate(r.plan)
  BY DEF GoodRows, GoodPlans, Complete

LEMMA EmptyPlan == <<>> \in Plans
  BY DEF Plans

\* A process that has ended, or has just begun.
LEMMA IdleHeld ==
  /\ Idle \in Cmds /\ NoRow \in GoodRows
  <1>1. Idle \in Held
    BY EmptyPlan DEF Idle, Held, Decisions, Pcs, GoodRows, Folds
  <1>. QED BY <1>1 DEF Cmds, Checked, Idle, GoodRows

\* A legal pair appended as the fold has it moves the task.
LEMMA RecordLog ==
  ASSUME Typed, NEW t \in Ids, NEW from \in TaskStates, NEW event,
         transition(from, event) \in TaskStates, Record(t, from, event)
  PROVE  /\ st' \in Folds /\ corrupt' \in BOOLEAN
         /\ ~corrupt /\ State(t) = from =>
              ~corrupt' /\ st' = [st EXCEPT ![t] = transition(from, event)]
  BY DEF Typed, Record, Folds

\* What a tick appends is legal for its snapshot.
LEMMA EnabledLegal ==
  ASSUME NEW t \in Ids, NEW event \in TickEvents, Enabled(t, event), dst \in Folds
  PROVE  Snap(t) \in TaskStates /\ transition(Snap(t), event) \in TaskStates
  <1>1. Snap(t) \in TaskStates
    BY DEF Snap, Folds, TaskStates
  <1>2. transition(Snap(t), event) \in TaskStates
    BY DEF Enabled, TickEvents, transition, TaskStates
  <1>. QED BY <1>1, <1>2

\* Issuing a command.
LEMMA IssueTyped ==
  ASSUME Typed, NEW c \in Commands, ReviewPlan(c) \/ RunPlan(c) \/ MutatePlan(c)
  PROVE  Typed'
  <1>1. ASSUME NEW r \in Cmds, Issue(c, r)
        PROVE  Typed'
    <2>1. issued' \in 0..MaxCommands
      BY <1>1, BoundsAssumption DEF Typed, Issue
    <2>2. cmd' \in [Commands -> Cmds]
      BY <1>1 DEF Typed, Issue, Continue
    <2>. QED BY <1>1, <2>1, <2>2 DEF Typed, Issue, driverVars
  <1>2. ASSUME NEW f \in Files, NEW d \in Decisions, validate(f)
        PROVE  [Idle EXCEPT !.kind = "review", !.pc = "stage", !.file = f, !.decision = d] \in Cmds
    <2>. DEFINE r == [Idle EXCEPT !.kind = "review", !.pc = "stage", !.file = f, !.decision = d]
    <2>1. r \in Held
      BY IdleHeld DEF Cmds, Held, Pcs
    <2>2. r.pc = "stage" /\ r.file = f
      BY DEF Idle
    <2>. QED BY <1>2, <2>1, <2>2 DEF Cmds, Checked
  <1>3. ASSUME NEW f \in Files, NEW k \in {"reset", "run"}, validate(f), row \in GoodRows
        PROVE  [Idle EXCEPT !.kind = k, !.pc = "start", !.file = f, !.row = row] \in Cmds
    <2>. DEFINE r == [Idle EXCEPT !.kind = k, !.pc = "start", !.file = f, !.row = row]
    <2>1. r \in Held
      BY <1>3, IdleHeld DEF Cmds, Held, Pcs
    <2>2. r.pc = "start" /\ r.file = f
      BY DEF Idle
    <2>. QED BY <1>3, <2>1, <2>2 DEF Cmds, Checked
  <1>4. ASSUME NEW m \in Mutations, NEW review \in BOOLEAN
        PROVE  [Idle EXCEPT !.kind = "mutate", !.pc = "row", !.mutation = m, !.review = review] \in Cmds
    <2>. DEFINE r == [Idle EXCEPT !.kind = "mutate", !.pc = "row", !.mutation = m, !.review = review]
    <2>1. r \in Held
      BY IdleHeld DEF Cmds, Held, Pcs
    <2>2. r.pc = "row" /\ r.kind = "mutate" /\ r.mutation = m
      BY DEF Idle
    <2>. QED BY <2>1, <2>2 DEF Cmds, Checked
  <1>. QED BY <1>1, <1>2, <1>3, <1>4 DEF ReviewPlan, RunPlan, MutatePlan, Typed

\* A command that goes on, or ends, and writes nothing.
LEMMA ReadTyped ==
  ASSUME Typed, NEW c \in Commands, NEW r \in Cmds, Continue(c, r),
         integ' \in BOOLEAN, dpc' \in {"off", "load", dpc},
         UNCHANGED <<row, st, corrupt, dst, held, overlap, counts>>
  PROVE  Typed'
  <1>1. cmd' \in [Commands -> Cmds]
    BY DEF Typed, Continue
  <1>. QED BY <1>1 DEF Typed, counts

\* The next program points of a command that has read.
LEMMA AfterStartHeld ==
  ASSUME Typed, NEW c \in Commands, AfterStart(c)
  PROVE  \E r \in Cmds : Continue(c, r)
  <1>. DEFINE r == [cmd[c] EXCEPT
                      !.pc = IF cmd[c].row.state = "PlanAccepted" THEN "loop" ELSE "decide",
                      !.file = <<>>, !.row = NoRow]
  <1>1. cmd[c] \in Held
    BY DEF Typed, Cmds
  <1>2. r \in Held /\ r.pc \in {"loop", "decide"}
    BY <1>1, IdleHeld DEF Held, Pcs
  <1>. QED BY <1>2 DEF Cmds, Checked, AfterStart

LEMMA StageReadTyped ==
  ASSUME Typed, NEW c \in Commands, StageRead(c)
  PROVE  Typed'
  <1>1. cmd[c] \in Held /\ Checked(cmd[c]) /\ cmd[c].pc = "stage" /\ row \in GoodRows
    BY DEF Typed, Cmds, StageRead
  <1>2. row.state # "PlanAccepted" => [cmd[c] EXCEPT !.pc = "stage-save", !.row = row] \in Cmds
    <2>. DEFINE r == [cmd[c] EXCEPT !.pc = "stage-save", !.row = row]
    <2>1. r \in Held /\ r.pc = "stage-save" /\ r.row = row /\ r.file = cmd[c].file
      BY <1>1 DEF Held, Pcs
    <2>. HIDE DEF r
    <2>2. row.state # "PlanAccepted" => r \in Cmds
      BY <1>1, <2>1 DEF Cmds, Checked
    <2>. QED BY <2>2 DEF r
  <1>3. [cmd[c] EXCEPT !.pc = "decide", !.file = <<>>] \in Cmds
    <2>. DEFINE r == [cmd[c] EXCEPT !.pc = "decide", !.file = <<>>]
    <2>1. r \in Held /\ r.pc = "decide"
      BY <1>1 DEF Held, Pcs
    <2>. QED BY <2>1 DEF Cmds, Checked
  <1>. QED
    BY <1>2, <1>3, IdleHeld, ReadTyped DEF StageRead, Finish, Continue, driverVars, Typed

LEMMA DecideReadTyped ==
  ASSUME Typed, NEW c \in Commands, DecideRead(c)
  PROVE  Typed'
  <1>1. cmd[c] \in Held /\ Checked(cmd[c]) /\ row \in GoodRows
    BY DEF Typed, Cmds, DecideRead
  <1>2. row # NoRow /\ plan_transition(row.state, cmd[c].decision) # "NoRow" =>
          [cmd[c] EXCEPT !.pc = "decide-save", !.row = row] \in Cmds
    <2>. DEFINE r == [cmd[c] EXCEPT !.pc = "decide-save", !.row = row]
    <2>1. r \in Held /\ r.pc = "decide-save" /\ r.row = row /\ r.decision = cmd[c].decision
      BY <1>1 DEF Held, Pcs
    <2>. HIDE DEF r
    <2>2. row # NoRow /\ plan_transition(row.state, cmd[c].decision) # "NoRow" => r \in Cmds
      BY <1>1, <2>1 DEF Cmds, Checked
    <2>. QED BY <2>2 DEF r
  <1>. QED
    BY <1>2, IdleHeld, ReadTyped DEF DecideRead, Finish, Continue, driverVars, Typed

LEMMA MutateReadTyped ==
  ASSUME Typed, NEW c \in Commands, MutateRow(c) \/ MutateGraph(c) \/ MutateTasks(c)
  PROVE  Typed'
  <1>1. cmd[c] \in Held /\ Checked(cmd[c]) /\ cmd[c] \in Cmds /\ row \in GoodRows /\ st \in Folds
    BY DEF Typed, Cmds
  <1>2. ASSUME MutateRow(c) PROVE Typed'
    <2>. DEFINE r == [cmd[c] EXCEPT !.pc = "graph", !.row = row]
    <2>1. r \in Held /\ r.pc = "graph" /\ r.row = row /\ r.kind = cmd[c].kind
          /\ r.mutation = cmd[c].mutation
      BY <1>1 DEF Held, Pcs
    <2>. HIDE DEF r
    <2>2. row # NoRow => r \in Cmds
      BY <1>1, <1>2, <2>1 DEF Cmds, Checked, MutateRow
    <2>3. \E q \in Cmds : Continue(c, q)
      BY <1>2, <2>2, IdleHeld DEF MutateRow, Finish, Continue, r
    <2>. QED BY <1>2, <2>3, ReadTyped DEF MutateRow, driverVars, Typed
  <1>3. ASSUME MutateGraph(c) PROVE Typed'
    <2>. DEFINE r == [cmd[c] EXCEPT !.pc = "tasks", !.graph = row.plan]
    <2>0. row.plan \in Plans
      BY <1>1, RowShape, EmptyPlan DEF NoRow
    <2>1. r \in Held /\ r.pc = "tasks" /\ r.row = cmd[c].row /\ r.kind = cmd[c].kind
          /\ r.mutation = cmd[c].mutation
      BY <1>1, <2>0 DEF Held, Pcs
    <2>. HIDE DEF r
    <2>2. r \in Cmds
      BY <1>1, <1>3, <2>1 DEF Cmds, Checked, MutateGraph
    <2>3. Continue(c, r)
      BY <1>3 DEF MutateGraph, r
    <2>. QED BY <1>3, <2>2, <2>3, ReadTyped DEF MutateGraph, driverVars, Typed
  <1>4. ASSUME MutateTasks(c) PROVE Typed'
    <2>. DEFINE r == [cmd[c] EXCEPT !.pc = "mutate", !.tasks = st]
    <2>1. r \in Held /\ r.pc = "mutate" /\ r.row = cmd[c].row /\ r.kind = cmd[c].kind
          /\ r.mutation = cmd[c].mutation /\ r.graph = cmd[c].graph /\ r.tasks = st
      BY <1>1 DEF Held, Pcs
    <2>. HIDE DEF r
    <2>2. Admitted(cmd[c].graph, cmd[c].mutation, st) => r \in Cmds
      BY <1>1, <1>4, <2>1 DEF Cmds, Checked, MutateTasks, Admitted
    <2>3. \E q \in Cmds : Continue(c, q)
      BY <1>4, <2>2, IdleHeld DEF MutateTasks, Finish, Continue, r
    <2>. QED BY <1>4, <2>3, ReadTyped DEF MutateTasks, driverVars, Typed
  <1>. QED BY <1>2, <1>3, <1>4

LEMMA StartTyped ==
  ASSUME Typed, NEW c \in Commands,
         StartExisting(c) \/ StartNew(c) \/ Loop(c) \/ CommandDies(c)
  PROVE  Typed'
  <1>1. cmd[c] \in Held /\ Checked(cmd[c]) /\ row \in GoodRows
    BY DEF Typed, Cmds
  <1>2. Finish(c) => \E q \in Cmds : Continue(c, q)
    BY IdleHeld DEF Finish, Continue
  <1>3. ASSUME StartExisting(c) PROVE Typed'
    <2>1. [cmd[c] EXCEPT !.pc = "reset"] \in Cmds
      <3>. DEFINE r == [cmd[c] EXCEPT !.pc = "reset"]
      <3>1. r \in Held /\ r.pc = "reset"
        BY <1>1 DEF Held, Pcs
      <3>. QED BY <3>1 DEF Cmds, Checked
    <2>2. \E q \in Cmds : Continue(c, q)
      BY <1>2, <1>3, <2>1, AfterStartHeld DEF StartExisting
    <2>3. integ' \in BOOLEAN
      BY <1>3 DEF StartExisting, ensure_integrate, Typed
    <2>. QED BY <1>3, <2>2, <2>3, ReadTyped DEF StartExisting, driverVars, Typed
  <1>4. ASSUME StartNew(c) PROVE Typed'
    <2>. DEFINE r == [cmd[c] EXCEPT !.pc = "start-save", !.row = NoRow]
    <2>1. r \in Held /\ r.pc = "start-save" /\ r.row = NoRow /\ r.file = cmd[c].file
      BY <1>1, IdleHeld DEF Held, Pcs
    <2>. HIDE DEF r
    <2>2. r \in Cmds
      BY <1>1, <1>4, <2>1 DEF Cmds, Checked, StartNew
    <2>3. \E q \in Cmds : Continue(c, q)
      BY <1>2, <1>4, <2>2 DEF StartNew, r
    <2>4. integ' \in BOOLEAN
      BY <1>4 DEF StartNew, Typed
    <2>. QED BY <1>4, <2>3, <2>4, ReadTyped DEF StartNew, driverVars, Typed
  <1>5. ASSUME Loop(c) PROVE Typed'
    BY <1>2, <1>5, ReadTyped DEF Loop, Typed
  <1>6. ASSUME CommandDies(c) PROVE Typed'
    BY <1>2, <1>6, ReadTyped DEF CommandDies, driverVars, Typed
  <1>. QED BY <1>3, <1>4, <1>5, <1>6

\* A command that saves the row.
LEMMA SaveTyped ==
  ASSUME Typed, NEW c \in Commands, NEW r \in Cmds, Continue(c, r),
         NEW g \in GoodRows, NEW tasks, SaveRow(c, g, tasks),
         st' \in Folds, corrupt' \in BOOLEAN, held' \subseteq Ids,
         UNCHANGED <<integ, driverVars, counts>>
  PROVE  Typed'
  <1>1. cmd' \in [Commands -> Cmds]
    BY DEF Typed, Continue
  <1>2. overlap' \in BOOLEAN /\ row' \in GoodRows
    BY DEF Typed, SaveRow, Overlaps
  <1>. QED BY <1>1, <1>2 DEF Typed, counts, driverVars

\* Staging a file, or starting with it.
LEMMA StageSaveTyped ==
  ASSUME Typed, NEW c \in Commands, StageSave(c) \/ StartSave(c)
  PROVE  Typed'
  <1>1. cmd[c] \in Held /\ cmd[c].file \in Files /\ validate(cmd[c].file)
    BY DEF Typed, Cmds, Checked, StageSave, StartSave
  <1>2. cmd[c].file \in Plans
    BY <1>1, InputsAssumption DEF Plans
  <1>3. [state |-> "AwaitingPlanReview", plan |-> assign_tiers(cmd[c].file)] \in GoodRows
    BY <1>1, <1>2, TiersComplete DEF GoodRows, PlanStates
  <1>4. IdsOf(cmd[c].file) \subseteq Ids
    <2>1. \A i \in DOMAIN cmd[c].file : cmd[c].file[i] \in Node(Ids, {NoTag})
      BY <1>2 DEF Plans
    <2>2. \A i \in DOMAIN cmd[c].file : cmd[c].file[i].id \in Ids
      BY <2>1 DEF Node
    <2>. QED BY <2>2 DEF IdsOf, nodes
  <1>5. [cmd[c] EXCEPT !.pc = "decide", !.file = <<>>, !.row = NoRow] \in Cmds
    <2>. DEFINE r == [cmd[c] EXCEPT !.pc = "decide", !.file = <<>>, !.row = NoRow]
    <2>1. r \in Held /\ r.pc = "decide"
      BY <1>1, IdleHeld DEF Held, Pcs
    <2>. QED BY <2>1 DEF Cmds, Checked
  <1>. QED BY <1>3, <1>4, <1>5, SaveTyped DEF StageSave, StartSave, Typed

LEMMA DecideSaveTyped ==
  ASSUME Typed, NEW c \in Commands, DecideSave(c)
  PROVE  Typed'
  <1>. DEFINE next == plan_transition(cmd[c].row.state, cmd[c].decision)
  <1>1. /\ cmd[c] \in Held /\ cmd[c].row \in GoodRows /\ cmd[c].row # NoRow /\ next # "NoRow"
    BY DEF Typed, Cmds, Checked, DecideSave, Held
  <1>2. next \in PlanStates
    BY <1>1 DEF plan_transition, PlanStates
  <1>3. [cmd[c].row EXCEPT !.state = next] \in GoodRows
    <2>1. cmd[c].row.plan \in GoodPlans /\ cmd[c].row = [state |-> cmd[c].row.state, plan |-> cmd[c].row.plan]
      BY <1>1, RowShape
    <2>2. [cmd[c].row EXCEPT !.state = next] = [state |-> next, plan |-> cmd[c].row.plan]
      BY <2>1
    <2>. QED BY <1>2, <2>1, <2>2, GoodRow
  <1>4. [cmd[c] EXCEPT !.pc = "loop", !.row = NoRow] \in Cmds
    <2>. DEFINE r == [cmd[c] EXCEPT !.pc = "loop", !.row = NoRow]
    <2>1. r \in Held /\ r.pc = "loop"
      BY <1>1, IdleHeld DEF Held, Pcs
    <2>. QED BY <2>1 DEF Cmds, Checked
  <1>5. \E r \in Cmds : Continue(c, r)
    BY <1>4, IdleHeld DEF DecideSave, Finish, Continue
  <1>6. held' \subseteq Ids
    <2>1. cmd[c].row.plan \in Plans
      BY <1>1, RowShape
    <2>2. IdsOf(cmd[c].row.plan) \subseteq Ids
      <3>1. \A i \in DOMAIN cmd[c].row.plan : cmd[c].row.plan[i] \in Node(Ids, {NoTag})
        BY <2>1 DEF Plans
      <3>2. \A i \in DOMAIN cmd[c].row.plan : cmd[c].row.plan[i].id \in Ids
        BY <3>1 DEF Node
      <3>. QED BY <3>2 DEF IdsOf, nodes
    <2>. QED BY <2>2 DEF DecideSave, Typed
  <1>. QED BY <1>3, <1>5, <1>6, SaveTyped DEF DecideSave, Typed

LEMMA MutateSaveTyped ==
  ASSUME Typed, NEW c \in Commands, MutateSave(c)
  PROVE  Typed'
  <1>. DEFINE m == cmd[c].mutation
              g == assign_tiers(Mutated(cmd[c].graph, m))
              next == IF cmd[c].review THEN "AwaitingPlanReview" ELSE cmd[c].row.state
  <1>1. /\ cmd[c] \in Held /\ cmd[c].row \in GoodRows /\ cmd[c].row # NoRow /\ m \in Mutations
        /\ cmd[c].graph \in Plans /\ MutationApplies(cmd[c].graph, m)
    BY DEF Typed, Cmds, Checked, MutateSave, Held
  <1>2. Mutated(cmd[c].graph, m) \in Plans /\ validate(Mutated(cmd[c].graph, m))
        /\ IdsOf(m.new) \subseteq Ids
    BY <1>1, MutatedKeeps
  <1>3. [state |-> next, plan |-> g] \in GoodRows
    <2>1. next \in PlanStates
      BY <1>1, RowShape DEF PlanStates
    <2>. QED BY <1>2, <2>1, GoodRow, TiersComplete
  <1>4. st' \in Folds /\ corrupt' \in BOOLEAN
    <2>1. CASE Reverses(m, cmd[c].tasks)
      <3>1. m.task \in Ids /\ Record(m.task, "Ready", "GraphMutated")
        BY <1>1, <2>1, InputsAssumption DEF MutateSave
      <3>2. transition("Ready", "GraphMutated") = "Pending"
        BY DEF transition
      <3>. QED BY <3>1, <3>2, RecordLog DEF TaskStates
    <2>2. CASE ~Reverses(m, cmd[c].tasks)
      BY <2>2 DEF MutateSave, Typed
    <2>. QED BY <2>1, <2>2
  <1>5. held' \subseteq Ids
    BY <1>2 DEF MutateSave, Typed
  <1>6. Continue(c, Idle) /\ SaveRow(c, [state |-> next, plan |-> g], cmd[c].tasks)
    BY DEF MutateSave, Finish, Continue
  <1>. HIDE DEF next, g
  <1>. QED BY <1>3, <1>4, <1>5, <1>6, IdleHeld, SaveTyped DEF MutateSave

LEMMA Typing ==
  ASSUME Typed, [Next]_vars
  PROVE  Typed'
  <1>1. CASE UNCHANGED vars
    BY <1>1 DEF vars, driverVars, counts, Typed
  <1>2. ASSUME NEW c \in Commands, Reset(c) PROVE Typed'
    <2>1. \E r \in Cmds : Continue(c, r)
      BY <1>2, AfterStartHeld DEF Reset
    <2>2. cmd' \in [Commands -> Cmds]
      BY <2>1 DEF Typed, Continue
    <2>3. st' \in Folds /\ corrupt' \in BOOLEAN /\ overlap' \in BOOLEAN
      BY <1>2 DEF Reset, Typed, Folds
    <2>. QED BY <1>2, <2>2, <2>3 DEF Reset, Typed, driverVars, counts
  <1>3. ASSUME NEW c \in Commands, Command(c) PROVE Typed'
    BY <1>2, <1>3, IssueTyped, StageReadTyped, StageSaveTyped, DecideReadTyped, DecideSaveTyped,
       MutateReadTyped, MutateSaveTyped, StartTyped DEF Command, Review, Mutate
  <1>4. CASE Resume \/ TickGate \/ TickGraph \/ TickFold \/ DriverStops
    BY <1>4 DEF Resume, TickGate, TickGraph, TickFold, DriverStops, EndTick, counts, Typed, Folds
  <1>5. ASSUME NEW t \in Ids, TickAppend(t) PROVE Typed'
    <2>1. st' \in Folds /\ corrupt' \in BOOLEAN
      <3>1. PICK event \in TickEvents : Enabled(t, event) /\ Record(t, Snap(t), event)
        BY <1>5 DEF TickAppend
      <3>. QED BY <3>1, EnabledLegal, RecordLog DEF Typed
    <2>2. events' \in 0..MaxEvents
      BY <1>5, BoundsAssumption DEF TickAppend, Typed
    <2>. QED BY <1>5, <2>1, <2>2 DEF TickAppend, EndTick, Typed, Folds
  <1>6. ASSUME NEW t \in Ids, HumanAccepts(t) PROVE Typed'
    <2>1. st' \in Folds /\ corrupt' \in BOOLEAN
      <3>1. transition("AwaitingReview", "HumanAcceptanceRecorded") = "Accepted"
        BY DEF transition
      <3>. QED BY <1>6, <3>1, RecordLog DEF HumanAccepts, TaskStates
    <2>2. events' \in 0..MaxEvents
      BY <1>6, BoundsAssumption DEF HumanAccepts, Typed
    <2>. QED BY <1>6, <2>1, <2>2 DEF HumanAccepts, Typed, driverVars
  <1>. QED BY <1>1, <1>3, <1>4, <1>5, <1>6 DEF Next

-----------------------------------------------------------------------------
(* Every step without an overlapping write leaves the tick untouched. *)

\* A save that does not overlap rests on what is stored, outside a tick.
LEMMA SaveFacts ==
  ASSUME Typed, NEW c \in Commands, NEW g, NEW tasks, SaveRow(c, g, tasks), ~overlap'
  PROVE  /\ ~overlap /\ row' = g /\ row = cmd[c].row /\ tasks = st /\ dpc \in {"off", "load"}
         /\ cmd[c].kind = "mutate" => cmd[c].graph = row.plan
  BY DEF Typed, SaveRow, Overlaps

\* A mutation that does not overlap sends at most its Ready target back.
LEMMA MutateSaveFacts ==
  ASSUME Typed, NEW c \in Commands, MutateSave(c), ~overlap'
  PROVE  /\ ~corrupt => ~corrupt'
         /\ \A t \in Ids : st'[t] = st[t] \/ st'[t] = "Pending"
         /\ row'.state = "PlanAccepted" => row.state = "PlanAccepted"
         /\ row'.state = "PlanAccepted" => held' = held
         /\ cmd[c].mutation \in Mutations /\ row.plan \in GoodPlans
         /\ MutationApplies(row.plan, cmd[c].mutation) /\ Mutable(cmd[c].mutation, st)
         /\ row'.plan = assign_tiers(Mutated(row.plan, cmd[c].mutation))
  <1>. DEFINE m == cmd[c].mutation
  <1>1. /\ cmd[c] \in Held /\ cmd[c].row # NoRow /\ m \in Mutations /\ cmd[c].kind = "mutate"
        /\ MutationApplies(cmd[c].graph, m) /\ Mutable(m, cmd[c].tasks)
    BY DEF Typed, Cmds, Checked, MutateSave
  <1>2. row = cmd[c].row /\ cmd[c].tasks = st /\ cmd[c].graph = row.plan /\ ~overlap
    BY <1>1, SaveFacts DEF MutateSave
  <1>3. /\ row'.state = IF cmd[c].review THEN "AwaitingPlanReview" ELSE row.state
        /\ row'.plan = assign_tiers(Mutated(row.plan, m))
    BY <1>2 DEF MutateSave, SaveRow
  <1>4. row.plan \in GoodPlans
    BY <1>1, <1>2, RowShape DEF Typed
  <1>5. (~corrupt => ~corrupt') /\ \A t \in Ids : st'[t] = st[t] \/ st'[t] = "Pending"
    <2>1. CASE Reverses(m, st)
      <3>1. m.task \in Ids /\ Record(m.task, "Ready", "GraphMutated") /\ State(m.task) = "Ready"
        BY <1>1, <1>2, <2>1, InputsAssumption DEF MutateSave, Reverses, State, NoRecord
      <3>2. transition("Ready", "GraphMutated") = "Pending"
        BY DEF transition
      <3>3. ~corrupt => ~corrupt'
        BY <3>1, <3>2 DEF Record
      <3>4. st' = st \/ st' = [st EXCEPT ![m.task] = "Pending"]
        BY <3>1, <3>2 DEF Record
      <3>. QED BY <3>3, <3>4 DEF Typed, Folds
    <2>2. CASE ~Reverses(m, st)
      BY <1>2, <2>2 DEF MutateSave
    <2>. QED BY <2>1, <2>2
  <1>6. row'.state = "PlanAccepted" => held' = held
    BY <1>2, <1>3 DEF MutateSave
  <1>. QED BY <1>1, <1>2, <1>3, <1>4, <1>5, <1>6

\* Every step either writes no row, or is one of four saves.
LEMMA RowSteps ==
  ASSUME [Next]_vars, row' # row \/ held' # held
  PROVE  \E c \in Commands : StageSave(c) \/ StartSave(c) \/ DecideSave(c) \/ MutateSave(c)
  <1>1. Next /\ ~UNCHANGED <<row, held>>
    BY DEF vars
  <1>2. ASSUME NEW c \in Commands, Command(c)
        PROVE  UNCHANGED <<row, held>>
               \/ StageSave(c) \/ StartSave(c) \/ DecideSave(c) \/ MutateSave(c)
    BY <1>2 DEF Command, ReviewPlan, RunPlan, MutatePlan, Issue, Review, StageRead, DecideRead,
                Mutate, MutateRow, MutateGraph, MutateTasks, StartExisting, StartNew, Reset, Loop,
                CommandDies
  <1>. QED
    BY <1>1, <1>2 DEF Next, Resume, TickGate, TickGraph, TickFold, DriverStops, TickAppend,
                      HumanAccepts

\* What a save that does not overlap does to the row.
LEMMA RowEffect ==
  ASSUME Typed, NEW c \in Commands, ~overlap',
         StageSave(c) \/ StartSave(c) \/ DecideSave(c)
  PROVE  /\ ~overlap /\ dpc \in {"off", "load"} /\ UNCHANGED <<st, corrupt, driverVars>>
         /\ \/ row.state # "PlanAccepted" /\ row'.state = "AwaitingPlanReview"
            \/ /\ row'.plan = row.plan
               /\ row'.state = plan_transition(row.state, cmd[c].decision)
               /\ row'.state = "PlanAccepted" => held' = {}
  <1>1. cmd[c] \in Held /\ Checked(cmd[c])
    BY DEF Typed, Cmds
  <1>2. CASE StageSave(c)
    <2>1. row = cmd[c].row /\ ~overlap /\ row'.state = "AwaitingPlanReview" /\ dpc \in {"off", "load"}
      BY <1>2, SaveFacts DEF StageSave, SaveRow
    <2>. QED BY <1>1, <1>2, <2>1 DEF StageSave, Checked
  <1>3. CASE StartSave(c)
    <2>1. row = cmd[c].row /\ ~overlap /\ row'.state = "AwaitingPlanReview" /\ dpc \in {"off", "load"}
      BY <1>3, SaveFacts DEF StartSave, SaveRow
    <2>. QED BY <1>1, <1>3, <2>1 DEF StartSave, Checked, NoRow
  <1>4. CASE DecideSave(c)
    <2>1. row = cmd[c].row /\ ~overlap /\ dpc \in {"off", "load"}
          /\ row' = [row EXCEPT !.state = plan_transition(row.state, cmd[c].decision)]
      BY <1>4, SaveFacts DEF DecideSave, SaveRow
    <2>2. row # NoRow
      BY <1>1, <1>4, <2>1 DEF DecideSave, Checked
    <2>3. row = [state |-> row.state, plan |-> row.plan]
      BY <2>2, RowShape DEF Typed
    <2>4. row'.state = plan_transition(row.state, cmd[c].decision) /\ row'.plan = row.plan
      BY <2>1, <2>3
    <2>. QED BY <1>4, <2>1, <2>4 DEF DecideSave
  <1>. QED BY <1>2, <1>3, <1>4

\* No step undoes an overlap.
LEMMA StaysUntouched ==
  ASSUME Typed, [Next]_vars, ~overlap'
  PROVE  ~overlap
  <1>1. ASSUME NEW c \in Commands, Command(c) PROVE ~overlap
    BY <1>1 DEF Command, ReviewPlan, RunPlan, MutatePlan, Issue, Review, StageRead, DecideRead,
                Mutate, MutateRow, MutateGraph, MutateTasks, StartExisting, StartNew, Reset, Loop,
                CommandDies, StageSave, StartSave, DecideSave, MutateSave, SaveRow
  <1>. QED
    BY <1>1 DEF Next, Resume, TickGate, TickGraph, TickFold, DriverStops, TickAppend,
                HumanAccepts, vars

LEMMA UntouchedKept ==
  ASSUME IInv, [Next]_vars, ~overlap'
  PROVE  Untouched'
  <1>0. Typed /\ Untouched /\ ~overlap
    BY StaysUntouched DEF IInv
  <1>1. CASE UNCHANGED <<row, held, st, corrupt, driverVars>>
    BY <1>0, <1>1 DEF Untouched, driverVars
  <1>2. ASSUME NEW c \in Commands, StageSave(c) \/ StartSave(c) \/ DecideSave(c)
        PROVE  Untouched'
    BY <1>0, <1>2, RowEffect DEF Untouched, driverVars, plan_transition
  <1>3. ASSUME NEW c \in Commands, MutateSave(c)
        PROVE  Untouched'
    <2>1. dpc \in {"off", "load"} /\ UNCHANGED driverVars
      BY <1>0, <1>3, SaveFacts DEF MutateSave
    <2>. QED BY <1>0, <1>3, <2>1, MutateSaveFacts DEF Untouched, driverVars
  <1>4. ASSUME NEW c \in Commands, Reset(c) PROVE Untouched'
    BY <1>0, <1>4 DEF Reset, Untouched, driverVars
  <1>5. ASSUME NEW c \in Commands, Loop(c) PROVE Untouched'
    BY <1>0, <1>5 DEF Loop, Untouched
  <1>6. ASSUME NEW c \in Commands, Command(c) PROVE Untouched'
    BY <1>1, <1>2, <1>3, <1>4, <1>5, <1>6
    DEF Command, ReviewPlan, RunPlan, MutatePlan, Issue, Review, StageRead, DecideRead,
        Mutate, MutateRow, MutateGraph, MutateTasks, StartExisting, StartNew, CommandDies
  <1>7. CASE Resume \/ TickGate \/ TickGraph \/ TickFold \/ DriverStops
    BY <1>0, <1>7 DEF Resume, TickGate, TickGraph, TickFold, DriverStops, GateOpen, Untouched
  <1>8. ASSUME NEW t \in Ids, TickAppend(t) PROVE Untouched'
    <2>1. PICK event \in TickEvents : Enabled(t, event) /\ Record(t, Snap(t), event)
      BY <1>8 DEF TickAppend
    <2>2. State(t) = Snap(t)
      BY <1>0, <1>8 DEF TickAppend, Untouched, State, Snap
    <2>3. ~corrupt'
      BY <1>0, <2>1, <2>2 DEF Record, Untouched
    <2>. QED BY <1>0, <1>8, <2>3 DEF TickAppend, Untouched
  <1>9. ASSUME NEW t \in Ids, HumanAccepts(t) PROVE Untouched'
    <2>1. ~corrupt'
      BY <1>9 DEF HumanAccepts, Record, State, NoRecord
    <2>. QED BY <1>0, <1>9, <2>1 DEF HumanAccepts, Untouched, driverVars
  <1>. QED BY <1>1, <1>6, <1>7, <1>8, <1>9 DEF Next, vars

-----------------------------------------------------------------------------
(* The theorems. *)

LEMMA Initial ==
  ASSUME Init
  PROVE  IInv
  <1>1. row \in GoodRows
    <2>1. ASSUME NEW f \in Files, validate(f)
          PROVE  [state |-> "PlanAccepted", plan |-> assign_tiers(f)] \in GoodRows
      BY <2>1, InputsAssumption, TiersComplete, GoodRow DEF Plans, PlanStates
    <2>. QED BY <2>1, IdleHeld DEF Init
  <1>2. cmd \in [Commands -> Cmds]
    BY IdleHeld DEF Init
  <1>3. integ \in BOOLEAN
    BY DEF Init
  <1>4. 0 \in 0..MaxCommands /\ 0 \in 0..MaxEvents
    BY BoundsAssumption
  <1>5. Typed
    BY <1>1, <1>2, <1>3, <1>4 DEF Init, Typed, Folds
  <1>. QED BY <1>5 DEF Init, IInv, Untouched

\* What the commands hold, and what a tick may rely on, always.
THEOREM GateInvariant == Spec => []IInv
  <1>1. Init => IInv
    BY Initial
  <1>2. IInv /\ [Next]_vars => IInv'
    BY Typing, UntouchedKept DEF IInv
  <1>. QED BY <1>1, <1>2, PTL DEF Spec

\* Whatever is staged, decided, started or mutated, in any order and however
\* the commands interleave, the stored plan is one validate accepts, with a tier
\* for every node; and the log stays legal unless a write overlapped.
THEOREM PlanTheorem == Spec => []PlanStaysLegal
  <1>1. ASSUME IInv PROVE PlanStaysLegal
    <2>1. TypeOK
      <3>1. GoodRows \subseteq Rows
        <4>1. ASSUME NEW r \in GoodRows, r # NoRow PROVE r \in Rows
          <5>1. r.state \in PlanStates /\ r.plan \in Plans /\ r = [state |-> r.state, plan |-> r.plan]
            BY <4>1, RowShape
          <5>. QED BY <5>1 DEF Rows, Plans
        <4>2. NoRow \in Rows
          BY EmptyPlan DEF Rows, Plans, NoRow
        <4>. QED BY <4>1, <4>2
      <3>2. ASSUME NEW c \in Commands
            PROVE  /\ cmd[c].kind \in {"none", "review", "run", "reset", "mutate"}
                   /\ cmd[c].pc \in Pcs /\ cmd[c].row \in Rows /\ cmd[c].decision \in Decisions
        BY <1>1, <3>1 DEF IInv, Typed, Cmds, Held
      <3>. QED BY <1>1, <3>1, <3>2 DEF IInv, Typed, TypeOK, Folds
    <2>2. PlanIsValid
      BY <1>1, RowShape DEF IInv, Typed, PlanIsValid, GoodPlans, Complete
    <2>3. QuietLogIsLegal
      BY <1>1 DEF IInv, Typed, Untouched, QuietLogIsLegal
    <2>. QED BY <2>1, <2>2, <2>3 DEF PlanStaysLegal
  <1>. QED BY <1>1, GateInvariant, PTL

\* What a step without overlap may do to the state of a task.
LEMMA StateEffect ==
  ASSUME IInv, Next, ~overlap', NEW t \in Ids, st'[t] # st[t]
  PROVE  \/ st'[t] \notin {"Ready", "Running"}
         \/ /\ row' = row /\ row.state = "PlanAccepted" /\ held = {}
            /\ st'[t] = "Running" => \A d \in DepsOf(row.plan, t) : st[d] = "Integrated"
  <1>0. Typed /\ Untouched /\ ~overlap
    BY StaysUntouched DEF IInv
  <1>1. ASSUME NEW c \in Commands, Command(c) PROVE st'[t] \notin {"Ready", "Running"}
    <2>1. CASE MutateSave(c)
      BY <1>0, <2>1, MutateSaveFacts
    <2>2. CASE Reset(c)
      BY <2>2 DEF Reset, NoRecord
    <2>3. CASE UNCHANGED st
      BY <2>3
    <2>. QED
      BY <1>1, <2>1, <2>2, <2>3
      DEF Command, ReviewPlan, RunPlan, MutatePlan, Issue, Review, StageRead, DecideRead, StageSave,
          DecideSave, StartSave, Mutate, MutateRow, MutateGraph, MutateTasks, StartExisting, StartNew,
          Loop, CommandDies
  <1>2. CASE Resume \/ TickGate \/ TickGraph \/ TickFold \/ DriverStops
    BY <1>2 DEF Resume, TickGate, TickGraph, TickFold, DriverStops
  <1>3. ASSUME NEW u \in Ids, TickAppend(u)
        PROVE  /\ row' = row /\ row.state = "PlanAccepted" /\ held = {}
               /\ st'[t] = "Running" => \A d \in DepsOf(row.plan, t) : st[d] = "Integrated"
    <2>1. /\ dpc = "work" /\ dst = st /\ dplan = row.plan /\ row' = row /\ held = {}
          /\ row.state = "PlanAccepted"
      BY <1>0, <1>3 DEF TickAppend, Untouched
    <2>2. PICK event \in TickEvents : Enabled(u, event) /\ Record(u, Snap(u), event)
      BY <1>3 DEF TickAppend
    <2>3. u = t /\ st'[t] = transition(Snap(t), event)
      <3>1. st' = [st EXCEPT ![u] = transition(Snap(u), event)]
        BY <2>2 DEF Record
      <3>. QED BY <1>0, <3>1 DEF Typed, Folds
    <2>4. ASSUME st'[t] = "Running" PROVE \A d \in DepsOf(row.plan, t) : st[d] = "Integrated"
      <3>0. ASSUME NEW s, NEW e, transition(s, e) = "Running" PROVE e = "AttemptStarted"
        BY <3>0 DEF transition, Illegal
      <3>1. event = "AttemptStarted"
        BY <2>3, <2>4, <3>0
      <3>2. t \in ready_nodes(dplan, {d \in IdsOf(dplan) : Snap(d) = "Integrated"})
        BY <2>2, <2>3, <3>1 DEF Enabled
      <3>3. \A d \in DepsOf(dplan, t) : Snap(d) = "Integrated"
        BY <3>2 DEF ready_nodes
      <3>. QED BY <2>1, <3>3 DEF Snap
    <2>. QED BY <2>1, <2>4
  <1>4. ASSUME NEW u \in Ids, HumanAccepts(u) PROVE st'[t] \notin {"Ready", "Running"}
    <2>1. transition("AwaitingReview", "HumanAcceptanceRecorded") = "Accepted"
      BY DEF transition
    <2>. QED BY <1>0, <1>4, <2>1 DEF HumanAccepts, Record, Typed, Folds
  <1>. QED BY <1>1, <1>2, <1>3, <1>4 DEF Next

\* Nothing of a plan that was not reviewed, or was declined, starts before somebody
\* accepts it, nothing starts while the stored row is not accepted, and a declined row
\* is reopened before it is accepted: the gate of tick, decide_plan, stage_plan and
\* mutate_plan together, as long as no write overlaps another.
THEOREM GateTheorem == Spec => GateHolds
  <1>1. ASSUME IInv, [Next]_vars
        PROVE  /\ [\A t \in Ids : st'[t] # st[t] /\ st'[t] \in {"Ready", "Running"} /\ ~overlap'
                                    => t \notin held]_vars
               /\ [\A t \in Ids : st'[t] # st[t] /\ st'[t] \in {"Ready", "Running"} /\ ~overlap'
                                    => row.state = "PlanAccepted"]_vars
    BY <1>1, StateEffect
  <1>2. ASSUME IInv, [Next]_vars
        PROVE  [row.state = "PlanDeclined" /\ ~overlap' => row'.state # "PlanAccepted"]_vars
    <2>. SUFFICES ASSUME row.state = "PlanDeclined", ~overlap', row'.state = "PlanAccepted"
         PROVE  FALSE
      OBVIOUS
    <2>1. PICK c \in Commands : StageSave(c) \/ StartSave(c) \/ DecideSave(c) \/ MutateSave(c)
      BY <1>2, RowSteps
    <2>. QED BY <1>2, <2>1, RowEffect, MutateSaveFacts DEF IInv, plan_transition
  <1>. QED
    BY <1>1, <1>2, GateInvariant, PTL DEF Spec, GateHolds, ReviewedNodesOnly, GateIsShut,
       DeclineStands

\* New prerequisites are waited for, and what has begun keeps its own: a plan
\* mutated under a driver keeps the order of work, as long as no write overlaps.
THEOREM OrderTheorem == Spec => OrderHolds
  <1>1. ASSUME IInv, [Next]_vars
        PROVE  [\A t \in Ids : st[t] # "Running" /\ st'[t] = "Running" /\ ~overlap'
                                 => \A d \in DepsOf(row.plan, t) : st[d] = "Integrated"]_vars
    BY <1>1, StateEffect
  <1>2. ASSUME IInv, [Next]_vars
        PROVE  [\A t \in IdsOf(row.plan) :
                  st[t] \in Active /\ row.state = "PlanAccepted" /\ ~overlap'
                    => /\ t \in IdsOf(row'.plan)
                       /\ DepsOf(row'.plan, t) = DepsOf(row.plan, t)]_vars
    <2>. SUFFICES ASSUME NEW t \in IdsOf(row.plan), st[t] \in Active,
                         row.state = "PlanAccepted", ~overlap', row'.plan # row.plan
         PROVE  t \in IdsOf(row'.plan) /\ DepsOf(row'.plan, t) = DepsOf(row.plan, t)
      OBVIOUS
    <2>1. PICK c \in Commands : StageSave(c) \/ StartSave(c) \/ DecideSave(c) \/ MutateSave(c)
      BY <1>2, RowSteps
    <2>2. MutateSave(c)
      BY <1>2, <2>1, RowEffect DEF IInv
    <2>. DEFINE m == cmd[c].mutation
                h == Mutated(row.plan, m)
    <2>3. /\ m \in Mutations /\ row.plan \in Plans /\ MutationApplies(row.plan, m) /\ Mutable(m, st)
          /\ row'.plan = assign_tiers(h)
      BY <1>2, <2>2, MutateSaveFacts DEF IInv, GoodPlans
    <2>4. h \in Plans /\ validate(h) /\ t \in IdsOf(h)
          /\ \/ m.kind = "InsertPrerequisite" /\ t = m.task
             \/ DepsOf(h, t) = DepsOf(row.plan, t)
      BY <2>3, MutatedKeeps
    <2>5. ~(m.kind = "InsertPrerequisite" /\ t = m.task)
      BY <2>3 DEF Mutable
    <2>. HIDE DEF h
    <2>6. IdsOf(assign_tiers(h)) = IdsOf(h) /\ DepsOf(assign_tiers(h), t) = DepsOf(h, t)
      BY <2>4, TiersComplete
    <2>. QED BY <2>3, <2>4, <2>5, <2>6
  <1>. QED
    BY <1>1, <1>2, GateInvariant, PTL DEF Spec, OrderHolds, PrerequisitesFirst, BegunKeepsItsDeps

-----------------------------------------------------------------------------
(* The planner session                                                     *)

Ended == {"refused", "failed", "planned", "dead"}
PlannerPcs == Opening \cup Producing \cup Ended

\* Who works on the registry, the root or an attempt holds the fence.
Fenced == {"locked", "bind", "root", "making", "index"} \cup Producing
Exclusive == \A p \in Planners : (fence = p) = (pl[p].pc \in Fenced)

\* Only whole roots are registered, and a half made one was begun at its first component.
Rooted ==
    /\ pending \in {0, Depth} /\ BootstrapHasProvenance
    /\ \A p \in Planners :
          /\ pl[p].pc \in Fenced \ {"locked"} => registry = "manifest"
          /\ pl[p].pc \in {"root", "making", "index"} \cup Producing => "repository" \in ledger
          /\ pl[p].pc = "making" => pending = 0
          /\ pl[p].pc = "index" => rooted

\* The operations of the attempt a planner is at, by its program point.
Ops(worktreeOp, spawnOp, planOp) == [worktree |-> worktreeOp, spawn |-> spawnOp, plan |-> planOp]
OpsAt(pc) ==
    IF pc = "claim" THEN Ops("none", "none", "none")
    ELSE IF pc \in {"add", "added"} THEN Ops("pending", "none", "none")
    ELSE IF pc = "spawn" THEN Ops("completed", "none", "none")
    ELSE IF pc = "output" THEN Ops("completed", "pending", "none")
    ELSE IF pc = "parse" THEN Ops("completed", "completed", "pending")
    ELSE Ops("completed", "pending", "pending")

Before == {"claim", "add", "added", "spawn", "output", "driver"}
Launched == {"running", "poll", "cancel", "ack", "collect", "unwind"}
Collected == {"drain", "preserve", "parse"}
PlannerOK(p) ==
    /\ pl[p].pc \in Opening => pl[p].n = 0
    /\ pl[p].pc = "unwind" => pl[p].result = "error"
    /\ pl[p].pc \in Producing => pl[p].n > 0 /\ op[This(p)] = OpsAt(pl[p].pc)
    /\ pl[p].pc \in Before => driver[This(p)] = "none"
    /\ pl[p].pc \in Before \cup {"invoke"} => worker[This(p)] = "none"
    /\ pl[p].pc \in Launched => worker[This(p)] # "none"
    /\ pl[p].pc \in Collected => worker[This(p)] \notin {"none", "live"}
    /\ pl[p].pc = "terminal" /\ pl[p].result = "outcome" => worker[This(p)] \notin {"none", "live"}
    /\ pl[p].pc \in {"cancel", "ack"} => request[This(p)] = "Pending"
    /\ pl[p].pc = "ack" /\ pl[p].result = "cancelled" =>
          platform = "windows" /\ worker[This(p)] # "live"

\* An attempt not begun is untouched, one that was retried is over, and one whose
\* cancellation was answered is never used.
Heard(r) ==
    \/ r.pc \in {"failed", "dead"}
    \/ r.pc = "terminal" /\ r.result # "outcome"
    \/ r.pc \in {"poll", "collect", "unwind"} /\ r.blocked
AttemptOK(a) ==
    /\ a[2] > pl[a[1]].n =>
          op[a] = OpsAt("claim") /\ driver[a] = "none" /\ worker[a] = "none"
    /\ a[2] < pl[a[1]].n => op[a] = Ops("completed", "completed", "blocked") /\ worker[a] # "live"
    /\ driver[a] = "none" => request[a] = "none"
    /\ op[a].spawn = "completed" => worker[a] \notin {"none", "live"}
    /\ request[a] = "Applied" => platform = "windows" /\ worker[a] # "live"
    /\ request[a] \in {"Applied", "Blocked"} =>
          op[a].plan # "completed" /\ pl[a[1]].n = a[2] /\ Heard(pl[a[1]])

PlannerInv ==
    /\ PlannerTypeOK /\ Exclusive /\ Rooted
    /\ \A p \in Planners : PlannerOK(p)
    /\ \A a \in Attempts : AttemptOK(a)

-----------------------------------------------------------------------------
(* What one step does to the planner that takes it, and to its attempt.    *)

Results == {"none", "outcome", "error", "cancelled"}
Locals == [pc : PlannerPcs, n : 0..MaxRetries, created : BOOLEAN, tried : BOOLEAN,
           blocked : BOOLEAN, result : Results]
Operations == [worktree : OpStates, spawn : OpStates, plan : OpStates]

Local(p, pc, n, blocked, result) ==
    /\ pl' \in [Planners -> Locals]
    /\ pl'[p].pc = pc /\ pl'[p].n = n /\ pl'[p].blocked = blocked /\ pl'[p].result = result
    /\ \A q \in Planners \ {p} : pl'[q] = pl[q]

LEMMA LocalsTyped ==
  ASSUME PlannerTypeOK
  PROVE  pl \in [Planners -> Locals]
  BY DEF PlannerTypeOK, Locals, PlannerPcs, Ended, Results

\* Go moves the program point alone; a step may also set one thing the planner knows.
LEMMA GoLocal ==
  ASSUME PlannerTypeOK, NEW p \in Planners, NEW pc \in PlannerPcs, Go(p, pc)
  PROVE  Local(p, pc, pl[p].n, pl[p].blocked, pl[p].result)
  BY LocalsTyped DEF Locals, Go, Local

LEMMA ResultLocal ==
  ASSUME PlannerTypeOK, NEW p \in Planners, NEW pc \in PlannerPcs, NEW result \in Results,
         pl' = [pl EXCEPT ![p].pc = pc, ![p].result = result]
  PROVE  Local(p, pc, pl[p].n, pl[p].blocked, result)
  BY LocalsTyped DEF Locals, Local

LEMMA TriedLocal ==
  ASSUME PlannerTypeOK, NEW p \in Planners, NEW pc \in PlannerPcs, NEW result \in Results,
         pl' = [pl EXCEPT ![p].pc = pc, ![p].tried = TRUE, ![p].result = result]
  PROVE  Local(p, pc, pl[p].n, pl[p].blocked, result)
  BY LocalsTyped DEF Locals, Local

LEMMA CreatedLocal ==
  ASSUME PlannerTypeOK, NEW p \in Planners, NEW pc \in PlannerPcs, NEW created \in BOOLEAN,
         pl' = [pl EXCEPT ![p].pc = pc, ![p].created = created]
  PROVE  Local(p, pc, pl[p].n, pl[p].blocked, pl[p].result)
  BY LocalsTyped DEF Locals, Local

LEMMA NumberLocal ==
  ASSUME PlannerTypeOK, NEW p \in Planners, NEW pc \in PlannerPcs, NEW n \in 0..MaxRetries,
         pl' = [pl EXCEPT ![p].pc = pc, ![p].n = n]
  PROVE  Local(p, pc, n, pl[p].blocked, pl[p].result)
  BY LocalsTyped DEF Locals, Local

LEMMA BlockedLocal ==
  ASSUME PlannerTypeOK, NEW p \in Planners, NEW pc \in PlannerPcs, NEW blocked \in BOOLEAN,
         pl' = [pl EXCEPT ![p].pc = pc, ![p].blocked = blocked]
  PROVE  Local(p, pc, pl[p].n, blocked, pl[p].result)
  BY LocalsTyped DEF Locals, Local

\* A planner that begins again, or leaves, forgets everything but its attempt.
LEMMA FreshLocal ==
  ASSUME PlannerTypeOK, NEW p \in Planners, NEW pc \in PlannerPcs, NEW n \in 0..MaxRetries, pl' = Fresh(p, pc, n)
  PROVE  Local(p, pc, n, FALSE, "none")
  BY LocalsTyped DEF Locals, Local, Fresh, Results

Released(p) == fence' = IF fence = p THEN NoOne ELSE fence
LEMMA LeavesLocal ==
  ASSUME PlannerTypeOK, NEW p \in Planners, NEW how \in Ended, Leaves(p, how)
  PROVE  Local(p, how, pl[p].n, FALSE, "none") /\ Released(p)
<1>1. pl[p].n \in 0..MaxRetries
  BY DEF PlannerTypeOK
<1> QED
  BY <1>1, FreshLocal DEF Leaves, Released, PlannerPcs

\* The operations of one attempt move, those of the others stay.
Operate(a, state) ==
    op' \in [Attempts -> Operations] /\ op'[a] = state /\ \A b \in Attempts \ {a} : op'[b] = op[b]

LEMMA Operating ==
  ASSUME PlannerTypeOK, NEW a \in Attempts, NEW x \in OpStates, NEW y \in OpStates, NEW z \in OpStates,
         NEW state \in OpStates, op[a] = Ops(x, y, z)
  PROVE  /\ op' = [op EXCEPT ![a].worktree = state] => Operate(a, Ops(state, y, z))
         /\ op' = [op EXCEPT ![a].spawn = state] => Operate(a, Ops(x, state, z))
         /\ op' = [op EXCEPT ![a].plan = state] => Operate(a, Ops(x, y, state))
<1>1. op' = [op EXCEPT ![a].worktree = state] => Operate(a, Ops(state, y, z))
  BY DEF PlannerTypeOK, Operate, Operations, Ops
<1>2. op' = [op EXCEPT ![a].spawn = state] => Operate(a, Ops(x, state, z))
  BY DEF PlannerTypeOK, Operate, Operations, Ops
<1>3. op' = [op EXCEPT ![a].plan = state] => Operate(a, Ops(x, y, state))
  BY DEF PlannerTypeOK, Operate, Operations, Ops
<1> QED
  BY <1>1, <1>2, <1>3

\* A planner at work is at one of its own attempts.
LEMMA ThisAttempt ==
  ASSUME PlannerInv, NEW p \in Planners, pl[p].pc \in Producing
  PROVE  /\ This(p) \in Attempts /\ This(p)[1] = p /\ This(p)[2] = pl[p].n
         /\ pl[p].n \in 1..MaxRetries /\ op[This(p)] = OpsAt(pl[p].pc)
  BY DEF PlannerInv, PlannerTypeOK, PlannerOK, This, Attempts

\* A step of one planner leaves the others and their attempts alone, and its own
\* attempts but the one it is at.
Alone(p) ==
    /\ platform' = platform
    /\ \A q \in Planners \ {p} : pl'[q] = pl[q]
    /\ pl'[p].n \in {pl[p].n, pl[p].n + 1}
    /\ \A b \in Attempts \ {This(p)} :
          op'[b] = op[b] /\ worker'[b] = worker[b] /\ driver'[b] = driver[b] /\ request'[b] = request[b]

LEMMA OthersStay ==
  ASSUME PlannerInv, NEW p \in Planners, Alone(p)
  PROVE  /\ \A q \in Planners \ {p} : PlannerOK(q)'
         /\ \A b \in Attempts \ {This(p)} : AttemptOK(b)'
<1>1. ASSUME NEW q \in Planners \ {p}
      PROVE  PlannerOK(q)'
  <2>1. pl'[q] = pl[q] /\ This(q)' = This(q) /\ This(q) # This(p) /\ platform' = platform
    BY DEF Alone, This
  <2>2. PlannerOK(q)
    BY DEF PlannerInv
  <2>3. CASE pl[q].pc \in Producing
    <3>1. This(q) \in Attempts
      BY <2>3, ThisAttempt
    <3>2. /\ op'[This(q)] = op[This(q)] /\ worker'[This(q)] = worker[This(q)]
          /\ driver'[This(q)] = driver[This(q)] /\ request'[This(q)] = request[This(q)]
      BY <2>1, <3>1 DEF Alone
    <3> QED
      BY <2>1, <2>2, <3>2 DEF PlannerOK
  <2>4. CASE pl[q].pc \notin Producing
    BY <2>1, <2>2, <2>4 DEF PlannerOK, Producing, Before, Launched, Collected
  <2> QED
    BY <2>3, <2>4
<1>2. ASSUME NEW b \in Attempts \ {This(p)}
      PROVE  AttemptOK(b)'
  <2>1. /\ op'[b] = op[b] /\ worker'[b] = worker[b] /\ driver'[b] = driver[b]
        /\ request'[b] = request[b] /\ platform' = platform
    BY DEF Alone
  <2>2. AttemptOK(b) /\ b[1] \in Planners /\ b[2] \in Nat /\ b = <<b[1], b[2]>> /\ pl[b[1]].n \in Nat
    BY SessionAssumption DEF PlannerInv, PlannerTypeOK, Attempts
  <2>3. CASE b[1] # p
    <3>1. pl'[b[1]] = pl[b[1]]
      BY <2>2, <2>3 DEF Alone
    <3> QED
      BY <2>1, <2>2, <3>1 DEF AttemptOK
  <2>4. CASE b[1] = p
    <3>1. b[2] # pl[p].n /\ request[b] \notin {"Applied", "Blocked"}
      BY <2>2, <2>4 DEF This, AttemptOK
    <3>2. (b[2] > pl'[p].n => b[2] > pl[p].n) /\ (b[2] < pl'[p].n => b[2] < pl[p].n)
      BY <2>2, <2>4, <3>1 DEF Alone
    <3> QED
      BY <2>1, <2>2, <2>4, <3>1, <3>2 DEF AttemptOK
  <2> QED
    BY <2>3, <2>4
<1> QED
  BY <1>1, <1>2

\* A planner at work keeps the fence or leaves; either way the disk stays as it is.
LEMMA Works ==
  ASSUME PlannerInv, NEW p \in Planners, pl[p].pc \in Producing, PlannerTypeOK', Alone(p), UNCHANGED disk,
         \/ fence' = fence /\ pl'[p].pc \in Producing
         \/ Released(p) /\ pl'[p].pc \in Ended,
         PlannerOK(p)', NEW a \in Attempts, a = This(p), AttemptOK(a)'
  PROVE  PlannerInv'
<1>1. Exclusive'
  BY SessionAssumption DEF PlannerInv, Exclusive, Alone, Released, Fenced, Producing, Ended
<1>2. Rooted'
  BY DEF PlannerInv, Rooted, BootstrapHasProvenance, Alone, disk, Fenced, Producing, Ended
<1>3. \A q \in Planners : PlannerOK(q)'
  BY OthersStay
<1>4. \A b \in Attempts : AttemptOK(b)'
  BY OthersStay
<1> QED
  BY <1>1, <1>2, <1>3, <1>4 DEF PlannerInv

\* Who is still at the registry or the root has no attempt: every one is somebody else's
\* or not begun.
LEMMA Opens ==
  ASSUME PlannerInv, NEW p \in Planners, pl[p].pc \in Opening, PlannerTypeOK', Exclusive', Rooted', Alone(p),
         PlannerOK(p)'
  PROVE  PlannerInv'
<1>1. This(p) \notin Attempts
  BY DEF PlannerInv, PlannerOK, This, Attempts
<1> QED
  BY <1>1, OthersStay DEF PlannerInv

LEMMA OpenRegistryKeeps ==
  ASSUME PlannerInv, NEW p \in Planners, OpenRegistry(p)
  PROVE  PlannerInv'
<1>1. pl[p].pc = "off"
  BY DEF OpenRegistry, At
<1>2. PlannerOK(p) /\ pl[p].n = 0
  BY <1>1 DEF PlannerInv, PlannerOK, Opening
<1>3. Local(p, "opened", pl[p].n, pl[p].blocked, pl[p].result) /\ fence' = fence
  BY <1>1, <1>2, CreatedLocal, SessionAssumption DEF PlannerInv, OpenRegistry, PlannerPcs, Opening, Ended,
      Producing
<1>4. PlannerTypeOK'
  BY <1>1, <1>2, <1>3, SessionAssumption DEF PlannerInv, OpenRegistry, PlannerTypeOK, Local, Locals, PlannerPcs,
      Ended, Results, OpStates, work, Workers, Phases, Statuses
<1>5. Alone(p)
  BY <1>1, <1>2, <1>3 DEF PlannerInv, OpenRegistry, PlannerTypeOK, Local, Alone, work
<1>6. Exclusive'
  BY <1>1, <1>2, <1>3, SessionAssumption DEF PlannerInv, OpenRegistry, PlannerTypeOK, Local, Exclusive, Fenced,
      Opening, Producing
<1>7. Rooted'
  BY <1>1, <1>2, <1>3, SessionAssumption DEF PlannerInv, OpenRegistry, PlannerTypeOK, Local, Exclusive, Rooted,
      BootstrapHasProvenance, Fenced, Opening, Producing
<1>8. PlannerOK(p)'
  BY <1>1, <1>2, <1>3 DEF Local, PlannerOK, Opening, Producing, Before, Launched, Collected
<1> QED
  BY <1>1, <1>2, <1>4, <1>5, <1>6, <1>7, <1>8, Opens DEF Opening

LEMMA LockKeeps ==
  ASSUME PlannerInv, NEW p \in Planners, Lock(p)
  PROVE  PlannerInv'
<1>1. pl[p].pc = "opened"
  BY DEF Lock, At
<1>2. PlannerOK(p) /\ pl[p].n = 0
  BY <1>1 DEF PlannerInv, PlannerOK, Opening
<1>3. CASE LockFree /\ fence' = p /\ Go(p, "locked")
  <2>1. Local(p, "locked", pl[p].n, pl[p].blocked, pl[p].result) /\ fence' = p
    BY <1>1, <1>2, <1>3, GoLocal, SessionAssumption DEF PlannerInv, Lock, PlannerPcs, Opening, Ended,
        Producing, disk
  <2>2. PlannerTypeOK'
    BY <1>1, <1>2, <1>3, <2>1, SessionAssumption DEF PlannerInv, Lock, LockFree, PlannerTypeOK, Local, Locals,
        PlannerPcs, Ended, Results, OpStates, disk, work, Workers, Phases, Statuses
  <2>3. Alone(p)
    BY <1>1, <1>2, <1>3, <2>1 DEF PlannerInv, Lock, LockFree, PlannerTypeOK, Local, Alone, disk, work
  <2>4. Exclusive'
    BY <1>1, <1>2, <1>3, <2>1, SessionAssumption DEF PlannerInv, Lock, LockFree, PlannerTypeOK, Local,
        Exclusive, Fenced, Opening, Producing, disk
  <2>5. Rooted'
    BY <1>1, <1>2, <1>3, <2>1, SessionAssumption DEF PlannerInv, Lock, LockFree, PlannerTypeOK, Local,
        Exclusive, Rooted, BootstrapHasProvenance, Fenced, Opening, Producing, disk
  <2>6. PlannerOK(p)'
    BY <1>1, <1>2, <1>3, <2>1 DEF Local, PlannerOK, Opening, Producing, Before, Launched,
        Collected
  <2> QED
    BY <1>1, <1>2, <1>3, <2>2, <2>3, <2>4, <2>5, <2>6, Opens DEF Opening
<1>4. CASE ~LockFree /\ Leaves(p, "refused")
  <2>1. Local(p, "refused", pl[p].n, FALSE, "none") /\ Released(p)
    BY <1>1, <1>2, <1>4, LeavesLocal, SessionAssumption DEF PlannerInv, Lock, Ended, disk
  <2>2. PlannerTypeOK'
    BY <1>1, <1>2, <1>4, <2>1, SessionAssumption DEF PlannerInv, Lock, PlannerTypeOK, Local, Locals, PlannerPcs,
        Ended, Results, Released, OpStates, disk, work, Workers, Phases, Statuses
  <2>3. Alone(p)
    BY <1>1, <1>2, <1>4, <2>1 DEF PlannerInv, Lock, PlannerTypeOK, Local, Alone, disk, work
  <2>4. Exclusive'
    BY <1>1, <1>2, <1>4, <2>1, SessionAssumption DEF PlannerInv, Lock, PlannerTypeOK, Local, Exclusive,
        Released, Fenced, Opening, Producing, disk
  <2>5. Rooted'
    BY <1>1, <1>2, <1>4, <2>1, SessionAssumption DEF PlannerInv, Lock, PlannerTypeOK, Local, Exclusive, Rooted,
        BootstrapHasProvenance, Fenced, Opening, Producing, disk
  <2>6. PlannerOK(p)'
    BY <1>1, <1>2, <1>4, <2>1 DEF Local, PlannerOK, Opening, Producing, Before, Launched,
        Collected
  <2> QED
    BY <1>1, <1>2, <1>4, <2>2, <2>3, <2>4, <2>5, <2>6, Opens DEF Opening
<1> QED
  BY <1>3, <1>4 DEF Lock

LEMMA ManifestKeeps ==
  ASSUME PlannerInv, NEW p \in Planners, Manifest(p)
  PROVE  PlannerInv'
<1>1. pl[p].pc = "locked"
  BY DEF Manifest, At
<1>2. PlannerOK(p) /\ pl[p].n = 0
  BY <1>1 DEF PlannerInv, PlannerOK, Opening
<1>3. CASE Go(p, "bind") /\ UNCHANGED fence /\ registry' = "manifest"
  <2>1. Local(p, "bind", pl[p].n, pl[p].blocked, pl[p].result) /\ fence' = fence
    BY <1>1, <1>2, <1>3, GoLocal, SessionAssumption DEF PlannerInv, Manifest, PlannerPcs, Opening, Ended,
        Producing
  <2>2. PlannerTypeOK'
    BY <1>1, <1>2, <1>3, <2>1, SessionAssumption DEF PlannerInv, Manifest, PlannerTypeOK, Local, Locals, PlannerPcs,
        Ended, Results, OpStates, work, Workers, Phases, Statuses
  <2>3. Alone(p)
    BY <1>1, <1>2, <1>3, <2>1 DEF PlannerInv, Manifest, PlannerTypeOK, Local, Alone, work
  <2>4. Exclusive'
    BY <1>1, <1>2, <1>3, <2>1, SessionAssumption DEF PlannerInv, Manifest, PlannerTypeOK, Local, Exclusive,
        Fenced, Opening, Producing
  <2>5. Rooted'
    BY <1>1, <1>2, <1>3, <2>1, SessionAssumption DEF PlannerInv, Manifest, PlannerTypeOK, Local, Exclusive,
        Rooted, BootstrapHasProvenance, Fenced, Opening, Producing
  <2>6. PlannerOK(p)'
    BY <1>1, <1>2, <1>3, <2>1 DEF Local, PlannerOK, Opening, Producing, Before, Launched,
        Collected
  <2> QED
    BY <1>1, <1>2, <1>3, <2>2, <2>3, <2>4, <2>5, <2>6, Opens DEF Opening
<1>4. CASE Leaves(p, "refused") /\ UNCHANGED registry
  <2>1. Local(p, "refused", pl[p].n, FALSE, "none") /\ Released(p)
    BY <1>1, <1>2, <1>4, LeavesLocal, SessionAssumption DEF PlannerInv, Manifest, Ended
  <2>2. PlannerTypeOK'
    BY <1>1, <1>2, <1>4, <2>1, SessionAssumption DEF PlannerInv, Manifest, PlannerTypeOK, Local, Locals, PlannerPcs,
        Ended, Results, Released, OpStates, work, Workers, Phases, Statuses
  <2>3. Alone(p)
    BY <1>1, <1>2, <1>4, <2>1 DEF PlannerInv, Manifest, PlannerTypeOK, Local, Alone, work
  <2>4. Exclusive'
    BY <1>1, <1>2, <1>4, <2>1, SessionAssumption DEF PlannerInv, Manifest, PlannerTypeOK, Local, Exclusive,
        Released, Fenced, Opening, Producing
  <2>5. Rooted'
    BY <1>1, <1>2, <1>4, <2>1, SessionAssumption DEF PlannerInv, Manifest, PlannerTypeOK, Local, Exclusive,
        Rooted, BootstrapHasProvenance, Fenced, Opening, Producing
  <2>6. PlannerOK(p)'
    BY <1>1, <1>2, <1>4, <2>1 DEF Local, PlannerOK, Opening, Producing, Before, Launched,
        Collected
  <2> QED
    BY <1>1, <1>2, <1>4, <2>2, <2>3, <2>4, <2>5, <2>6, Opens DEF Opening
<1> QED
  BY <1>3, <1>4 DEF Manifest

LEMMA BindRepositoryKeeps ==
  ASSUME PlannerInv, NEW p \in Planners, BindRepository(p)
  PROVE  PlannerInv'
<1>1. pl[p].pc = "bind"
  BY DEF BindRepository, At
<1>2. PlannerOK(p) /\ pl[p].n = 0
  BY <1>1 DEF PlannerInv, PlannerOK, Opening
<1>3. /\ "root" \in ledger' => "root" \in ledger
      /\ "repository" \in ledger' /\ UNCHANGED <<registry, dirs, pending, rooted>>
  BY <1>1, <1>2 DEF BindRepository
<1>4. Local(p, "root", pl[p].n, pl[p].blocked, pl[p].result) /\ fence' = fence
  BY <1>1, <1>2, <1>3, GoLocal, SessionAssumption DEF PlannerInv, BindRepository, PlannerPcs, Opening, Ended,
      Producing
<1>5. PlannerTypeOK'
  BY <1>1, <1>2, <1>3, <1>4, SessionAssumption DEF PlannerInv, BindRepository, PlannerTypeOK, Local, Locals,
      PlannerPcs, Ended, Results, OpStates, work, Workers, Phases, Statuses
<1>6. Alone(p)
  BY <1>1, <1>2, <1>3, <1>4 DEF PlannerInv, BindRepository, PlannerTypeOK, Local, Alone, work
<1>7. Exclusive'
  BY <1>1, <1>2, <1>3, <1>4, SessionAssumption DEF PlannerInv, BindRepository, PlannerTypeOK, Local, Exclusive,
      Fenced, Opening, Producing
<1>8. Rooted'
  BY <1>1, <1>2, <1>3, <1>4, SessionAssumption DEF PlannerInv, PlannerTypeOK, Local, Exclusive, Rooted,
      BootstrapHasProvenance, Fenced, Opening, Producing
<1>9. PlannerOK(p)'
  BY <1>1, <1>2, <1>3, <1>4 DEF Local, PlannerOK, Opening, Producing, Before, Launched, Collected
<1> QED
  BY <1>1, <1>2, <1>3, <1>5, <1>6, <1>7, <1>8, <1>9, Opens DEF Opening

LEMMA RegisterRootKeeps ==
  ASSUME PlannerInv, NEW p \in Planners, RegisterRoot(p)
  PROVE  PlannerInv'
<1>1. pl[p].pc = "root"
  BY DEF RegisterRoot, At
<1>2. PlannerOK(p) /\ pl[p].n = 0
  BY <1>1 DEF PlannerInv, PlannerOK, Opening
<1>3. CASE ~Unfinished /\ rooted' = TRUE /\ Go(p, "index") /\ UNCHANGED fence
  <2>1. Local(p, "index", pl[p].n, pl[p].blocked, pl[p].result) /\ fence' = fence
    BY <1>1, <1>2, <1>3, GoLocal, SessionAssumption DEF PlannerInv, RegisterRoot, PlannerPcs, Opening, Ended,
        Producing
  <2>2. PlannerTypeOK'
    BY <1>1, <1>2, <1>3, <2>1, SessionAssumption DEF PlannerInv, RegisterRoot, PlannerTypeOK, Local, Locals,
        PlannerPcs, Ended, Results, OpStates, work, Workers, Phases, Statuses
  <2>3. Alone(p)
    BY <1>1, <1>2, <1>3, <2>1 DEF PlannerInv, RegisterRoot, PlannerTypeOK, Local, Alone, work
  <2>4. Exclusive'
    BY <1>1, <1>2, <1>3, <2>1, SessionAssumption DEF PlannerInv, RegisterRoot, PlannerTypeOK, Local, Exclusive,
        Fenced, Opening, Producing
  <2>5. Rooted'
    BY <1>1, <1>2, <1>3, <2>1, SessionAssumption DEF PlannerInv, RegisterRoot, PlannerTypeOK, Local, Exclusive,
        Rooted, BootstrapHasProvenance, Unfinished, Fenced, Opening, Producing
  <2>6. PlannerOK(p)'
    BY <1>1, <1>2, <1>3, <2>1 DEF Local, PlannerOK, Opening, Producing, Before, Launched,
        Collected
  <2> QED
    BY <1>1, <1>2, <1>3, <2>2, <2>3, <2>4, <2>5, <2>6, Opens DEF Opening
<1>4. CASE Leaves(p, "refused") /\ UNCHANGED rooted
  <2>1. Local(p, "refused", pl[p].n, FALSE, "none") /\ Released(p)
    BY <1>1, <1>2, <1>4, LeavesLocal, SessionAssumption DEF PlannerInv, RegisterRoot, Ended
  <2>2. PlannerTypeOK'
    BY <1>1, <1>2, <1>4, <2>1, SessionAssumption DEF PlannerInv, RegisterRoot, PlannerTypeOK, Local, Locals,
        PlannerPcs, Ended, Results, Released, OpStates, work, Workers, Phases, Statuses
  <2>3. Alone(p)
    BY <1>1, <1>2, <1>4, <2>1 DEF PlannerInv, RegisterRoot, PlannerTypeOK, Local, Alone, work
  <2>4. Exclusive'
    BY <1>1, <1>2, <1>4, <2>1, SessionAssumption DEF PlannerInv, RegisterRoot, PlannerTypeOK, Local, Exclusive,
        Released, Fenced, Opening, Producing
  <2>5. Rooted'
    BY <1>1, <1>2, <1>4, <2>1, SessionAssumption DEF PlannerInv, RegisterRoot, PlannerTypeOK, Local, Exclusive,
        Rooted, BootstrapHasProvenance, Unfinished, Fenced, Opening, Producing
  <2>6. PlannerOK(p)'
    BY <1>1, <1>2, <1>4, <2>1 DEF Local, PlannerOK, Opening, Producing, Before, Launched,
        Collected
  <2> QED
    BY <1>1, <1>2, <1>4, <2>2, <2>3, <2>4, <2>5, <2>6, Opens DEF Opening
<1> QED
  BY <1>3, <1>4 DEF RegisterRoot

LEMMA BootstrapIntentKeeps ==
  ASSUME PlannerInv, NEW p \in Planners, BootstrapIntent(p)
  PROVE  PlannerInv'
<1>1. pl[p].pc = "root"
  BY DEF BootstrapIntent, At
<1>2. PlannerOK(p) /\ pl[p].n = 0
  BY <1>1 DEF PlannerInv, PlannerOK, Opening
<1>3. CASE pending \in {NoIntent, dirs} /\ ~rooted /\ pending' = dirs /\ Go(p, "making") /\ UNCHANGED fence
  <2>1. Local(p, "making", pl[p].n, pl[p].blocked, pl[p].result) /\ fence' = fence
    BY <1>1, <1>2, <1>3, GoLocal, SessionAssumption DEF PlannerInv, BootstrapIntent, PlannerPcs, Opening,
        Ended, Producing
  <2>2. PlannerTypeOK'
    BY <1>1, <1>2, <1>3, <2>1, SessionAssumption DEF PlannerInv, BootstrapIntent, NoIntent, PlannerTypeOK,
        Local, Locals, PlannerPcs, Ended, Results, OpStates, work, Workers, Phases, Statuses
  <2>3. Alone(p)
    BY <1>1, <1>2, <1>3, <2>1 DEF PlannerInv, BootstrapIntent, NoIntent, PlannerTypeOK, Local, Alone, work
  <2>4. Exclusive'
    BY <1>1, <1>2, <1>3, <2>1, SessionAssumption DEF PlannerInv, BootstrapIntent, NoIntent, PlannerTypeOK,
        Local, Exclusive, Fenced, Opening, Producing
  <2>5. Rooted'
    BY <1>1, <1>2, <1>3, <2>1, SessionAssumption DEF PlannerInv, BootstrapIntent, NoIntent, PlannerTypeOK,
        Local, Exclusive, Rooted, BootstrapHasProvenance, Fenced, Opening, Producing
  <2>6. PlannerOK(p)'
    BY <1>1, <1>2, <1>3, <2>1 DEF Local, PlannerOK, Opening, Producing, Before, Launched,
        Collected
  <2> QED
    BY <1>1, <1>2, <1>3, <2>2, <2>3, <2>4, <2>5, <2>6, Opens DEF Opening
<1>4. CASE Leaves(p, "refused") /\ UNCHANGED pending
  <2>1. Local(p, "refused", pl[p].n, FALSE, "none") /\ Released(p)
    BY <1>1, <1>2, <1>4, LeavesLocal, SessionAssumption DEF PlannerInv, BootstrapIntent, Ended
  <2>2. PlannerTypeOK'
    BY <1>1, <1>2, <1>4, <2>1, SessionAssumption DEF PlannerInv, BootstrapIntent, PlannerTypeOK, Local, Locals,
        PlannerPcs, Ended, Results, Released, OpStates, work, Workers, Phases, Statuses
  <2>3. Alone(p)
    BY <1>1, <1>2, <1>4, <2>1 DEF PlannerInv, BootstrapIntent, PlannerTypeOK, Local, Alone, work
  <2>4. Exclusive'
    BY <1>1, <1>2, <1>4, <2>1, SessionAssumption DEF PlannerInv, BootstrapIntent, PlannerTypeOK, Local,
        Exclusive, Released, Fenced, Opening, Producing
  <2>5. Rooted'
    BY <1>1, <1>2, <1>4, <2>1, SessionAssumption DEF PlannerInv, BootstrapIntent, PlannerTypeOK, Local,
        Exclusive, Rooted, BootstrapHasProvenance, Fenced, Opening, Producing
  <2>6. PlannerOK(p)'
    BY <1>1, <1>2, <1>4, <2>1 DEF Local, PlannerOK, Opening, Producing, Before, Launched,
        Collected
  <2> QED
    BY <1>1, <1>2, <1>4, <2>2, <2>3, <2>4, <2>5, <2>6, Opens DEF Opening
<1> QED
  BY <1>3, <1>4 DEF BootstrapIntent

LEMMA RegisterCreatedRootKeeps ==
  ASSUME PlannerInv, NEW p \in Planners, RegisterCreatedRoot(p)
  PROVE  PlannerInv'
<1>1. pl[p].pc = "making"
  BY DEF RegisterCreatedRoot, At
<1>2. PlannerOK(p) /\ pl[p].n = 0
  BY <1>1 DEF PlannerInv, PlannerOK, Opening
<1>3. Local(p, "index", pl[p].n, pl[p].blocked, pl[p].result) /\ fence' = fence
  BY <1>1, <1>2, GoLocal, SessionAssumption DEF PlannerInv, RegisterCreatedRoot, PlannerPcs, Opening, Ended,
      Producing
<1>4. PlannerTypeOK'
  BY <1>1, <1>2, <1>3, SessionAssumption DEF PlannerInv, RegisterCreatedRoot, PlannerTypeOK, Local, Locals,
      PlannerPcs, Ended, Results, OpStates, work, Workers, Phases, Statuses
<1>5. Alone(p)
  BY <1>1, <1>2, <1>3 DEF PlannerInv, RegisterCreatedRoot, PlannerTypeOK, Local, Alone, work
<1>6. Exclusive'
  BY <1>1, <1>2, <1>3, SessionAssumption DEF PlannerInv, RegisterCreatedRoot, PlannerTypeOK, Local, Exclusive,
      Fenced, Opening, Producing
<1>7. Rooted'
  BY <1>1, <1>2, <1>3, SessionAssumption DEF PlannerInv, RegisterCreatedRoot, PlannerTypeOK, Local, Exclusive,
      Rooted, BootstrapHasProvenance, Fenced, Opening, Producing
<1>8. PlannerOK(p)'
  BY <1>1, <1>2, <1>3 DEF Local, PlannerOK, Opening, Producing, Before, Launched, Collected
<1> QED
  BY <1>1, <1>2, <1>4, <1>5, <1>6, <1>7, <1>8, Opens DEF Opening

LEMMA IndexRootKeeps ==
  ASSUME PlannerInv, NEW p \in Planners, IndexRoot(p)
  PROVE  PlannerInv'
<1>1. pl[p].pc = "index"
  BY DEF IndexRoot, At
<1>2. PlannerOK(p) /\ pl[p].n = 0
  BY <1>1 DEF PlannerInv, PlannerOK, Opening
<1>3. 1 \in 0..MaxRetries /\ pl' = [pl EXCEPT ![p].pc = "claim", ![p].n = 1]
  BY <1>1, <1>2, SessionAssumption DEF IndexRoot
<1>4. Local(p, "claim", 1, pl[p].blocked, pl[p].result) /\ fence' = fence
  BY <1>1, <1>2, <1>3, NumberLocal, SessionAssumption DEF PlannerInv, IndexRoot, PlannerPcs, Opening, Ended,
      Producing
<1>5. PlannerTypeOK'
  BY <1>1, <1>2, <1>3, <1>4, SessionAssumption DEF PlannerInv, IndexRoot, PlannerTypeOK, Local, Locals, PlannerPcs,
      Ended, Results, OpStates, work, Workers, Phases, Statuses
<1>6. Alone(p)
  BY <1>1, <1>2, <1>3, <1>4 DEF PlannerInv, IndexRoot, PlannerTypeOK, Local, Alone, work
<1>7. Exclusive'
  BY <1>1, <1>2, <1>3, <1>4, SessionAssumption DEF PlannerInv, IndexRoot, PlannerTypeOK, Local, Exclusive,
      Fenced, Opening, Producing
<1>8. Rooted'
  BY <1>1, <1>2, <1>3, <1>4, SessionAssumption DEF PlannerInv, IndexRoot, PlannerTypeOK, Local, Exclusive,
      Rooted, BootstrapHasProvenance, Fenced, Opening, Producing
<1>9. <<p, 1>> \in Attempts
  BY SessionAssumption DEF Attempts
<1>10. AttemptOK(<<p, 1>>)
  BY <1>9 DEF PlannerInv
<1>11. /\ This(p)' = <<p, 1>> /\ op'[<<p, 1>>] = OpsAt("claim")
       /\ driver'[<<p, 1>>] = "none" /\ worker'[<<p, 1>>] = "none"
  BY <1>1, <1>2, <1>3, <1>4, <1>9, <1>10 DEF Local, AttemptOK, This, IndexRoot, work
<1>12. PlannerOK(p)'
  BY <1>1, <1>2, <1>3, <1>4, <1>11 DEF Local, PlannerOK, Opening, Producing, Before, Launched,
      Collected
<1> QED
  BY <1>1, <1>2, <1>3, <1>5, <1>6, <1>7, <1>8, <1>12, Opens DEF Opening

LEMMA CreateDirKeeps ==
  ASSUME PlannerInv, NEW p \in Planners, CreateDir(p)
  PROVE  PlannerInv'
<1>1. pl[p].pc = "making" /\ pl' = pl /\ fence' = fence
  BY DEF CreateDir, At
<1>2. PlannerOK(p) /\ pl[p].n = 0
  BY <1>1 DEF PlannerInv, PlannerOK, Opening
<1>3. PlannerTypeOK'
  BY <1>1, SessionAssumption DEF PlannerInv, PlannerTypeOK, CreateDir, work
<1>4. Alone(p)
  BY <1>1, <1>2 DEF Alone, CreateDir, work
<1>5. Exclusive'
  BY <1>1 DEF PlannerInv, Exclusive
<1>6. Rooted'
  BY <1>1, SessionAssumption DEF PlannerInv, PlannerTypeOK, CreateDir, Rooted, BootstrapHasProvenance, Fenced,
      Producing
<1>7. PlannerOK(p)'
  BY <1>1, <1>2 DEF PlannerOK, Opening, Producing, Before, Launched, Collected
<1> QED
  BY <1>1, <1>3, <1>4, <1>5, <1>6, <1>7, Opens DEF Opening

LEMMA ClaimWorktreeKeeps ==
  ASSUME PlannerInv, NEW p \in Planners, ClaimWorktree(p)
  PROVE  PlannerInv'
<1>1. pl[p].pc = "claim"
  BY DEF ClaimWorktree, At
<1>2. PICK a \in Attempts : /\ a = This(p) /\ a[1] = p /\ a[2] = pl[p].n /\ pl[p].n \in 1..MaxRetries
                           /\ op[a] = OpsAt(pl[p].pc) /\ PlannerOK(p) /\ AttemptOK(a)
  BY <1>1, ThisAttempt DEF Producing, PlannerInv
<1>3. Local(p, "add", pl[p].n, pl[p].blocked, pl[p].result) /\ fence' = fence
  BY <1>1, <1>2, GoLocal DEF PlannerInv, ClaimWorktree, PlannerPcs, Ended, Producing, Elsewhere
<1>4. Operate(a, Ops("pending", "none", "none"))
  BY <1>1, <1>2, Operating DEF PlannerInv, ClaimWorktree, OpsAt, Ops, OpStates, Intend
<1>5. PlannerTypeOK'
  BY <1>1, <1>2, <1>3, <1>4, SessionAssumption DEF PlannerInv, ClaimWorktree, PlannerTypeOK, Local, Locals,
      PlannerPcs, Ended, Results, Operate, Operations, OpStates, Elsewhere, disk, Workers, Phases,
      Statuses
<1>6. Alone(p) /\ UNCHANGED disk
  BY <1>1, <1>2, <1>3, <1>4 DEF PlannerInv, ClaimWorktree, PlannerTypeOK, Local, Operate, Alone, Elsewhere,
      disk
<1>7. PlannerOK(p)'
  BY <1>1, <1>2, <1>3, <1>4 DEF PlannerInv, ClaimWorktree, PlannerTypeOK, Local, Operate, PlannerOK, AttemptOK,
      Heard, OpsAt, Ops, Opening, Producing, Before, Launched, Collected, This, Elsewhere, disk
<1>8. AttemptOK(a)'
  BY <1>1, <1>2, <1>3, <1>4 DEF PlannerInv, ClaimWorktree, PlannerTypeOK, Local, Operate, PlannerOK, AttemptOK,
      Heard, OpsAt, Ops, Before, Launched, Collected, Elsewhere, disk
<1> QED
  BY <1>1, <1>2, <1>3, <1>5, <1>6, <1>7, <1>8, Works DEF Local, Producing, Ended

LEMMA AddWorktreeKeeps ==
  ASSUME PlannerInv, NEW p \in Planners, AddWorktree(p)
  PROVE  PlannerInv'
<1>1. pl[p].pc = "add"
  BY DEF AddWorktree, At
<1>2. PICK a \in Attempts : /\ a = This(p) /\ a[1] = p /\ a[2] = pl[p].n /\ pl[p].n \in 1..MaxRetries
                           /\ op[a] = OpsAt(pl[p].pc) /\ PlannerOK(p) /\ AttemptOK(a)
  BY <1>1, ThisAttempt DEF Producing, PlannerInv
<1>3. CASE worktree' = worktree \cup {This(p)} /\ Go(p, "added") /\ UNCHANGED <<fence, faults>>
  <2>1. Local(p, "added", pl[p].n, pl[p].blocked, pl[p].result) /\ fence' = fence
    BY <1>1, <1>2, <1>3, GoLocal DEF PlannerInv, AddWorktree, PlannerPcs, Ended, Producing
  <2>2. op' = op
    BY <1>1, <1>2, <1>3 DEF AddWorktree
  <2>3. PlannerTypeOK'
    BY <1>1, <1>2, <1>3, <2>1, <2>2, SessionAssumption DEF PlannerInv, AddWorktree, PlannerTypeOK, Local,
        Locals, PlannerPcs, Ended, Results, OpStates, disk, Workers, Phases, Statuses
  <2>4. Alone(p) /\ UNCHANGED disk
    BY <1>1, <1>2, <1>3, <2>1, <2>2 DEF PlannerInv, AddWorktree, PlannerTypeOK, Local, Alone, disk
  <2>5. PlannerOK(p)'
    BY <1>1, <1>2, <1>3, <2>1, <2>2 DEF PlannerInv, AddWorktree, PlannerTypeOK, Local, PlannerOK, AttemptOK,
        Heard, OpsAt, Ops, Opening, Producing, Before, Launched, Collected, This, disk
  <2>6. AttemptOK(a)'
    BY <1>1, <1>2, <1>3, <2>1, <2>2 DEF PlannerInv, AddWorktree, PlannerTypeOK, Local, PlannerOK, AttemptOK,
        Heard, OpsAt, Ops, Before, Launched, Collected, disk
  <2> QED
    BY <1>1, <1>2, <1>3, <2>1, <2>3, <2>4, <2>5, <2>6, Works DEF Local, Producing, Ended
<1>4. CASE faults < MaxFaults /\ faults' = faults + 1 /\ Leaves(p, "failed") /\ UNCHANGED worktree
  <2>1. Local(p, "failed", pl[p].n, FALSE, "none") /\ Released(p)
    BY <1>1, <1>2, <1>4, LeavesLocal DEF PlannerInv, AddWorktree, Ended
  <2>2. op' = op
    BY <1>1, <1>2, <1>4 DEF AddWorktree
  <2>3. PlannerTypeOK'
    BY <1>1, <1>2, <1>4, <2>1, <2>2, SessionAssumption DEF PlannerInv, AddWorktree, PlannerTypeOK, Local,
        Locals, PlannerPcs, Ended, Results, Released, OpStates, disk, Workers, Phases, Statuses
  <2>4. Alone(p) /\ UNCHANGED disk
    BY <1>1, <1>2, <1>4, <2>1, <2>2 DEF PlannerInv, AddWorktree, PlannerTypeOK, Local, Alone, disk
  <2>5. PlannerOK(p)'
    BY <1>1, <1>2, <1>4, <2>1, <2>2 DEF PlannerInv, AddWorktree, PlannerTypeOK, Local, PlannerOK, AttemptOK,
        Heard, OpsAt, Ops, Opening, Producing, Before, Launched, Collected, This, disk
  <2>6. AttemptOK(a)'
    BY <1>1, <1>2, <1>4, <2>1, <2>2 DEF PlannerInv, AddWorktree, PlannerTypeOK, Local, PlannerOK, AttemptOK,
        Heard, OpsAt, Ops, Before, Launched, Collected, disk
  <2> QED
    BY <1>1, <1>2, <1>4, <2>1, <2>3, <2>4, <2>5, <2>6, Works DEF Local, Producing, Ended
<1> QED
  BY <1>3, <1>4 DEF AddWorktree

LEMMA WorktreeAddedKeeps ==
  ASSUME PlannerInv, NEW p \in Planners, WorktreeAdded(p)
  PROVE  PlannerInv'
<1>1. pl[p].pc = "added"
  BY DEF WorktreeAdded, At
<1>2. PICK a \in Attempts : /\ a = This(p) /\ a[1] = p /\ a[2] = pl[p].n /\ pl[p].n \in 1..MaxRetries
                           /\ op[a] = OpsAt(pl[p].pc) /\ PlannerOK(p) /\ AttemptOK(a)
  BY <1>1, ThisAttempt DEF Producing, PlannerInv
<1>3. Local(p, "spawn", pl[p].n, pl[p].blocked, pl[p].result) /\ fence' = fence
  BY <1>1, <1>2, GoLocal DEF PlannerInv, WorktreeAdded, PlannerPcs, Ended, Producing, Elsewhere
<1>4. Operate(a, Ops("completed", "none", "none"))
  BY <1>1, <1>2, Operating DEF PlannerInv, WorktreeAdded, OpsAt, Ops, OpStates, Step,
      append_operation_step
<1>5. PlannerTypeOK'
  BY <1>1, <1>2, <1>3, <1>4, SessionAssumption DEF PlannerInv, WorktreeAdded, PlannerTypeOK, Local, Locals,
      PlannerPcs, Ended, Results, Operate, Operations, OpStates, Elsewhere, disk, Workers, Phases,
      Statuses
<1>6. Alone(p) /\ UNCHANGED disk
  BY <1>1, <1>2, <1>3, <1>4 DEF PlannerInv, WorktreeAdded, PlannerTypeOK, Local, Operate, Alone, Elsewhere,
      disk
<1>7. PlannerOK(p)'
  BY <1>1, <1>2, <1>3, <1>4 DEF PlannerInv, WorktreeAdded, PlannerTypeOK, Local, Operate, PlannerOK, AttemptOK,
      Heard, OpsAt, Ops, Opening, Producing, Before, Launched, Collected, This, Elsewhere, disk
<1>8. AttemptOK(a)'
  BY <1>1, <1>2, <1>3, <1>4 DEF PlannerInv, WorktreeAdded, PlannerTypeOK, Local, Operate, PlannerOK, AttemptOK,
      Heard, OpsAt, Ops, Before, Launched, Collected, Elsewhere, disk
<1> QED
  BY <1>1, <1>2, <1>3, <1>5, <1>6, <1>7, <1>8, Works DEF Local, Producing, Ended

LEMMA IntendSpawnKeeps ==
  ASSUME PlannerInv, NEW p \in Planners, IntendSpawn(p)
  PROVE  PlannerInv'
<1>1. pl[p].pc = "spawn"
  BY DEF IntendSpawn, At
<1>2. PICK a \in Attempts : /\ a = This(p) /\ a[1] = p /\ a[2] = pl[p].n /\ pl[p].n \in 1..MaxRetries
                           /\ op[a] = OpsAt(pl[p].pc) /\ PlannerOK(p) /\ AttemptOK(a)
  BY <1>1, ThisAttempt DEF Producing, PlannerInv
<1>3. Local(p, "output", pl[p].n, pl[p].blocked, pl[p].result) /\ fence' = fence
  BY <1>1, <1>2, GoLocal DEF PlannerInv, IntendSpawn, PlannerPcs, Ended, Producing, Elsewhere
<1>4. Operate(a, Ops("completed", "pending", "none"))
  BY <1>1, <1>2, Operating DEF PlannerInv, IntendSpawn, OpsAt, Ops, OpStates, Intend
<1>5. PlannerTypeOK'
  BY <1>1, <1>2, <1>3, <1>4, SessionAssumption DEF PlannerInv, IntendSpawn, PlannerTypeOK, Local, Locals, PlannerPcs,
      Ended, Results, Operate, Operations, OpStates, Elsewhere, disk, Workers, Phases, Statuses
<1>6. Alone(p) /\ UNCHANGED disk
  BY <1>1, <1>2, <1>3, <1>4 DEF PlannerInv, IntendSpawn, PlannerTypeOK, Local, Operate, Alone, Elsewhere, disk
<1>7. PlannerOK(p)'
  BY <1>1, <1>2, <1>3, <1>4 DEF PlannerInv, IntendSpawn, PlannerTypeOK, Local, Operate, PlannerOK, AttemptOK,
      Heard, OpsAt, Ops, Opening, Producing, Before, Launched, Collected, This, Elsewhere, disk
<1>8. AttemptOK(a)'
  BY <1>1, <1>2, <1>3, <1>4 DEF PlannerInv, IntendSpawn, PlannerTypeOK, Local, Operate, PlannerOK, AttemptOK,
      Heard, OpsAt, Ops, Before, Launched, Collected, Elsewhere, disk
<1> QED
  BY <1>1, <1>2, <1>3, <1>5, <1>6, <1>7, <1>8, Works DEF Local, Producing, Ended

LEMMA IntendPlanKeeps ==
  ASSUME PlannerInv, NEW p \in Planners, IntendPlan(p)
  PROVE  PlannerInv'
<1>1. pl[p].pc = "output"
  BY DEF IntendPlan, At
<1>2. PICK a \in Attempts : /\ a = This(p) /\ a[1] = p /\ a[2] = pl[p].n /\ pl[p].n \in 1..MaxRetries
                           /\ op[a] = OpsAt(pl[p].pc) /\ PlannerOK(p) /\ AttemptOK(a)
  BY <1>1, ThisAttempt DEF Producing, PlannerInv
<1>3. Local(p, "driver", pl[p].n, pl[p].blocked, pl[p].result) /\ fence' = fence
  BY <1>1, <1>2, GoLocal DEF PlannerInv, IntendPlan, PlannerPcs, Ended, Producing, Elsewhere
<1>4. Operate(a, Ops("completed", "pending", "pending"))
  BY <1>1, <1>2, Operating DEF PlannerInv, IntendPlan, OpsAt, Ops, OpStates, Intend
<1>5. PlannerTypeOK'
  BY <1>1, <1>2, <1>3, <1>4, SessionAssumption DEF PlannerInv, IntendPlan, PlannerTypeOK, Local, Locals, PlannerPcs,
      Ended, Results, Operate, Operations, OpStates, Elsewhere, disk, Workers, Phases, Statuses
<1>6. Alone(p) /\ UNCHANGED disk
  BY <1>1, <1>2, <1>3, <1>4 DEF PlannerInv, IntendPlan, PlannerTypeOK, Local, Operate, Alone, Elsewhere, disk
<1>7. PlannerOK(p)'
  BY <1>1, <1>2, <1>3, <1>4 DEF PlannerInv, IntendPlan, PlannerTypeOK, Local, Operate, PlannerOK, AttemptOK,
      Heard, OpsAt, Ops, Opening, Producing, Before, Launched, Collected, This, Elsewhere, disk
<1>8. AttemptOK(a)'
  BY <1>1, <1>2, <1>3, <1>4 DEF PlannerInv, IntendPlan, PlannerTypeOK, Local, Operate, PlannerOK, AttemptOK,
      Heard, OpsAt, Ops, Before, Launched, Collected, Elsewhere, disk
<1> QED
  BY <1>1, <1>2, <1>3, <1>5, <1>6, <1>7, <1>8, Works DEF Local, Producing, Ended

LEMMA RegisterDriverKeeps ==
  ASSUME PlannerInv, NEW p \in Planners, RegisterDriver(p)
  PROVE  PlannerInv'
<1>1. pl[p].pc = "driver"
  BY DEF RegisterDriver, At
<1>2. PICK a \in Attempts : /\ a = This(p) /\ a[1] = p /\ a[2] = pl[p].n /\ pl[p].n \in 1..MaxRetries
                           /\ op[a] = OpsAt(pl[p].pc) /\ PlannerOK(p) /\ AttemptOK(a)
  BY <1>1, ThisAttempt DEF Producing, PlannerInv
<1>3. Local(p, "invoke", pl[p].n, pl[p].blocked, pl[p].result) /\ fence' = fence
  BY <1>1, <1>2, GoLocal DEF PlannerInv, RegisterDriver, PlannerPcs, Ended, Producing, Elsewhere
<1>4. op' = op
  BY <1>1, <1>2 DEF RegisterDriver, Elsewhere
<1>5. PlannerTypeOK'
  BY <1>1, <1>2, <1>3, <1>4, SessionAssumption DEF PlannerInv, RegisterDriver, PlannerTypeOK, Local, Locals,
      PlannerPcs, Ended, Results, OpStates, Elsewhere, disk, Workers, Phases, Statuses
<1>6. Alone(p) /\ UNCHANGED disk
  BY <1>1, <1>2, <1>3, <1>4 DEF PlannerInv, RegisterDriver, PlannerTypeOK, Local, Alone, Elsewhere, disk
<1>7. PlannerOK(p)'
  BY <1>1, <1>2, <1>3, <1>4 DEF PlannerInv, RegisterDriver, PlannerTypeOK, Local, PlannerOK, AttemptOK, Heard,
      OpsAt, Ops, Opening, Producing, Before, Launched, Collected, This, Elsewhere, disk
<1>8. AttemptOK(a)'
  BY <1>1, <1>2, <1>3, <1>4 DEF PlannerInv, RegisterDriver, PlannerTypeOK, Local, PlannerOK, AttemptOK, Heard,
      OpsAt, Ops, Before, Launched, Collected, Elsewhere, disk
<1> QED
  BY <1>1, <1>2, <1>3, <1>5, <1>6, <1>7, <1>8, Works DEF Local, Producing, Ended

LEMMA InvokeKeeps ==
  ASSUME PlannerInv, NEW p \in Planners, Invoke(p)
  PROVE  PlannerInv'
<1>1. pl[p].pc = "invoke"
  BY DEF Invoke, At
<1>2. PICK a \in Attempts : /\ a = This(p) /\ a[1] = p /\ a[2] = pl[p].n /\ pl[p].n \in 1..MaxRetries
                           /\ op[a] = OpsAt(pl[p].pc) /\ PlannerOK(p) /\ AttemptOK(a)
  BY <1>1, ThisAttempt DEF Producing, PlannerInv
<1>3. CASE /\ worker' = [worker EXCEPT ![This(p)] = "live"] /\ UNCHANGED faults
             /\ Go(p, IF Controlled THEN "running" ELSE "collect")
  <2>1. PICK pc \in {"running", "collect"} : Go(p, pc)
    BY <1>1, <1>2, <1>3 DEF Invoke
  <2>2. Local(p, pc, pl[p].n, pl[p].blocked, pl[p].result) /\ fence' = fence
    BY <1>1, <1>2, <1>3, <2>1, GoLocal DEF PlannerInv, Invoke, PlannerPcs, Ended, Producing
  <2>3. op' = op
    BY <1>1, <1>2, <1>3, <2>1 DEF Invoke
  <2>4. PlannerTypeOK'
    BY <1>1, <1>2, <1>3, <2>1, <2>2, <2>3, SessionAssumption DEF PlannerInv, Invoke, PlannerTypeOK, Local,
        Locals, PlannerPcs, Ended, Results, OpStates, disk, Workers, Phases, Statuses
  <2>5. Alone(p) /\ UNCHANGED disk
    BY <1>1, <1>2, <1>3, <2>1, <2>2, <2>3 DEF PlannerInv, Invoke, PlannerTypeOK, Local, Alone, disk
  <2>6. PlannerOK(p)'
    BY <1>1, <1>2, <1>3, <2>1, <2>2, <2>3 DEF PlannerInv, Invoke, PlannerTypeOK, Local, PlannerOK, AttemptOK,
        Heard, OpsAt, Ops, Opening, Producing, Before, Launched, Collected, This, disk
  <2>7. AttemptOK(a)'
    BY <1>1, <1>2, <1>3, <2>1, <2>2, <2>3 DEF PlannerInv, Invoke, PlannerTypeOK, Local, PlannerOK, AttemptOK,
        Heard, OpsAt, Ops, Before, Launched, Collected, disk
  <2> QED
    BY <1>1, <1>2, <1>3, <2>1, <2>2, <2>4, <2>5, <2>6, <2>7, Works DEF Local, Producing, Ended
<1>4. CASE /\ faults < MaxFaults /\ faults' = faults + 1 /\ UNCHANGED worker
             /\ pl' = [pl EXCEPT ![p].pc = "terminal", ![p].result = "error"]
  <2>1. Local(p, "terminal", pl[p].n, pl[p].blocked, "error") /\ fence' = fence
    BY <1>1, <1>2, <1>4, ResultLocal DEF PlannerInv, Invoke, PlannerPcs, Ended, Producing, Results
  <2>2. op' = op
    BY <1>1, <1>2, <1>4 DEF Invoke
  <2>3. PlannerTypeOK'
    BY <1>1, <1>2, <1>4, <2>1, <2>2, SessionAssumption DEF PlannerInv, Invoke, PlannerTypeOK, Local, Locals,
        PlannerPcs, Ended, Results, OpStates, disk, Workers, Phases, Statuses
  <2>4. Alone(p) /\ UNCHANGED disk
    BY <1>1, <1>2, <1>4, <2>1, <2>2 DEF PlannerInv, Invoke, PlannerTypeOK, Local, Alone, disk
  <2>5. PlannerOK(p)'
    BY <1>1, <1>2, <1>4, <2>1, <2>2 DEF PlannerInv, Invoke, PlannerTypeOK, Local, PlannerOK, AttemptOK, Heard,
        OpsAt, Ops, Opening, Producing, Before, Launched, Collected, This, disk
  <2>6. AttemptOK(a)'
    BY <1>1, <1>2, <1>4, <2>1, <2>2 DEF PlannerInv, Invoke, PlannerTypeOK, Local, PlannerOK, AttemptOK, Heard,
        OpsAt, Ops, Before, Launched, Collected, disk
  <2> QED
    BY <1>1, <1>2, <1>4, <2>1, <2>3, <2>4, <2>5, <2>6, Works DEF Local, Producing, Ended
<1> QED
  BY <1>3, <1>4 DEF Invoke

LEMMA LoopFailsKeeps ==
  ASSUME PlannerInv, NEW p \in Planners, LoopFails(p)
  PROVE  PlannerInv'
<1>1. pl[p].pc \in {"running", "poll", "ack"}
  BY DEF LoopFails
<1>2. PICK a \in Attempts : /\ a = This(p) /\ a[1] = p /\ a[2] = pl[p].n /\ pl[p].n \in 1..MaxRetries
                           /\ op[a] = OpsAt(pl[p].pc) /\ PlannerOK(p) /\ AttemptOK(a)
  BY <1>1, ThisAttempt DEF Producing, PlannerInv
<1>3. Local(p, "unwind", pl[p].n, pl[p].blocked, "error") /\ fence' = fence
  BY <1>1, <1>2, ResultLocal DEF PlannerInv, LoopFails, PlannerPcs, Ended, Producing, Results, work
<1>4. op' = op
  BY <1>1, <1>2 DEF LoopFails, work
<1>5. PlannerTypeOK'
  BY <1>1, <1>2, <1>3, <1>4, SessionAssumption DEF PlannerInv, LoopFails, PlannerTypeOK, Local, Locals, PlannerPcs,
      Ended, Results, OpStates, disk, work, Workers, Phases, Statuses
<1>6. Alone(p) /\ UNCHANGED disk
  BY <1>1, <1>2, <1>3, <1>4 DEF PlannerInv, LoopFails, PlannerTypeOK, Local, Alone, disk, work
<1>7. PlannerOK(p)'
  BY <1>1, <1>2, <1>3, <1>4 DEF PlannerInv, LoopFails, PlannerTypeOK, Local, PlannerOK, AttemptOK, Heard,
      OpsAt, Ops, Opening, Producing, Before, Launched, Collected, This, disk, work
<1>8. AttemptOK(a)'
  BY <1>1, <1>2, <1>3, <1>4 DEF PlannerInv, LoopFails, PlannerTypeOK, Local, PlannerOK, AttemptOK, Heard,
      OpsAt, Ops, Before, Launched, Collected, disk, work
<1> QED
  BY <1>1, <1>2, <1>3, <1>5, <1>6, <1>7, <1>8, Works DEF Local, Producing, Ended

LEMMA MarkRunningKeeps ==
  ASSUME PlannerInv, NEW p \in Planners, MarkRunning(p)
  PROVE  PlannerInv'
<1>1. pl[p].pc = "running"
  BY DEF MarkRunning, At
<1>2. PICK a \in Attempts : /\ a = This(p) /\ a[1] = p /\ a[2] = pl[p].n /\ pl[p].n \in 1..MaxRetries
                           /\ op[a] = OpsAt(pl[p].pc) /\ PlannerOK(p) /\ AttemptOK(a)
  BY <1>1, ThisAttempt DEF Producing, PlannerInv
<1>3. Local(p, "poll", pl[p].n, pl[p].blocked, pl[p].result) /\ fence' = fence
  BY <1>1, <1>2, GoLocal DEF PlannerInv, MarkRunning, PlannerPcs, Ended, Producing, Elsewhere
<1>4. op' = op
  BY <1>1, <1>2 DEF MarkRunning, Elsewhere
<1>5. PlannerTypeOK'
  BY <1>1, <1>2, <1>3, <1>4, SessionAssumption DEF PlannerInv, MarkRunning, PlannerTypeOK, Local, Locals, PlannerPcs,
      Ended, Results, OpStates, Elsewhere, disk, Workers, Phases, Statuses
<1>6. Alone(p) /\ UNCHANGED disk
  BY <1>1, <1>2, <1>3, <1>4 DEF PlannerInv, MarkRunning, PlannerTypeOK, Local, Alone, Elsewhere, disk
<1>7. PlannerOK(p)'
  BY <1>1, <1>2, <1>3, <1>4 DEF PlannerInv, MarkRunning, PlannerTypeOK, Local, PlannerOK, AttemptOK, Heard,
      OpsAt, Ops, Opening, Producing, Before, Launched, Collected, This, Elsewhere, disk
<1>8. AttemptOK(a)'
  BY <1>1, <1>2, <1>3, <1>4 DEF PlannerInv, MarkRunning, PlannerTypeOK, Local, PlannerOK, AttemptOK, Heard,
      OpsAt, Ops, Before, Launched, Collected, Elsewhere, disk
<1> QED
  BY <1>1, <1>2, <1>3, <1>5, <1>6, <1>7, <1>8, Works DEF Local, Producing, Ended

LEMMA PollKeeps ==
  ASSUME PlannerInv, NEW p \in Planners, Poll(p)
  PROVE  PlannerInv'
<1>1. pl[p].pc = "poll"
  BY DEF Poll, At
<1>2. PICK a \in Attempts : /\ a = This(p) /\ a[1] = p /\ a[2] = pl[p].n /\ pl[p].n \in 1..MaxRetries
                           /\ op[a] = OpsAt(pl[p].pc) /\ PlannerOK(p) /\ AttemptOK(a)
  BY <1>1, ThisAttempt DEF Producing, PlannerInv
<1>3. PICK pc \in {"cancel", "collect"} : Go(p, pc) /\ (pc = "cancel" => request[a] = "Pending")
  BY <1>1, <1>2 DEF Poll, cancellation_requests
<1>4. Local(p, pc, pl[p].n, pl[p].blocked, pl[p].result) /\ fence' = fence
  BY <1>1, <1>2, <1>3, GoLocal DEF PlannerInv, Poll, PlannerPcs, Ended, Producing, Elsewhere, work
<1>5. op' = op
  BY <1>1, <1>2, <1>3 DEF Poll, Elsewhere, work
<1>6. PlannerTypeOK'
  BY <1>1, <1>2, <1>3, <1>4, <1>5, SessionAssumption DEF PlannerInv, Poll, PlannerTypeOK, Local, Locals, PlannerPcs,
      Ended, Results, OpStates, Elsewhere, disk, work, Workers, Phases, Statuses
<1>7. Alone(p) /\ UNCHANGED disk
  BY <1>1, <1>2, <1>3, <1>4, <1>5 DEF PlannerInv, Poll, PlannerTypeOK, Local, Alone, Elsewhere, disk, work
<1>8. PlannerOK(p)'
  BY <1>1, <1>2, <1>3, <1>4, <1>5 DEF PlannerInv, Poll, PlannerTypeOK, Local, PlannerOK, AttemptOK, Heard,
      OpsAt, Ops, Opening, Producing, Before, Launched, Collected, This, Elsewhere, disk, work
<1>9. AttemptOK(a)'
  BY <1>1, <1>2, <1>3, <1>4, <1>5 DEF PlannerInv, Poll, PlannerTypeOK, Local, PlannerOK, AttemptOK, Heard,
      OpsAt, Ops, Before, Launched, Collected, Elsewhere, disk, work
<1> QED
  BY <1>1, <1>2, <1>3, <1>4, <1>6, <1>7, <1>8, <1>9, Works DEF Local, Producing, Ended

LEMMA CancelKeeps ==
  ASSUME PlannerInv, NEW p \in Planners, Cancel(p)
  PROVE  PlannerInv'
<1>1. pl[p].pc = "cancel"
  BY DEF Cancel, At
<1>2. PICK a \in Attempts : /\ a = This(p) /\ a[1] = p /\ a[2] = pl[p].n /\ pl[p].n \in 1..MaxRetries
                           /\ op[a] = OpsAt(pl[p].pc) /\ PlannerOK(p) /\ AttemptOK(a)
  BY <1>1, ThisAttempt DEF Producing, PlannerInv
<1>3. PICK result \in {"cancelled", "none"} :
         /\ pl' = [pl EXCEPT ![p].pc = "ack", ![p].tried = TRUE, ![p].result = result]
         /\ \/ worker' = [worker EXCEPT ![a] = IF @ = "live" THEN "killed" ELSE @]
            \/ result = "none" /\ worker' = worker
         /\ result = "cancelled" => platform = "windows"
         /\ UNCHANGED <<Elsewhere, fence, op, worktree, driver>>
  BY <1>1, <1>2 DEF Cancel, CancelOwned
<1>4. Local(p, "ack", pl[p].n, pl[p].blocked, result) /\ fence' = fence
  BY <1>1, <1>2, <1>3, TriedLocal DEF PlannerInv, PlannerPcs, Ended, Producing, Results, Elsewhere
<1>5. op' = op
  BY <1>1, <1>2, <1>3 DEF Elsewhere
<1>6. worker' \in [Attempts -> Workers]
  BY <1>2, <1>3 DEF PlannerInv, PlannerTypeOK, Workers
<1>7. PlannerTypeOK'
  BY <1>1, <1>2, <1>3, <1>4, <1>5, <1>6, SessionAssumption DEF PlannerInv, PlannerTypeOK, Local, Locals, PlannerPcs,
      Ended, Results, OpStates, Elsewhere, disk, Workers, Phases, Statuses
<1>8. Alone(p) /\ UNCHANGED disk
  BY <1>1, <1>2, <1>3, <1>4, <1>5, <1>6 DEF PlannerInv, PlannerTypeOK, Local, Alone, Elsewhere, disk
<1>9. PlannerOK(p)'
  BY <1>1, <1>2, <1>3, <1>4, <1>5, <1>6 DEF PlannerInv, PlannerTypeOK, Local, PlannerOK, AttemptOK, Heard,
      OpsAt, Ops, Opening, Producing, Before, Launched, Collected, This, Elsewhere, disk
<1>10. AttemptOK(a)'
  BY <1>1, <1>2, <1>3, <1>4, <1>5, <1>6 DEF PlannerInv, PlannerTypeOK, Local, PlannerOK, AttemptOK, Heard,
      OpsAt, Ops, Before, Launched, Collected, Elsewhere, disk
<1> QED
  BY <1>1, <1>2, <1>3, <1>4, <1>7, <1>8, <1>9, <1>10, Works DEF Local, Producing, Ended

LEMMA AcknowledgeKeeps ==
  ASSUME PlannerInv, NEW p \in Planners, Acknowledge(p)
  PROVE  PlannerInv'
<1>1. pl[p].pc = "ack"
  BY DEF Acknowledge, At
<1>2. PICK a \in Attempts : /\ a = This(p) /\ a[1] = p /\ a[2] = pl[p].n /\ pl[p].n \in 1..MaxRetries
                           /\ op[a] = OpsAt(pl[p].pc) /\ PlannerOK(p) /\ AttemptOK(a)
  BY <1>1, ThisAttempt DEF Producing, PlannerInv
<1>3. CASE pl[p].result = "cancelled"
  <2>1. Local(p, "terminal", pl[p].n, FALSE, pl[p].result) /\ fence' = fence
    BY <1>1, <1>2, <1>3, BlockedLocal DEF PlannerInv, Acknowledge, PlannerPcs, Ended, Producing, work
  <2>2. op' = op
    BY <1>1, <1>2, <1>3 DEF Acknowledge, work
  <2>3. PlannerTypeOK'
    BY <1>1, <1>2, <1>3, <2>1, <2>2, SessionAssumption DEF PlannerInv, Acknowledge, PlannerTypeOK, Local,
        Locals, PlannerPcs, Ended, Results, OpStates, disk, work, Workers, Phases, Statuses
  <2>4. Alone(p) /\ UNCHANGED disk
    BY <1>1, <1>2, <1>3, <2>1, <2>2 DEF PlannerInv, Acknowledge, PlannerTypeOK, Local, Alone, disk, work
  <2>5. PlannerOK(p)'
    BY <1>1, <1>2, <1>3, <2>1, <2>2 DEF PlannerInv, Acknowledge, PlannerTypeOK, Local, PlannerOK, AttemptOK,
        Heard, OpsAt, Ops, Opening, Producing, Before, Launched, Collected, This, disk, work
  <2>6. AttemptOK(a)'
    BY <1>1, <1>2, <1>3, <2>1, <2>2 DEF PlannerInv, Acknowledge, PlannerTypeOK, Local, PlannerOK, AttemptOK,
        Heard, OpsAt, Ops, Before, Launched, Collected, disk, work
  <2> QED
    BY <1>1, <1>2, <1>3, <2>1, <2>3, <2>4, <2>5, <2>6, Works DEF Local, Producing, Ended
<1>4. CASE pl[p].result # "cancelled"
  <2>1. Local(p, "collect", pl[p].n, TRUE, pl[p].result) /\ fence' = fence
    BY <1>1, <1>2, <1>4, BlockedLocal DEF PlannerInv, Acknowledge, PlannerPcs, Ended, Producing, work
  <2>2. op' = op
    BY <1>1, <1>2, <1>4 DEF Acknowledge, work
  <2>3. PlannerTypeOK'
    BY <1>1, <1>2, <1>4, <2>1, <2>2, SessionAssumption DEF PlannerInv, Acknowledge, PlannerTypeOK, Local,
        Locals, PlannerPcs, Ended, Results, OpStates, disk, work, Workers, Phases, Statuses
  <2>4. Alone(p) /\ UNCHANGED disk
    BY <1>1, <1>2, <1>4, <2>1, <2>2 DEF PlannerInv, Acknowledge, PlannerTypeOK, Local, Alone, disk, work
  <2>5. PlannerOK(p)'
    BY <1>1, <1>2, <1>4, <2>1, <2>2 DEF PlannerInv, Acknowledge, PlannerTypeOK, Local, PlannerOK, AttemptOK,
        Heard, OpsAt, Ops, Opening, Producing, Before, Launched, Collected, This, disk, work
  <2>6. AttemptOK(a)'
    BY <1>1, <1>2, <1>4, <2>1, <2>2 DEF PlannerInv, Acknowledge, PlannerTypeOK, Local, PlannerOK, AttemptOK,
        Heard, OpsAt, Ops, Before, Launched, Collected, disk, work
  <2> QED
    BY <1>1, <1>2, <1>4, <2>1, <2>3, <2>4, <2>5, <2>6, Works DEF Local, Producing, Ended
<1> QED
  BY <1>3, <1>4 DEF Acknowledge

LEMMA CollectKeeps ==
  ASSUME PlannerInv, NEW p \in Planners, Collect(p)
  PROVE  PlannerInv'
<1>1. pl[p].pc = "collect"
  BY DEF Collect, At
<1>2. PICK a \in Attempts : /\ a = This(p) /\ a[1] = p /\ a[2] = pl[p].n /\ pl[p].n \in 1..MaxRetries
                           /\ op[a] = OpsAt(pl[p].pc) /\ PlannerOK(p) /\ AttemptOK(a)
  BY <1>1, ThisAttempt DEF Producing, PlannerInv
<1>3. CASE /\ Done(This(p)) /\ UNCHANGED <<worker, faults>>
             /\ pl' = [pl EXCEPT ![p].pc = "terminal", ![p].result = Outcome(p)]
  <2>1. Local(p, "terminal", pl[p].n, pl[p].blocked, Outcome(p)) /\ fence' = fence
    BY <1>1, <1>2, <1>3, ResultLocal DEF PlannerInv, Collect, PlannerPcs, Ended, Producing, Results, Outcome
  <2>2. op' = op
    BY <1>1, <1>2, <1>3 DEF Collect
  <2>3. PlannerTypeOK'
    BY <1>1, <1>2, <1>3, <2>1, <2>2, SessionAssumption DEF PlannerInv, Collect, Done, Outcome, PlannerTypeOK,
        Local, Locals, PlannerPcs, Ended, Results, OpStates, disk, Workers, Phases, Statuses
  <2>4. Alone(p) /\ UNCHANGED disk
    BY <1>1, <1>2, <1>3, <2>1, <2>2 DEF PlannerInv, Collect, Done, Outcome, PlannerTypeOK, Local, Alone, disk
  <2>5. PlannerOK(p)'
    BY <1>1, <1>2, <1>3, <2>1, <2>2 DEF PlannerInv, Collect, Done, Outcome, PlannerTypeOK, Local, PlannerOK,
        AttemptOK, Heard, OpsAt, Ops, Opening, Producing, Before, Launched, Collected, This, disk
  <2>6. AttemptOK(a)'
    BY <1>1, <1>2, <1>3, <2>1, <2>2 DEF PlannerInv, Collect, Done, Outcome, PlannerTypeOK, Local, PlannerOK,
        AttemptOK, Heard, OpsAt, Ops, Before, Launched, Collected, disk
  <2> QED
    BY <1>1, <1>2, <1>3, <2>1, <2>3, <2>4, <2>5, <2>6, Works DEF Local, Producing, Ended
<1>4. CASE ~Done(This(p)) /\ Controlled /\ Go(p, "poll") /\ UNCHANGED <<worker, faults>>
  <2>1. Local(p, "poll", pl[p].n, pl[p].blocked, pl[p].result) /\ fence' = fence
    BY <1>1, <1>2, <1>4, GoLocal DEF PlannerInv, Collect, PlannerPcs, Ended, Producing
  <2>2. op' = op
    BY <1>1, <1>2, <1>4 DEF Collect
  <2>3. PlannerTypeOK'
    BY <1>1, <1>2, <1>4, <2>1, <2>2, SessionAssumption DEF PlannerInv, Collect, Done, Outcome, PlannerTypeOK,
        Local, Locals, PlannerPcs, Ended, Results, OpStates, disk, Workers, Phases, Statuses
  <2>4. Alone(p) /\ UNCHANGED disk
    BY <1>1, <1>2, <1>4, <2>1, <2>2 DEF PlannerInv, Collect, Done, Outcome, PlannerTypeOK, Local, Alone, disk
  <2>5. PlannerOK(p)'
    BY <1>1, <1>2, <1>4, <2>1, <2>2 DEF PlannerInv, Collect, Done, Outcome, PlannerTypeOK, Local, PlannerOK,
        AttemptOK, Heard, OpsAt, Ops, Opening, Producing, Before, Launched, Collected, This, disk
  <2>6. AttemptOK(a)'
    BY <1>1, <1>2, <1>4, <2>1, <2>2 DEF PlannerInv, Collect, Done, Outcome, PlannerTypeOK, Local, PlannerOK,
        AttemptOK, Heard, OpsAt, Ops, Before, Launched, Collected, disk
  <2> QED
    BY <1>1, <1>2, <1>4, <2>1, <2>3, <2>4, <2>5, <2>6, Works DEF Local, Producing, Ended
<1>5. CASE /\ faults < MaxFaults /\ faults' = faults + 1
             /\ worker' = [worker EXCEPT ![This(p)] = IF @ = "live" THEN "killed" ELSE @]
             /\ pl' = [pl EXCEPT ![p].pc = "unwind", ![p].result = "error"]
  <2>1. Local(p, "unwind", pl[p].n, pl[p].blocked, "error") /\ fence' = fence
    BY <1>1, <1>2, <1>5, ResultLocal DEF PlannerInv, Collect, PlannerPcs, Ended, Producing, Results
  <2>2. op' = op
    BY <1>1, <1>2, <1>5 DEF Collect
  <2>3. PlannerTypeOK'
    BY <1>1, <1>2, <1>5, <2>1, <2>2, SessionAssumption DEF PlannerInv, Collect, Done, Outcome, PlannerTypeOK,
        Local, Locals, PlannerPcs, Ended, Results, OpStates, disk, Workers, Phases, Statuses
  <2>4. Alone(p) /\ UNCHANGED disk
    BY <1>1, <1>2, <1>5, <2>1, <2>2 DEF PlannerInv, Collect, Done, Outcome, PlannerTypeOK, Local, Alone, disk
  <2>5. PlannerOK(p)'
    BY <1>1, <1>2, <1>5, <2>1, <2>2 DEF PlannerInv, Collect, Done, Outcome, PlannerTypeOK, Local, PlannerOK,
        AttemptOK, Heard, OpsAt, Ops, Opening, Producing, Before, Launched, Collected, This, disk
  <2>6. AttemptOK(a)'
    BY <1>1, <1>2, <1>5, <2>1, <2>2 DEF PlannerInv, Collect, Done, Outcome, PlannerTypeOK, Local, PlannerOK,
        AttemptOK, Heard, OpsAt, Ops, Before, Launched, Collected, disk
  <2> QED
    BY <1>1, <1>2, <1>5, <2>1, <2>3, <2>4, <2>5, <2>6, Works DEF Local, Producing, Ended
<1> QED
  BY <1>3, <1>4, <1>5 DEF Collect

LEMMA UnwindKeeps ==
  ASSUME PlannerInv, NEW p \in Planners, Unwind(p)
  PROVE  PlannerInv'
<1>1. pl[p].pc = "unwind"
  BY DEF Unwind, At
<1>2. PICK a \in Attempts : /\ a = This(p) /\ a[1] = p /\ a[2] = pl[p].n /\ pl[p].n \in 1..MaxRetries
                           /\ op[a] = OpsAt(pl[p].pc) /\ PlannerOK(p) /\ AttemptOK(a)
  BY <1>1, ThisAttempt DEF Producing, PlannerInv
<1>3. Local(p, "terminal", pl[p].n, pl[p].blocked, pl[p].result) /\ fence' = fence
  BY <1>1, <1>2, GoLocal DEF PlannerInv, Unwind, PlannerPcs, Ended, Producing, Elsewhere
<1>4. op' = op
  BY <1>1, <1>2 DEF Unwind, Elsewhere
<1>5. PlannerTypeOK'
  BY <1>1, <1>2, <1>3, <1>4, SessionAssumption DEF PlannerInv, Unwind, CancelOwned, PlannerTypeOK, Local,
      Locals, PlannerPcs, Ended, Results, OpStates, Elsewhere, disk, Workers, Phases, Statuses
<1>6. Alone(p) /\ UNCHANGED disk
  BY <1>1, <1>2, <1>3, <1>4 DEF PlannerInv, Unwind, CancelOwned, PlannerTypeOK, Local, Alone, Elsewhere, disk
<1>7. PlannerOK(p)'
  BY <1>1, <1>2, <1>3, <1>4 DEF PlannerInv, Unwind, CancelOwned, PlannerTypeOK, Local, PlannerOK, AttemptOK,
      Heard, OpsAt, Ops, Opening, Producing, Before, Launched, Collected, This, Elsewhere, disk
<1>8. AttemptOK(a)'
  BY <1>1, <1>2, <1>3, <1>4 DEF PlannerInv, Unwind, CancelOwned, PlannerTypeOK, Local, PlannerOK, AttemptOK,
      Heard, OpsAt, Ops, Before, Launched, Collected, Elsewhere, disk
<1> QED
  BY <1>1, <1>2, <1>3, <1>5, <1>6, <1>7, <1>8, Works DEF Local, Producing, Ended

LEMMA TerminalKeeps ==
  ASSUME PlannerInv, NEW p \in Planners, Terminal(p)
  PROVE  PlannerInv'
<1>1. pl[p].pc = "terminal"
  BY DEF Terminal, At
<1>2. PICK a \in Attempts : /\ a = This(p) /\ a[1] = p /\ a[2] = pl[p].n /\ pl[p].n \in 1..MaxRetries
                           /\ op[a] = OpsAt(pl[p].pc) /\ PlannerOK(p) /\ AttemptOK(a)
  BY <1>1, ThisAttempt DEF Producing, PlannerInv
<1>3. CASE pl[p].result = "outcome" /\ Go(p, "drain") /\ UNCHANGED <<fence, faults>>
  <2>1. Local(p, "drain", pl[p].n, pl[p].blocked, pl[p].result) /\ fence' = fence
    BY <1>1, <1>2, <1>3, GoLocal DEF PlannerInv, Terminal, PlannerPcs, Ended, Producing
  <2>2. op' = op
    BY <1>1, <1>2, <1>3 DEF Terminal
  <2>3. PlannerTypeOK'
    BY <1>1, <1>2, <1>3, <2>1, <2>2, SessionAssumption DEF PlannerInv, Terminal, PlannerTypeOK, Local, Locals,
        PlannerPcs, Ended, Results, OpStates, disk, Workers, Phases, Statuses
  <2>4. Alone(p) /\ UNCHANGED disk
    BY <1>1, <1>2, <1>3, <2>1, <2>2 DEF PlannerInv, Terminal, PlannerTypeOK, Local, Alone, disk
  <2>5. PlannerOK(p)'
    BY <1>1, <1>2, <1>3, <2>1, <2>2 DEF PlannerInv, Terminal, PlannerTypeOK, Local, PlannerOK, AttemptOK,
        Heard, OpsAt, Ops, Opening, Producing, Before, Launched, Collected, This, disk
  <2>6. AttemptOK(a)'
    BY <1>1, <1>2, <1>3, <2>1, <2>2 DEF PlannerInv, Terminal, PlannerTypeOK, Local, PlannerOK, AttemptOK,
        Heard, OpsAt, Ops, Before, Launched, Collected, disk
  <2> QED
    BY <1>1, <1>2, <1>3, <2>1, <2>3, <2>4, <2>5, <2>6, Works DEF Local, Producing, Ended
<1>4. CASE Leaves(p, "failed")
  <2>1. Local(p, "failed", pl[p].n, FALSE, "none") /\ Released(p)
    BY <1>1, <1>2, <1>4, LeavesLocal DEF PlannerInv, Terminal, Ended
  <2>2. op' = op
    BY <1>1, <1>2, <1>4 DEF Terminal
  <2>3. PlannerTypeOK'
    BY <1>1, <1>2, <1>4, <2>1, <2>2, SessionAssumption DEF PlannerInv, Terminal, PlannerTypeOK, Local, Locals,
        PlannerPcs, Ended, Results, Released, OpStates, disk, Workers, Phases, Statuses
  <2>4. Alone(p) /\ UNCHANGED disk
    BY <1>1, <1>2, <1>4, <2>1, <2>2 DEF PlannerInv, Terminal, PlannerTypeOK, Local, Alone, disk
  <2>5. PlannerOK(p)'
    BY <1>1, <1>2, <1>4, <2>1, <2>2 DEF PlannerInv, Terminal, PlannerTypeOK, Local, PlannerOK, AttemptOK,
        Heard, OpsAt, Ops, Opening, Producing, Before, Launched, Collected, This, disk
  <2>6. AttemptOK(a)'
    BY <1>1, <1>2, <1>4, <2>1, <2>2 DEF PlannerInv, Terminal, PlannerTypeOK, Local, PlannerOK, AttemptOK,
        Heard, OpsAt, Ops, Before, Launched, Collected, disk
  <2> QED
    BY <1>1, <1>2, <1>4, <2>1, <2>3, <2>4, <2>5, <2>6, Works DEF Local, Producing, Ended
<1> QED
  BY <1>3, <1>4 DEF Terminal

LEMMA DrainKeeps ==
  ASSUME PlannerInv, NEW p \in Planners, Drain(p)
  PROVE  PlannerInv'
<1>1. pl[p].pc = "drain"
  BY DEF Drain, At
<1>2. PICK a \in Attempts : /\ a = This(p) /\ a[1] = p /\ a[2] = pl[p].n /\ pl[p].n \in 1..MaxRetries
                           /\ op[a] = OpsAt(pl[p].pc) /\ PlannerOK(p) /\ AttemptOK(a)
  BY <1>1, ThisAttempt DEF Producing, PlannerInv
<1>3. Local(p, "preserve", pl[p].n, pl[p].blocked, pl[p].result) /\ fence' = fence
  BY <1>1, <1>2, GoLocal DEF PlannerInv, Drain, PlannerPcs, Ended, Producing, work
<1>4. op' = op
  BY <1>1, <1>2 DEF Drain, work
<1>5. PlannerTypeOK'
  BY <1>1, <1>2, <1>3, <1>4, SessionAssumption DEF PlannerInv, Drain, cancellation_requests, PlannerTypeOK,
      Local, Locals, PlannerPcs, Ended, Results, OpStates, disk, work, Workers, Phases, Statuses
<1>6. Alone(p) /\ UNCHANGED disk
  BY <1>1, <1>2, <1>3, <1>4 DEF PlannerInv, Drain, cancellation_requests, PlannerTypeOK, Local, Alone, disk,
      work
<1>7. PlannerOK(p)'
  BY <1>1, <1>2, <1>3, <1>4 DEF PlannerInv, Drain, cancellation_requests, PlannerTypeOK, Local, PlannerOK,
      AttemptOK, Heard, OpsAt, Ops, Opening, Producing, Before, Launched, Collected, This, disk,
      work
<1>8. AttemptOK(a)'
  BY <1>1, <1>2, <1>3, <1>4 DEF PlannerInv, Drain, cancellation_requests, PlannerTypeOK, Local, PlannerOK,
      AttemptOK, Heard, OpsAt, Ops, Before, Launched, Collected, disk, work
<1> QED
  BY <1>1, <1>2, <1>3, <1>5, <1>6, <1>7, <1>8, Works DEF Local, Producing, Ended

LEMMA SpawnedKeeps ==
  ASSUME PlannerInv, NEW p \in Planners, Spawned(p)
  PROVE  PlannerInv'
<1>1. pl[p].pc = "preserve"
  BY DEF Spawned, At
<1>2. PICK a \in Attempts : /\ a = This(p) /\ a[1] = p /\ a[2] = pl[p].n /\ pl[p].n \in 1..MaxRetries
                           /\ op[a] = OpsAt(pl[p].pc) /\ PlannerOK(p) /\ AttemptOK(a)
  BY <1>1, ThisAttempt DEF Producing, PlannerInv
<1>3. Local(p, "parse", pl[p].n, pl[p].blocked, pl[p].result) /\ fence' = fence
  BY <1>1, <1>2, GoLocal DEF PlannerInv, Spawned, PlannerPcs, Ended, Producing, Elsewhere
<1>4. Operate(a, Ops("completed", "completed", "pending"))
  BY <1>1, <1>2, Operating DEF PlannerInv, Spawned, OpsAt, Ops, OpStates, Step, append_operation_step
<1>5. PlannerTypeOK'
  BY <1>1, <1>2, <1>3, <1>4, SessionAssumption DEF PlannerInv, Spawned, PlannerTypeOK, Local, Locals, PlannerPcs,
      Ended, Results, Operate, Operations, OpStates, Elsewhere, disk, Workers, Phases, Statuses
<1>6. Alone(p) /\ UNCHANGED disk
  BY <1>1, <1>2, <1>3, <1>4 DEF PlannerInv, Spawned, PlannerTypeOK, Local, Operate, Alone, Elsewhere, disk
<1>7. PlannerOK(p)'
  BY <1>1, <1>2, <1>3, <1>4 DEF PlannerInv, Spawned, PlannerTypeOK, Local, Operate, PlannerOK, AttemptOK,
      Heard, OpsAt, Ops, Opening, Producing, Before, Launched, Collected, This, Elsewhere, disk
<1>8. AttemptOK(a)'
  BY <1>1, <1>2, <1>3, <1>4 DEF PlannerInv, Spawned, PlannerTypeOK, Local, Operate, PlannerOK, AttemptOK,
      Heard, OpsAt, Ops, Before, Launched, Collected, Elsewhere, disk
<1> QED
  BY <1>1, <1>2, <1>3, <1>5, <1>6, <1>7, <1>8, Works DEF Local, Producing, Ended

LEMMA ParseKeeps ==
  ASSUME PlannerInv, NEW p \in Planners, Parse(p)
  PROVE  PlannerInv'
<1>1. pl[p].pc = "parse"
  BY DEF Parse, At
<1>2. PICK a \in Attempts : /\ a = This(p) /\ a[1] = p /\ a[2] = pl[p].n /\ pl[p].n \in 1..MaxRetries
                           /\ op[a] = OpsAt(pl[p].pc) /\ PlannerOK(p) /\ AttemptOK(a)
  BY <1>1, ThisAttempt DEF Producing, PlannerInv
<1>3. CASE worker[This(p)] = "plan" /\ Step(This(p), "plan", "completed") /\ Leaves(p, "planned")
  <2>1. Local(p, "planned", pl[p].n, FALSE, "none") /\ Released(p)
    BY <1>1, <1>2, <1>3, LeavesLocal DEF PlannerInv, Parse, Ended, Elsewhere
  <2>2. Operate(a, Ops("completed", "completed", "completed"))
    BY <1>1, <1>2, <1>3, Operating DEF PlannerInv, Parse, OpsAt, Ops, OpStates, Step,
        append_operation_step
  <2>3. PlannerTypeOK'
    BY <1>1, <1>2, <1>3, <2>1, <2>2, SessionAssumption DEF PlannerInv, Parse, PlannerTypeOK, Local, Locals,
        PlannerPcs, Ended, Results, Operate, Operations, Released, OpStates, Elsewhere, disk, Workers,
        Phases, Statuses
  <2>4. Alone(p) /\ UNCHANGED disk
    BY <1>1, <1>2, <1>3, <2>1, <2>2 DEF PlannerInv, Parse, PlannerTypeOK, Local, Operate, Alone, Elsewhere,
        disk
  <2>5. PlannerOK(p)'
    BY <1>1, <1>2, <1>3, <2>1, <2>2 DEF PlannerInv, Parse, PlannerTypeOK, Local, Operate, PlannerOK, AttemptOK,
        Heard, OpsAt, Ops, Opening, Producing, Before, Launched, Collected, This, Elsewhere, disk
  <2>6. AttemptOK(a)'
    BY <1>1, <1>2, <1>3, <2>1, <2>2 DEF PlannerInv, Parse, PlannerTypeOK, Local, Operate, PlannerOK, AttemptOK,
        Heard, OpsAt, Ops, Before, Launched, Collected, Elsewhere, disk
  <2> QED
    BY <1>1, <1>2, <1>3, <2>1, <2>3, <2>4, <2>5, <2>6, Works DEF Local, Producing, Ended
<1>4. CASE worker[This(p)] # "plan" /\ Step(This(p), "plan", "blocked") /\ Leaves(p, "failed")
  <2>1. Local(p, "failed", pl[p].n, FALSE, "none") /\ Released(p)
    BY <1>1, <1>2, <1>4, LeavesLocal DEF PlannerInv, Parse, Ended, Elsewhere
  <2>2. Operate(a, Ops("completed", "completed", "blocked"))
    BY <1>1, <1>2, <1>4, Operating DEF PlannerInv, Parse, OpsAt, Ops, OpStates, Step,
        append_operation_step
  <2>3. PlannerTypeOK'
    BY <1>1, <1>2, <1>4, <2>1, <2>2, SessionAssumption DEF PlannerInv, Parse, PlannerTypeOK, Local, Locals,
        PlannerPcs, Ended, Results, Operate, Operations, Released, OpStates, Elsewhere, disk, Workers,
        Phases, Statuses
  <2>4. Alone(p) /\ UNCHANGED disk
    BY <1>1, <1>2, <1>4, <2>1, <2>2 DEF PlannerInv, Parse, PlannerTypeOK, Local, Operate, Alone, Elsewhere,
        disk
  <2>5. PlannerOK(p)'
    BY <1>1, <1>2, <1>4, <2>1, <2>2 DEF PlannerInv, Parse, PlannerTypeOK, Local, Operate, PlannerOK, AttemptOK,
        Heard, OpsAt, Ops, Opening, Producing, Before, Launched, Collected, This, Elsewhere, disk
  <2>6. AttemptOK(a)'
    BY <1>1, <1>2, <1>4, <2>1, <2>2 DEF PlannerInv, Parse, PlannerTypeOK, Local, Operate, PlannerOK, AttemptOK,
        Heard, OpsAt, Ops, Before, Launched, Collected, Elsewhere, disk
  <2> QED
    BY <1>1, <1>2, <1>4, <2>1, <2>3, <2>4, <2>5, <2>6, Works DEF Local, Producing, Ended
<1>5. CASE /\ worker[This(p)] # "plan" /\ MayRetry(p) /\ Step(This(p), "plan", "blocked")
             /\ pl' = Fresh(p, "claim", pl[p].n + 1)
             /\ UNCHANGED <<Elsewhere, fence, worktree, worker, driver>>
  <2>1. pl[p].n + 1 \in 1..MaxRetries /\ pl[p].n + 1 \in 0..MaxRetries /\ pl[p].n \in Nat
    BY <1>1, <1>2, <1>5, SessionAssumption DEF MayRetry
  <2>2. <<p, pl[p].n + 1>> \in Attempts /\ <<p, pl[p].n + 1>> # a
    BY <1>1, <1>2, <1>5, <2>1 DEF Attempts
  <2>3. PICK b \in Attempts : b[1] = p /\ b[2] = pl[p].n + 1 /\ b = <<p, pl[p].n + 1>> /\ b # a
    BY <1>1, <1>2, <1>5, <2>1, <2>2
  <2>4. AttemptOK(b)
    BY <1>1, <1>2, <1>5, <2>1, <2>2, <2>3 DEF PlannerInv
  <2>5. op[b] = OpsAt("claim") /\ driver[b] = "none" /\ worker[b] = "none"
    BY <1>1, <1>2, <1>5, <2>1, <2>2, <2>3, <2>4 DEF AttemptOK
  <2>6. Local(p, "claim", pl[p].n + 1, FALSE, "none") /\ fence' = fence
    BY <1>1, <1>2, <1>5, <2>1, <2>2, <2>3, <2>4, <2>5, FreshLocal DEF PlannerInv, PlannerPcs, Ended, Producing,
        Elsewhere
  <2>7. Operate(a, Ops("completed", "completed", "blocked"))
    BY <1>1, <1>2, <1>5, <2>1, <2>2, <2>3, <2>4, <2>5, Operating DEF PlannerInv, OpsAt, Ops, OpStates,
        Step, append_operation_step
  <2>8. This(p)' = b /\ op'[b] = OpsAt("claim") /\ driver'[b] = "none" /\ worker'[b] = "none"
    BY <1>1, <1>2, <1>5, <2>1, <2>2, <2>3, <2>4, <2>5, <2>6, <2>7 DEF Local, Operate, This,
        Elsewhere
  <2>9. PlannerTypeOK'
    BY <1>1, <1>2, <1>5, <2>1, <2>2, <2>3, <2>4, <2>5, <2>6, <2>7, <2>8, SessionAssumption
       DEF PlannerInv, PlannerTypeOK, Local, Locals, PlannerPcs, Ended, Results, Operate, Operations, OpStates,
        Elsewhere, disk, Workers, Phases, Statuses
  <2>10. Alone(p) /\ UNCHANGED disk
    BY <1>1, <1>2, <1>5, <2>1, <2>2, <2>3, <2>4, <2>5, <2>6, <2>7, <2>8 DEF PlannerInv, PlannerTypeOK, Local,
        Operate, Alone, Elsewhere, disk
  <2>11. PlannerOK(p)'
    BY <1>1, <1>2, <1>5, <2>1, <2>2, <2>3, <2>4, <2>5, <2>6, <2>8 DEF Local, PlannerOK, Opening,
        Producing, Before, Launched, Collected
  <2>12. AttemptOK(a)'
    BY <1>1, <1>2, <1>5, <2>1, <2>2, <2>3, <2>4, <2>5, <2>6, <2>7, <2>8 DEF PlannerInv, PlannerTypeOK, Local,
        Operate, PlannerOK, AttemptOK, Heard, OpsAt, Ops, Before, Launched, Collected, Elsewhere,
        disk
  <2> QED
    BY <1>1, <1>2, <1>5, <2>1, <2>2, <2>3, <2>4, <2>5, <2>6, <2>9, <2>10, <2>11, <2>12, Works
       DEF Local, Producing, Ended
<1> QED
  BY <1>3, <1>4, <1>5 DEF Parse

LEMMA WriteFailsKeeps ==
  ASSUME PlannerInv, NEW p \in Planners, WriteFails(p)
  PROVE  PlannerInv'
<1>1. pl[p].pc \in {"claim", "added", "spawn", "output", "driver", "drain", "preserve", "parse"}
  BY DEF WriteFails
<1>2. PICK a \in Attempts : /\ a = This(p) /\ a[1] = p /\ a[2] = pl[p].n /\ pl[p].n \in 1..MaxRetries
                           /\ op[a] = OpsAt(pl[p].pc) /\ PlannerOK(p) /\ AttemptOK(a)
  BY <1>1, ThisAttempt DEF Producing, PlannerInv
<1>3. Local(p, "failed", pl[p].n, FALSE, "none") /\ Released(p)
  BY <1>1, <1>2, LeavesLocal DEF PlannerInv, WriteFails, Ended, work
<1>4. op' = op
  BY <1>1, <1>2 DEF WriteFails, work
<1>5. PlannerTypeOK'
  BY <1>1, <1>2, <1>3, <1>4, SessionAssumption DEF PlannerInv, WriteFails, PlannerTypeOK, Local, Locals, PlannerPcs,
      Ended, Results, Released, OpStates, disk, work, Workers, Phases, Statuses
<1>6. Alone(p) /\ UNCHANGED disk
  BY <1>1, <1>2, <1>3, <1>4 DEF PlannerInv, WriteFails, PlannerTypeOK, Local, Alone, disk, work
<1>7. PlannerOK(p)'
  BY <1>1, <1>2, <1>3, <1>4 DEF PlannerInv, WriteFails, PlannerTypeOK, Local, PlannerOK, AttemptOK, Heard,
      OpsAt, Ops, Opening, Producing, Before, Launched, Collected, This, disk, work
<1>8. AttemptOK(a)'
  BY <1>1, <1>2, <1>3, <1>4 DEF PlannerInv, WriteFails, PlannerTypeOK, Local, PlannerOK, AttemptOK, Heard,
      OpsAt, Ops, Before, Launched, Collected, disk, work
<1> QED
  BY <1>1, <1>2, <1>3, <1>5, <1>6, <1>7, <1>8, Works DEF Local, Producing, Ended

-----------------------------------------------------------------------------
(* The world around a planner.                                             *)

LEMMA DiesKeeps ==
  ASSUME PlannerInv, NEW p \in Planners, Dies(p)
  PROVE  PlannerInv'
<1>1. pl[p].pc \in (Opening \ {"off"}) \cup Producing /\ PlannerOK(p)
  BY DEF Dies, PlannerInv
<1>2. Local(p, "dead", pl[p].n, FALSE, "none") /\ Released(p)
  BY LeavesLocal DEF PlannerInv, Dies, Ended
<1>3. worker' \in [Attempts -> Workers]
  BY DEF PlannerInv, PlannerTypeOK, Dies, Workers
<1>4. PlannerTypeOK'
  BY <1>2, <1>3, SessionAssumption DEF PlannerInv, PlannerTypeOK, Local, Locals, PlannerPcs, Ended, Results, Released,
      Dies, disk
<1>5. ASSUME NEW b \in Attempts \ {This(p)}
      PROVE  worker'[b] = worker[b]
  <2>1. AttemptOK(b) /\ b[2] \in Nat /\ b = <<b[1], b[2]>> /\ pl[p].n \in Nat
    BY SessionAssumption DEF PlannerInv, PlannerTypeOK, Attempts
  <2>2. CASE b[1] = p
    <3>1. b[2] > pl[p].n \/ b[2] < pl[p].n
      BY <2>1, <2>2 DEF This
    <3> QED
      BY <2>1, <2>2, <3>1 DEF Dies, AttemptOK
  <2> QED
    BY <2>1, <2>2 DEF Dies
<1>6. Alone(p) /\ UNCHANGED disk
  BY <1>2, <1>5 DEF PlannerInv, PlannerTypeOK, Local, Alone, Dies, disk
<1>7. PlannerOK(p)'
  BY <1>2 DEF Local, PlannerOK, Opening, Producing, Before, Launched, Collected
<1>8. CASE pl[p].pc \in Opening
  <2>1. Exclusive'
    BY <1>1, <1>2, <1>8, SessionAssumption DEF PlannerInv, PlannerTypeOK, Local, Exclusive, Released, Fenced,
        Opening, Producing
  <2>2. Rooted'
    BY <1>2, <1>6 DEF PlannerInv, Local, Rooted, BootstrapHasProvenance, Fenced, Producing, disk
  <2> QED
    BY <1>4, <1>6, <1>7, <1>8, <2>1, <2>2, Opens
<1>9. CASE pl[p].pc \in Producing
  <2>1. PICK a \in Attempts : /\ a = This(p) /\ a[1] = p /\ a[2] = pl[p].n /\ pl[p].n \in 1..MaxRetries
                              /\ op[a] = OpsAt(pl[p].pc) /\ AttemptOK(a)
    BY <1>9, ThisAttempt DEF PlannerInv
  <2>2. AttemptOK(a)'
    BY <1>1, <1>2, <2>1 DEF Local, AttemptOK, Heard, Dies
  <2> QED
    BY <1>2, <1>4, <1>6, <1>7, <1>9, <2>1, <2>2, Works DEF Local, Ended
<1> QED
  BY <1>1, <1>8, <1>9

LEMMA WorkerEndsKeeps ==
  ASSUME PlannerInv, NEW a \in Attempts, WorkerEnds(a)
  PROVE  PlannerInv'
<1>1. PICK end \in {"plan", "rejected", "nonzero"} : worker' = [worker EXCEPT ![a] = end]
  BY DEF WorkerEnds
<1>2. worker[a] = "live" /\ UNCHANGED <<Elsewhere, fence, pl, op, worktree, driver>>
  BY DEF WorkerEnds
<1>3. PlannerTypeOK'
  BY <1>1, <1>2 DEF PlannerInv, PlannerTypeOK, Elsewhere, disk, Workers
<1>4. Exclusive' /\ Rooted'
  BY <1>2 DEF PlannerInv, Exclusive, Rooted, BootstrapHasProvenance, Elsewhere, disk
<1>5. /\ worker'[a] \notin {"none", "live"}
      /\ \A b \in Attempts \ {a} : worker'[b] = worker[b]
  BY <1>1 DEF PlannerInv, PlannerTypeOK
<1>6. ASSUME NEW p \in Planners
      PROVE  PlannerOK(p)'
  <2>1. PlannerOK(p) /\ This(p)' = This(p)
    BY <1>2 DEF PlannerInv, This
  <2>2. CASE pl[p].pc \in Producing
    <3>1. This(p) \in Attempts
      BY <2>2, ThisAttempt
    <3> QED
      BY <1>2, <1>5, <2>1, <3>1 DEF PlannerOK, Elsewhere
  <2>3. CASE pl[p].pc \notin Producing
    BY <1>2, <2>1, <2>3 DEF PlannerOK, Producing, Before, Launched, Collected, Elsewhere
  <2> QED
    BY <2>2, <2>3
<1>7. ASSUME NEW b \in Attempts
      PROVE  AttemptOK(b)'
  <2>1. AttemptOK(b)
    BY DEF PlannerInv
  <2> QED
    BY <1>2, <1>5, <2>1 DEF AttemptOK, Elsewhere
<1> QED
  BY <1>3, <1>4, <1>6, <1>7 DEF PlannerInv

LEMMA EnqueueKeeps ==
  ASSUME PlannerInv, NEW a \in Attempts, Enqueue(a)
  PROVE  PlannerInv'
<1>1. /\ request[a] = "none" /\ driver[a] # "none"
      /\ request' = [request EXCEPT ![a] = "Pending"]
      /\ UNCHANGED <<platform, disk, fence, pl, work, faults>>
  BY DEF Enqueue, enqueue_driver
<1>2. PlannerTypeOK'
  BY <1>1 DEF PlannerInv, PlannerTypeOK, disk, work, Statuses
<1>3. Exclusive' /\ Rooted'
  BY <1>1 DEF PlannerInv, Exclusive, Rooted, BootstrapHasProvenance, disk
<1>4. request'[a] = "Pending" /\ \A b \in Attempts \ {a} : request'[b] = request[b]
  BY <1>1 DEF PlannerInv, PlannerTypeOK
<1>5. ASSUME NEW p \in Planners
      PROVE  PlannerOK(p)'
  <2>1. PlannerOK(p) /\ This(p)' = This(p)
    BY <1>1 DEF PlannerInv, This
  <2>2. CASE pl[p].pc \in Producing
    <3>1. This(p) \in Attempts
      BY <2>2, ThisAttempt
    <3> QED
      BY <1>1, <1>4, <2>1, <3>1 DEF PlannerOK, work
  <2>3. CASE pl[p].pc \notin Producing
    BY <1>1, <2>1, <2>3 DEF PlannerOK, Producing, work
  <2> QED
    BY <2>2, <2>3
<1>6. ASSUME NEW b \in Attempts
      PROVE  AttemptOK(b)'
  <2>1. AttemptOK(b)
    BY DEF PlannerInv
  <2> QED
    BY <1>1, <1>4, <2>1 DEF AttemptOK, work
<1> QED
  BY <1>2, <1>3, <1>5, <1>6 DEF PlannerInv

-----------------------------------------------------------------------------
LEMMA InitEstablishes == PlannerInit => PlannerInv
<1> SUFFICES ASSUME PlannerInit PROVE PlannerInv
  OBVIOUS
<1> USE SessionAssumption
<1>1. \A p \in Planners : pl[p].pc \in {"off", "refused"} /\ pl[p].n = 0
  BY DEF PlannerInit
<1>2. PlannerTypeOK
  <2>1. platform \in Platforms
    BY DEF PlannerInit, Platforms
  <2>2. pl \in [Planners -> Locals]
    <3>1. PICK who \in SUBSET Planners :
            pl = [p \in Planners |-> [pc |-> IF p \in who THEN "off" ELSE "refused", n |-> 0,
                                      created |-> FALSE, tried |-> FALSE, blocked |-> FALSE,
                                      result |-> "none"]]
      BY DEF PlannerInit
    <3> QED
      BY <3>1 DEF Locals, PlannerPcs, Opening, Ended, Results
  <2>3. op \in [Attempts -> [worktree : OpStates, spawn : OpStates, plan : OpStates]]
    BY DEF PlannerInit, OpStates
  <2>4. worker \in [Attempts -> Workers] /\ driver \in [Attempts -> Phases] /\ request \in [Attempts -> Statuses]
    BY DEF PlannerInit, Workers, Phases, Statuses
  <2>5. dirs \in 0..Depth /\ pending \in 0..Depth /\ faults \in 0..MaxFaults
    BY DEF PlannerInit, NoIntent
  <2>6. /\ registry \in {"absent", "empty", "manifest"} /\ fence \in Planners \cup {NoOne}
        /\ rooted \in BOOLEAN /\ ledger \subseteq {"repository", "root"} /\ worktree \subseteq Attempts
    BY DEF PlannerInit
  <2>7. pl \in [Planners -> [pc : Opening \cup Producing \cup {"refused", "failed", "planned", "dead"},
                             n : 0..MaxRetries, created : BOOLEAN, tried : BOOLEAN,
                             blocked : BOOLEAN, result : {"none", "outcome", "error", "cancelled"}]]
    BY <2>2 DEF Locals, PlannerPcs, Ended, Results
  <2> QED
    BY <2>1, <2>3, <2>4, <2>5, <2>6, <2>7 DEF PlannerTypeOK
<1>3. Exclusive
  BY <1>1 DEF PlannerInit, Exclusive, Fenced, Producing
<1>4. Rooted
  BY <1>1 DEF PlannerInit, Rooted, BootstrapHasProvenance, NoIntent, Fenced, Producing
<1>5. \A p \in Planners : PlannerOK(p)
  BY <1>1 DEF PlannerOK, Producing, Before, Launched, Collected
<1>6. ASSUME NEW a \in Attempts
      PROVE  AttemptOK(a)
  <2>1. a[1] \in Planners /\ a[2] \in Nat
    BY DEF Attempts
  <2>2. op[a] = Ops("none", "none", "none") /\ driver[a] = "none" /\ worker[a] = "none" /\ request[a] = "none"
    BY DEF PlannerInit, Ops
  <2>3. op[a] = OpsAt("claim") /\ op[a].spawn = "none"
    BY <2>2 DEF OpsAt, Ops
  <2>4. ~(a[2] < pl[a[1]].n)
    BY <1>1, <2>1
  <2> QED
    BY <2>2, <2>3, <2>4 DEF AttemptOK
<1> QED
  BY <1>2, <1>3, <1>4, <1>5, <1>6 DEF PlannerInv

LEMMA NextKeeps == PlannerInv /\ [PlannerNext]_plannerVars => PlannerInv'
<1> SUFFICES ASSUME PlannerInv, [PlannerNext]_plannerVars PROVE PlannerInv'
  OBVIOUS
<1>1. ASSUME NEW p \in Planners, Open(p)
      PROVE  PlannerInv'
  BY <1>1, OpenRegistryKeeps, LockKeeps, ManifestKeeps, BindRepositoryKeeps, RegisterRootKeeps,
      BootstrapIntentKeeps, CreateDirKeeps, RegisterCreatedRootKeeps, IndexRootKeeps
     DEF Open
<1>2. ASSUME NEW p \in Planners, Prepare(p)
      PROVE  PlannerInv'
  BY <1>2, ClaimWorktreeKeeps, AddWorktreeKeeps, WorktreeAddedKeeps, IntendSpawnKeeps,
      IntendPlanKeeps, RegisterDriverKeeps, InvokeKeeps DEF Prepare
<1>3. ASSUME NEW p \in Planners, Control(p)
      PROVE  PlannerInv'
  BY <1>3, LoopFailsKeeps, MarkRunningKeeps, PollKeeps, CancelKeeps, AcknowledgeKeeps,
      CollectKeeps, UnwindKeeps, TerminalKeeps, DrainKeeps DEF Control
<1>4. ASSUME NEW p \in Planners, Finishing(p)
      PROVE  PlannerInv'
  BY <1>4, SpawnedKeeps, ParseKeeps, WriteFailsKeeps DEF Finishing
<1>5. CASE UNCHANGED plannerVars
  BY <1>5 DEF plannerVars, PlannerInv, PlannerTypeOK, Exclusive, Rooted, BootstrapHasProvenance, PlannerOK, AttemptOK,
      Heard, This
<1> QED
  BY <1>1, <1>2, <1>3, <1>4, <1>5, DiesKeeps, WorkerEndsKeeps, EnqueueKeeps DEF PlannerNext, Planner,
      CancelDriver

\* The invariant of the session: who is at which point of the command, what its attempt is
\* there, and what is left of the attempts it is no longer at (decompose_owned).
THEOREM SessionInvariant == PlannerSpec => []PlannerInv
<1> QED
  BY InitEstablishes, NextKeeps, PTL DEF PlannerSpec

-----------------------------------------------------------------------------
\* An answered cancellation is final (collect_with_driver, acknowledge_cancellation): for
\* any number of planners, attempts and requests, the worker of an attempt whose request is
\* Applied is gone, no plan comes of an attempt whose request was answered, and its planner
\* begins no other.
THEOREM CancelTheorem == PlannerSpec => []CancelIsFinal
<1>1. PlannerInv => CancelIsFinal
  BY DEF PlannerInv, AttemptOK, CancelIsFinal, AppliedMeansStopped, CancelledNeverPlans
<1> QED
  BY <1>1, SessionInvariant, PTL

\* At most one planner is at work: the fence is one planner's.
LEMMA OneAtWork ==
  ASSUME PlannerInv
  PROVE  Cardinality({p \in Planners : pl[p].pc \in Producing}) <= 1
<1> DEFINE busy == {p \in Planners : pl[p].pc \in Producing}
<1>1. busy \subseteq {fence}
  BY DEF PlannerInv, Exclusive, Fenced
<1>2. IsFiniteSet({fence}) /\ Cardinality({fence}) = 1
  BY FS_Singleton
<1>3. Cardinality(busy) <= Cardinality({fence})
  BY <1>1, <1>2, FS_Subset
<1> QED
  BY <1>2, <1>3

\* Nothing is produced that no intent names (bootstrap_root, decompose_owned): a root that
\* is half made has its bootstrap intent, an attempt is retried only after every operation
\* of the one before has its step and its worker is gone, and no two planners produce.
THEOREM ProductionTheorem == PlannerSpec => []ProductionIsOwned
<1>1. ASSUME PlannerInv
      PROVE  ProductionIsOwned
  <2>1. BootstrapHasProvenance
    BY <1>1 DEF PlannerInv, Rooted
  <2>2. RetryAfterCertainty
    BY <1>1, OneAtWork DEF PlannerInv, AttemptOK, Ops, RetryAfterCertainty
  <2> QED
    BY <2>1, <2>2 DEF ProductionIsOwned
<1> QED
  BY <1>1, SessionInvariant, PTL

=============================================================================
