------------------------------ MODULE TaskGraph ------------------------------
(***************************************************************************)
(* The task graph of crates/meshloop-domain/src/task_graph.rs and the tier *)
(* assignment of crates/meshloop-engine/src/planner.rs, as pure operators.  *)
(*                                                                         *)
(* A graph is the sequence of its nodes, as in the plan file: ids may      *)
(* repeat and dependencies may dangle until validate has seen it.  A        *)
(* node's depends_on is kept as a set.  graph_id, descriptions and paths    *)
(* are left out; a tag stands for the deliverable of a node.                *)
(***************************************************************************)
EXTENDS Naturals, Sequences, FiniteSets

NoTier == 0                       \* `tier` omitted in the plan file
Tiers == 1..3
NoTag == "none"

Node(ids, tags) == [id : ids, deps : SUBSET ids, tier : Tiers \cup {NoTier},
                    gate : {"human", "verify"}, tag : tags]

nodes(g) == {g[i] : i \in DOMAIN g}
IdsOf(g) == {n.id : n \in nodes(g)}

\* The dependencies of id; an id the graph does not have has none.
DepsOf(g, id) == UNION {n.deps : n \in {x \in nodes(g) : x.id = id}}

NoDuplicates(g) == \A i, j \in DOMAIN g : g[i].id = g[j].id => i = j

\* petgraph's toposort succeeds exactly when every non-empty set of nodes has
\* one that depends on none of the set.
Acyclic(g) ==
  \A S \in SUBSET IdsOf(g) : S # {} => \E id \in S : DepsOf(g, id) \cap S = {}

\* Empty, reserved and duplicate ids, the verify gate, dangling dependencies
\* and cycles, in the order of try_topological_order.
validate(g) ==
  /\ g # <<>>
  /\ \A n \in nodes(g) : n.id # 0 /\ (n.gate = "verify" => n.tier \in {1, 2})
  /\ NoDuplicates(g)
  /\ \A n \in nodes(g) : n.deps \subseteq IdsOf(g)
  /\ Acyclic(g)

\* Nodes not integrated whose dependencies all are.
ready_nodes(g, integrated) ==
  {id \in IdsOf(g) \ integrated : DepsOf(g, id) \subseteq integrated}

\* DefaultTierAssigner: two dependencies make Tier3, a dependent makes Tier2.
DefaultTier(g, id) ==
  IF Cardinality(DepsOf(g, id)) >= 2 THEN 3
  ELSE IF \E n \in nodes(g) : id \in n.deps THEN 2
  ELSE 1

\* Only a node that declares no tier gets one.
assign_tiers(g) ==
  [i \in DOMAIN g |->
     IF g[i].tier = NoTier THEN [g[i] EXCEPT !.tier = DefaultTier(g, g[i].id)] ELSE g[i]]

(***************************************************************************)
(* GraphMutation: a record [kind, task, new]; new is a sequence of nodes.  *)
(***************************************************************************)
MutationKinds == {"InsertPrerequisite", "AppendFollowup"}

\* Nodes of new that no other new node depends on.
Terminals(new) == {n.id : n \in {x \in nodes(new) : \A y \in nodes(new) : x.id \notin y.deps}}

InsertPrerequisite(g, target, new) ==
  [i \in DOMAIN g |->
     IF g[i].id = target THEN [g[i] EXCEPT !.deps = @ \cup Terminals(new)] ELSE g[i]] \o new

\* A new node without a dependency on another new one depends on source.
AppendFollowup(g, source, new) ==
  g \o [i \in DOMAIN new |->
          IF new[i].deps \cap IdsOf(new) = {}
            THEN [new[i] EXCEPT !.deps = @ \cup {source}] ELSE new[i]]

Mutated(g, m) ==
  IF m.kind = "InsertPrerequisite" THEN InsertPrerequisite(g, m.task, m.new)
  ELSE AppendFollowup(g, m.task, m.new)

\* The checks of apply_mutation: new tasks, the named task, fresh ids, and
\* the validity of the candidate that then replaces the graph.
MutationApplies(g, m) ==
  /\ m.new # <<>>
  /\ m.task \in IdsOf(g)
  /\ \A n \in nodes(m.new) : n.id # 0 /\ n.id \notin IdsOf(g)
  /\ NoDuplicates(m.new)
  /\ validate(Mutated(g, m))

(***************************************************************************)
(* Deliverables: the nodes with a tag and all that they depend on.         *)
(***************************************************************************)
Tagged(g, tag) == {n.id : n \in {x \in nodes(g) : x.tag = tag}}

\* What the walk from the tagged nodes along depends_on visits: the least set that holds
\* them and the dependencies of its members.
deliverable_closure(g, tag) ==
  {id \in IdsOf(g) : \A S \in SUBSET IdsOf(g) :
     Tagged(g, tag) \subseteq S /\ (\A u \in S : DepsOf(g, u) \subseteq S) => id \in S}
=============================================================================
