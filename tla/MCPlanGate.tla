------------------------------ MODULE MCPlanGate ------------------------------
(* Instances of PlanGate for TLC. *)
EXTENDS PlanGate, TLC

CONSTANTS c1, c2

N(id, deps, tier, gate) == [id |-> id, deps |-> deps, tier |-> tier, gate |-> gate, tag |-> NoTag]

MCIds == {1, 2, 3}
MCCommands == {c1, c2}

\* A verify-gated root with a dependent, a single node, and a cycle.
MCFiles == {<<N(1, {}, 1, "verify"), N(2, {1}, NoTier, "human")>>,
            <<N(1, {}, NoTier, "human")>>,
            <<N(1, {2}, NoTier, "human"), N(2, {1}, NoTier, "human")>>}

\* A prerequisite, a follow-up, and a prerequisite that closes a cycle.
MCMutations ==
  {[kind |-> "InsertPrerequisite", task |-> 1, new |-> <<N(3, {}, NoTier, "human")>>],
   [kind |-> "AppendFollowup", task |-> 1, new |-> <<N(3, {}, NoTier, "human")>>],
   [kind |-> "InsertPrerequisite", task |-> 1, new |-> <<N(3, {2}, NoTier, "human")>>]}

Exchange == Permutations(MCCommands)
=============================================================================
